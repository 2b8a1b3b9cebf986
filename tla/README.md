# Verification of builds.sr.ht

TLA+ models of builds.sr.ht, the continuous integration service of sourcehut:
what happens to a job from the GraphQL request that submits it to the mail that
reports its outcome, and to the VM it runs on. TLC checks the models on small
instances, TLAPS proves the theorems in the `*Proofs` modules for all of them.

Paths below are relative to the repository (`src/`).

## 1. The system

A job is a row of the `job` table, a manifest (YAML) and a Celery message. It is
submitted through the GraphQL API (`api/`), which the web pages, the legacy REST
API (`buildsrht/`) and `master-shell` call too. The message goes to a Redis list;
a worker process (`worker/`) takes it off, boots a VM with the image's control
script (`images/control`), runs the tasks on it over ssh, writes the status of the
row and sends mails and webhooks. The owner can cancel a running job (the API posts
to the worker's HTTP server) or log in to its VM (`runner-shell`).

The status column is the only thing all of them share: `pending`, `queued`,
`running`, then `success`, `failed`, `timeout` or `cancelled`. Nothing in the
schema or in the code is a state machine for it; it is an unconditional `UPDATE`
from several places. Most of what can go wrong here is about who writes it last.

### Components

| component | state it keeps | operations | interacts through |
|---|---|---|---|
| **Build lifecycle**: `RunBuild`, `Standby` (`worker/context.go`) | one `JobContext` per build: context, status in memory, flags (`Settled`, `Claimed`, `ProcessedTriggers`), log, port | the steps of a build; the deferred function that records failures, keeps the VM in standby and cleans up | the `jobs` map and its mutex, the job row, the VM, triggers |
| **Worker process** (`worker/main.go`) | the `jobs` map, a fixed number of goroutines | take a message, run it; die | Redis list, map |
| **Worker HTTP server** (`worker/http.go`) | none of its own | info, cancel, terminate, claim, logs | map under the mutex (info: without), contexts, job rows |
| **Build steps** (`worker/tasks.go`) | task rows, artifacts, the ssh-port counter in Redis, files on the guest | boot, settle, send tasks/env/secrets, clone, install, run tasks, upload | VM over ssh, killed by the context |
| **Job triggers** (`worker/triggers.go`) | `ProcessedTriggers` | mail or webhook for the job's status | SMTP, HTTP |
| **Job group triggers** (`worker/triggers.go`, `database.go`) | rows of the group | decide whether this job is the last, and report | rows of jobs other builds are writing |
| **GraphQL mutations** (`api/graph/schema.resolvers.go`, `resolver.go`) | job, job_group, trigger rows | submit, start, cancel, createGroup, startGroup | transactions and row locks, messages, HTTP to the worker |
| **Message queue** (`api/graph/celery.go`) | Redis list | push; blocking pop, no acknowledgement | API, workers |
| **Queries and cursors** (`api/graph/model`, `api/loaders`) | none | paginated reads | rows |
| **Secrets** | secret rows | create, share, send to the guest | submit decides whether a build may have them |
| **Account deletion** (`api/account`) | in-memory work queue | delete the user, cascade | rows of running builds |
| **User webhooks** (`api/webhooks`) | subscriptions, deliveries | schedule on submit | core-go's queue |
| **Legacy REST and web pages** (`buildsrht/`) | log and badge caches in Redis | forward to GraphQL, render | GraphQL, worker, caches |
| **Manifest validation** (`api/graph/manifest.go`, `buildsrht/manifest.py`) | none | accept or reject | what the worker assumes |
| **Shell access** (`buildsrht-keys`, `master-shell`, `runner-shell`) | a session counter per job in Redis | connect (info, claim, count, ssh, count, terminate), tail | worker HTTP server |
| **Image control** (`images/control`) | pid files per port | boot, cleanup | VMs |
| **Schema, migrations, administration** | the tables | none at run time | – |

### What is hard about it

- *Concurrent writers of one status.* The build goroutine, the cancel handler (which
  cancels the context first and writes second), startGroup, createGroup and, when a
  message is delivered twice, a second build.
- *Panics as control flow.* Every failure of a build is a panic that one deferred
  function recovers. It can come before that function is registered, from the
  function itself, or after a success was recorded, when a trigger panics.
- *Nothing is acknowledged.* A message is gone once it is taken; errors of
  `SetStatus` are ignored; a cleanup command that fails is not tried again.
- *Waiting.* Shell builds and builds in standby hold a goroutine until the deadline;
  the cancel handler holds the mutex of the worker during a database statement.
- *A group has no coordinator.* Each build writes its row, then reads everybody's.
- *Reads that are used later.* `job_group_id` is read once before the build,
  `Claimed` once in standby, the running status before the cancel request.

- *One host, many builds.* Ports come from a counter in Redis that is wrapped by a
  second request and comes round whether its ports are free or not, VMs and their cleanup
  are found by port, and the log directory of a task
  belongs to the job, so that a second delivery meets the first one's.
- *Users at the door.* The last session to log out ends the build, and each of them asks
  for the port, claims, counts itself and logs in, one request at a time.
- *Lists that move.* A client reads a list page by page while rows come and go.

PROJECT.json lists the hazards one by one with their lines and the properties that
would catch them; the two that have none say why.

### What makes each component correct

- Build lifecycle: cancel requests reach every build that still runs commands; none is
  acted on after a success was decided; a success is never overwritten; a cancelled
  build does not succeed; triggers are processed once and report what is recorded; VMs
  are not forgotten; every build comes to its cleanup and no status stays "running".
- Job groups: when all members are over, some member has reported, with an outcome that
  agrees with the rows; a group reported a success stays one.
- API: a queued job has a message or a worker, or one was lost; a build knows its group;
  a group that is over, and for which nothing is under way, is reported; a job the worker
  does not know is cancelled.
- Guest: a build runs in a VM of its own; a script is started once; the rows of tasks and
  artifacts say what happened, and none stays "running"; the rows of a job are those of one
  list worked off in order, however often it is delivered.
- Shell access: a session keeps its VM, the last logout ends the build, and no other does.
- Lists: a walk returns every row that stays, none twice, its pages are full, and it ends.
- Not modelled yet: a trigger that is accepted is sent; rows that vanish with an account
  leave no build behind.

## 2. Modules

| module | extends | instance for TLC | proofs |
|---|---|---|---|
| `RunBuild` | – | `MCRunBuild` | `RunBuildProofs`, `OutcomeProofs` |
| `JobLifecycle` (abstract) | – | through `RunBuildLifecycle` and `JobGroup` | – |
| `RunBuildLifecycle` | `RunBuild`; instantiates `JobLifecycle` with a refinement mapping | `MCRunBuild` | `LifecycleProofs` |
| `JobGroup` | `JobLifecycle` | `MCJobGroup` | `JobGroupProofs` |
| `RunnerShell` | `RunBuild` | `MCRunnerShell` | `RunnerShellProofs` |
| `BuildsApi` | – | `MCBuildsApi` | `BuildsApiProofs` |
| `Guest` | – | through `GuestTasks` | `GuestProofs` |
| `TaskList` (abstract) | – | through `GuestTasks` | – |
| `GuestTasks` | `Guest`; instantiates `TaskList` with a refinement mapping | `MCGuest` | `GuestProofs` |
| `Listing` | – | `MCListing` | `ListingProofs` |

### RunBuild – one worker process

Translates `worker/context.go`, the handlers of `http.go`, and the parts of `main.go`,
`tasks.go`, `triggers.go` and `database.go` they use. A *run* is one delivery of a
`run_build` message; `JobOf` says for which job. `pc[r]` names the points of `RunBuild`
between which another goroutine can be scheduled and see a difference:

| phase | code | action that leaves it |
|---|---|---|
| `queued` | message in Redis | `Deliver` (needs a free goroutine) |
| `start` | context.go 97–107 | `Start`, `StartFails` (panic before the defer) |
| `insert` | 154–156 | `Insert` (mutex) |
| `setup` | 158–170 | `Setup` |
| `boot`, `booting` | 172, tasks.go 53–91 | `Boot` begins the command, `Booted` is its end |
| `settle`, `settling` | 174, tasks.go 93–140 | `Settle`, `Settled` |
| `tasks`, `exec` | 187–205 | `BeginTask`, `EndTask`, `AllTasksDone` |
| `shell` | 207–209 | `ShellEnds` |
| `delete` | 211–213 | `Delete` (mutex) |
| `succeed` | 215–216 | `Succeed` |
| `notify` | 217–218 | `Notify` |
| `recover` | 114–117 | `Recover` reads the context |
| `record` | 118–122 | `Record` writes the status |
| `notifyFailure` | 124–131 | `NotifyFailure` |
| `standby`, `claimed` | 223–248 | `Standby`, `ClaimEnds` |
| `cleanup` | 136–138, tasks.go 83–90 | `Cleanup` |
| `done`, `escaped`, `lost` | returned; panic nobody recovered; died with the process | – |

Commands (`exec.CommandContext`) are not started when the context is over and are killed
when it ends while they run, unless they have just finished: hence two steps, and no
guard on the context in the second. `CommandTasks` are the tasks that run a command for
every manifest considered; the others may be passed over, as the code does with empty
lists. The mutex is `handler`: the only critical section that is not a single step is
the cancel handler's (`HttpCancel`, `HttpCancelWrites`); the others are guarded by
`handler = NoRun`. `status` is the column, `jobStatus` the copy in memory, `verdict` a
history variable with the outcome a run has decided on, `announced` a history
variable of what the job's triggers reported. `Panicking` are the jobs one of whose
triggers may panic (a webhook URL that does not parse, triggers.go 297–298; a sender
address that does not, 143–147). `Crash` is the death of the process for any reason,
including the runtime's abort of the unlocked map read in `/info` and the panic of the
settle goroutine, followed by a restart with an empty map.

### JobLifecycle, RunBuildLifecycle – what a worker promises of a job's status

`JobLifecycle` is the abstract specification: phase, decided outcome, status in memory,
status column and whether a cancel request finds the job, for jobs delivered once, on
any number of workers. `RunBuildLifecycle` instantiates it with a refinement mapping
(`LifePhase` folds the phases above; a run that panicked on its success path counts as
`written` until it has read its context again). `LifecycleProofs` proves the refinement.

### JobGroup – group triggers

Extends `JobLifecycle` with `processJobGroupTriggers` of every member: `Count`
(`GetJobGroup`, one statement), `Read` (`GetJobs`, another one, and the loop that works
out the outcome), `Report`. Cancel requests, crashes and the rest of the builds go on
between the steps. `sent` is the history of reports. `Verdicts` is a set because the
rows come in no particular order and the last one that is not a success wins.

### BuildsApi – requests, transactions and messages

The resolvers that write, with the row locks of PostgreSQL: a transaction that is one
statement followed by its commit is one step; `start`, which sends its message inside
the transaction, is three (`StartUpdates`, `StartSends`, `StartCommits`), and writers of
the row wait (`Unlocked`). `outbox` holds messages of requests that have committed and
are still sending. The worker is reduced to `Take`, `GetJob` (which reads the group),
`Build` and `End`. `early` is a history variable: the jobs whose message was sent while the
row stayed `pending`. `lost` is another: the jobs a message of which was never sent, or
was with a worker that died.

### RunnerShell – sessions and the worker

Extends `RunBuild` with `runner-shell connect`. `Connect` is the request for `/info` at the
start of the script, whose answer (`room`: the build whose port it has, or none, as the port
is zero before the boot command) is used for ssh much later; `Follow` the loop of `tail`
that waits for the tasks to end; then `Claim`, `CountIn` (INCR), `Login`, `Logout`,
`CountOut` (DECR) and `Terminate`, each with the requests to the worker as the
composed actions of `RunBuild` (`HttpClaim`, `HttpTerminate`), so that they wait for the
mutex. `Die` is a session that is killed: its count stays. In this composition claim and
terminate come from sessions only, cancel from the API. What is proved of `RunBuild` holds
here (`ShellIsRunBuild`).

### Guest – one worker host

What `RunBuild` has as commands that succeed or fail. `TakePort` is INCR, `SetBack` the SET
when the answer is out of range, `Boot` the image control script: docker refuses a port
or a container name that is taken, a bare qemu in the background fails unnoticed, and then
`Behind(b)`, the VM that answers on the port, is another build's. `BeginTask` to `FailTask`
are `RunTasks`: the row, the log directory (`Mkdir`, which fails for the second delivery),
the script, the row again, the mark of `complete-build` and the skipping of the rest.
`BeginUpload`, `Measure`, `Put` and `InsertArtifact` are `UploadArtifacts`; `Cleanup` turns off
whoever has the port. A deadline or a cancel request is one of the reasons why a step
fails, so the module has no context. `harmed` holds the jobs for which an ignored statement
failed or whose worker died.

Ports are used again and again, as in the code: the counter is unbounded, and neither it nor
the number of builds is limited. Two history variables say what that does. `respite` counts
down, from the size of the range, how many ports are still taken before that of a build comes
round; it is 0 for all builds after a SET that comes late, when another build has set
the counter already. `clashing` holds the builds whose port came round while they, or a VM
they had left behind (after a crash, a boot command that failed, a cleanup that failed),
still used it, and those that took it.

### TaskList, GuestTasks – what the rows of tasks promise

`TaskList` is the abstract specification of the task table: the row of each task, the scripts
that were started (`begun`) and have exited with status 0 (`done`), the jobs whose rest is
skipped and those whose list nobody works on any more. A task has its `Turn` when all before
it are done; `Write` lets a row go from pending to running, skipped or failed, and from
running to success or failed, and never back. It knows nothing of deliveries, except that jobs
delivered more than once (`Shared`) have a first row that others write to (`Disturb`).
`GuestTasks` maps the deliveries of a job to its list: the one that `Leads` is the only
delivery or the one that has started the first script, and its loop is the list's;
the others, the VMs, the port counter, the artifacts, and the crashes are stutters or
`Stop`s.

### Listing – paginated queries

One client walking one of four lists (`QueryWithCursor` of jobs, secrets, deliveries and
subscriptions), a page per step, and the requests that change the list in between:
`Insert` takes the id, `Commit` makes the row visible, in any order; rows are hidden and
shown (jobs), deleted (secrets, subscriptions), or lose their filter (deliveries of a
subscription that goes). `stayed` are the rows that were there since before the first request.

### MC modules and configurations

The `MC*` modules declare the model values and the functions
a `.cfg` cannot express, and nothing else. Operators marked "Faulty variant" in the
modules are not used by any specification: each is the form a plausible mistake
would give the definition after it, used to see that the property it is paired with in
PROJECT.json fails for it.

## 3. Runs

`tlc -workers 2 -config MCRunBuild_one.cfg MCRunBuild` and so on; `guest` takes two
to three minutes, `pool` and `shell` one or two, the others less. Deadlock is not checked
anywhere: every system here may stop when all messages were run and nobody asks for more.

| run | configuration | checks | bound and why it is enough |
|---|---|---|---|
| one | MCRunBuild_one | `TypeOK`, `BuildIsReachable`, `NoVmLeak`, `TriggersOnce`, `CancelBeatsSuccess`, `SuccessSticks`, `ImplementsLifecycle`, `EveryRunEnds`, `CancelFreesVm` | one build with a shell, in a group, with triggers that may panic, failing statements, one crash; the properties are about one build, and requests may come at every step, any number of times |
| pool | MCRunBuild_pool | `NoCancelAfterDelete`, `RunningIsInProgress`, `EveryRunEnds` | a job with triggers delivered twice to one goroutine: the second waits for the first, and overwrites the entry a failed first one left; two goroutines are the theorems' case, a shell and triggers that panic that of `one` |
| faults | MCJobGroup_faults | `TypeOK`, `SuccessReportHolds`, `EndIsReported` | failing statements, crashes and a panic, two members that race to be last; groups of any size are the theorems' case |
| success | MCJobGroup_success | `SuccessMeansAll` (violated) | finding 1 |
| api | MCBuildsApi_all | `TypeOK`, `QueuedIsOnItsWay`, `GroupIsSeen`, `QuietGroupIsReported` | two jobs, two workers, one group, one start request (of a job or of the group) besides any number of submissions, cancel requests, failures and crashes |
| unknown, group | MCBuildsApi_* | `UnknownIsCancelled`, `CompletionIsReported` (violated) | findings 2 and 3 |
| shell | MCRunnerShell_shell | `ShellTypeOK`, `SuccessReportedIsRecorded`, `TriggersOnce`, `LogoutEndsBuild`, `SessionKeepsStandby`, `FollowingEnds` | a shell build and two sessions, one of which may die: one can arrive while the other leaves, and their counts overlap in every order |
| early | MCRunnerShell_early | `OnlyLogoutTerminates` (violated) | finding 4 |
| guest | MCGuest_guest | `TypeOK`, `OwnGuest`, `StartsOnce`, `RunningIsAtTask`, `TaskRowsTell`, `ArtifactsHold`, `ImplementsTaskList` | three builds, two at a time: a job of two tasks delivered twice and a docker job without tasks that wants more artifacts than are accepted; a range of two ports, so that the first build comes to its end and sets the counter back, perhaps after others have counted on, and the third has the first one's port, whose VM may be in use, left behind or gone; failing statements and a crash. A counter that is unset at first, and a late SET that leads to a clash, take four builds: they are the theorems' case |
| pages | MCListing_pages | `TypeOK`, `ReturnedOnce`, `NothingMissed`, `PagesAdvance`, `WalkEnds` | every list, pages of two rows, six ids: three pages, with room for rows committed between any two of them |
| subscriptions | MCListing_subscriptions | `SubscriptionsEnd` (violated) | finding 5 |

Bounds: `MaxCrashes` (1; a second crash meets the same states), `MaxStarts` (1 request in
`api`, none in the two that show a violation; the theorems are for any number),
`NTasks` (3 instead of 9: one task before, one after and one passed over; 1 where tasks do not
matter), `MaxArtifacts` (1 instead of 8), the range of ports, `MaxId`, and the sets of
jobs, runs, sessions and workers. Everything else is unbounded in the code and finite in the
model by itself: requests to the worker may come any number of times.

*Fairness* (`FairSpec` of RunBuild). Weak fairness of every goroutine's own steps, but
for the cleanup, and of the deadline. Goroutines are scheduled and timers fire; commands on
the guest are killed at the deadline (`exec.CommandContext`), webhooks time out after ten
seconds (triggers.go:296); PostgreSQL, Redis, the object store and the mail server are taken to
answer or to fail. The cleanup command is not fair: it is run under `context.TODO()`
(tasks.go:85), and the control script first logs in to the guest, without a timeout
(images/control:196, 204), so that it need never return. Hence what `EveryRunEnds` promises
is that a build comes to its end or to its cleanup, unless every goroutine of the worker is held
by a cleanup for ever, and `CancelFreesVm` that the cleanup is started. Strong fairness of the two steps that take the mutex, because requests may
take it again and again: `sync.Mutex` hands over to a waiter that has waited a
millisecond. Weak fairness of the handler's second step: a statement of the database
returns. Requests are not fair: nobody need ever cancel.
`ShellFairness` adds weak fairness of what a session does by itself (an ssh with nobody behind
it returns; its user need never log out) and strong fairness of its two requests under
the mutex. `FairSpec` of Listing is weak fairness of `Request`: the property is about
clients that go on asking, and inserts are as fast as they like.

### Findings

1. `SuccessMeansAll`: a group trigger with condition *success* looks at the job that
   finishes last (triggers.go:374), not at the group, against the comment 30 lines above.
2. `UnknownIsCancelled`: cancelling a job its worker has forgotten changes the returned
   object, not the row (schema.resolvers.go:447), against the comment above it.
3. `CompletionIsReported`: a submitted job stays `pending` until a worker marks it, so
   createGroup accepts one whose worker has already read that it has no group; if it
   is the last to finish, the triggers of the group never run. `QuietGroupIsReported` says
   that it takes a message sent for a job that stays pending, or a lost one.
4. `OnlyLogoutTerminates`: a session that asked for the port before the worker had one
   (runner-shell uses the first answer) is turned away by ssh, counts itself out as the last
   one and terminates the build, to which nobody has logged in; the script promises that
   this happens "when you log out" (runner-shell:59).
5. `SubscriptionsEnd`: the list of webhook subscriptions is sorted oldest first and its
   cursor asks for ids up to the last one (webhooks.go:197–200), so that the second page is
   the first one again, and so on; with more subscriptions than fit on a page a client
   never sees the rest nor a null cursor (schema.graphqls:364).

Also visible in the models, and allowed by their properties:

- Nobody looks whether a port is free. When the counter comes round, after a thousand builds
  or after two builds have set it back at once, to a port that is still in use or whose VM was
  left behind, a build in docker fails to boot; a bare qemu fails unnoticed, and
  the build runs its tasks in the VM that is there, which its cleanup then turns off (`Exposed`
  in Guest).
- A guest that does not answer the login of the cleanup command holds a goroutine of the worker
  for ever (`Fairness` in RunBuild).
- The second delivery of a job fails at its first task, whose log directory exists, and
  puts "failed" over the row of the first delivery's task (`FailTask`); `TaskRowsTell` says that
  this is the only row that lies.
- A failed build never brings its task counter to the end, so a session that follows its
  log goes on until it is killed or the worker forgets the build (`FollowingEnds`).
- A session that dies while it is counted keeps the build up to its deadline.
- Two artifacts with one base name get one object (tasks.go:679); Guest takes the names of
  a manifest's artifacts to be distinct.

- A claim that arrives after the ten minutes, or between the read of the flag and
  cleanup, is answered 200 and ignored (context.go:238), although the log has told the
  owner that the deadline would be extended: in RunBuild, `HttpClaim` after `Standby`.
- startGroup queues every job of the group, also those that run or are over
  (resolver.go:91), where the schema says "Starts a pending job group": in BuildsApi,
  `StartGroup` has no guard on the status.
- After the first error while sending, the rest of a group stays `queued` with no message
  (`SendFails`); so does a job whose worker died before it marked the row.
- Two members that finish together both report (JobGroup has no property against
  duplicates); a cancel request for a build that failed, still unwinding or in standby,
  turns its recorded failure into a cancellation, so a group can be reported twice with
  different failures; a trigger that panics after a success leaves `cancelled` in the row.

## 4. Proofs

`tlapm M.tla` for each module `*Proofs`. The theorems hold for all values of the constants
that satisfy the assumptions named in the modules (`ConstantsOK`, `LifecycleConstants`,
`GroupConstants`, `ApiConstants`, `ShellConstants`, `GuestConstants`, `ListingConstants`),
which TLC evaluates in every run.

**RunBuildProofs.** `TypeCorrect` needs one fact beside the types: a task command only runs
while the counter is in range (`ExecBelowEnd`). `EntryIsKept` (`BuildIsReachable`) and
`CancelOrdered` (`NoCancelAfterDelete`) come from `MapInv`: an entry leads to a run of its
own job that was inserted (`MapNames`), and no outcome is decided before or during the
build (`VerdictOpen`). The second holds of jobs delivered any number of times, since every
deletion is under the mutex. `SuccessIsFinal` (`SuccessSticks`) and `ReportsHold`
(`SuccessReportedIsRecorded`) come from `SuccessInv`, which adds for each run that memory
claims a success only if the row has it, and that a row with a success belongs to a run that
no handler can find and that will not write again, unless a trigger of it panics
(`OutOfReach`). The induction is split by what a step touches: most steps of other runs and
handlers leave a run's facts alone (`Spares`), so that each action is considered once for
the run that takes it.

**JobGroupProofs.** `GroupIsLifecycle`: what the life cycle says of a job's status is true of the
members. `SuccessReportsHold` from `LifeInv` (a success is out of the reach of
cancel requests and of its own build) and `SuccessPending` (a build about to report a
success saw only successes). `EndReported`, for groups of any size, from `WillReport`: once
every outcome was written, either some report agrees with the rows, or some build has
yet to look at them, or has looked and saw what is still there. The build that writes last is the
witness; cancel requests after that do not make or unmake a success.

**BuildsApiProofs.** `QueuedArrives` from `WayInv`, which covers, beside the queued jobs, the start request that has sent
its message but not committed: its row lock keeps the worker from using the message up.
`GroupSeen` from `FreshInv`: a job that is pending, and for which no message was sent, is in
nobody's hands, so createGroup does not come too late for it. `QuietGroupsAreReported`
(`QuietGroupIsReported`) from both, from `RunningInv` (a row that says running has a worker that
builds the job) and from `PastInv` (a cancel request has found its job past pending): together
they leave a member that is not over pending or in somebody's hands (`NotOver`), so that
only the end of a build can be the last step of a group (`EndsIt`), and that build knows of it.

**OutcomeProofs** adds to these facts what follows for the rest of a build. `ReportedOnce`
(`TriggersOnce`) from `TriggerInv`, which relates the debounce flag to what was announced;
`NoVmIsForgotten` (`NoVmLeak`) from `VmInv`: a run with a VM had a log, so that only a panicking
trigger keeps it from its cleanup; `RunningIsTrue` (`RunningIsInProgress`) from `RunningInv`: a row
that says running has a run that has not written its outcome (`Owes`), and runs that share a
row each write it; `CancelledNeverSucceeds` (`CancelBeatsSuccess`) from `Fated`: once doomed, a run
is among its tasks, in the deferred function or over, for each run by itself
(`FateIsSealed`). `BuildsOnlyAdvance` bounds the steps of a delivery by a number that each of
its own steps lowers and nobody else's raises (`StepsLeft`): the half of `EveryRunEnds` that does
not depend on fairness.

**LifecycleProofs.** `WorkerImplementsLifecycle`: if every job is delivered, and once
(`DeliveredOnce`; the abstract specification knows one build per job), `Spec` implies
`ImplementsLifecycle`. Every step of a run is mapped to a step of its job or to a stutter
(`StepMaps`), a crash to `Crash` (`CrashMaps`), the second half of a cancel request to `Cancel`
(`CancelMaps`), from `LifeInv`: `SuccessInv`, the verdicts at the phases of the deferred function
(`OutcomeInv`), and that the entry a handler has found stays while it holds the mutex
(`HandlerInv`).

**RunnerShellProofs.** `ShellIsRunBuild` makes the invariants of the worker available, and its
refinement (`ShellImplementsLifecycle`).
`CounterCoversSessions` (`ShellTypeOK`) from `CountInv`: the counter lies between the sessions that are
counted and those together with the ones that died counted. `VisitorsAreNotEvicted` (`SessionKeepsStandby`)
and `LastLogoutEnds` (`LogoutEndsBuild`) from `ShellInv`, which adds that a build that may still want its
VM is in the map (`Kept`), that the port a session has is of a build of its job (`Rooms`), and that
whoever is past its claim has claimed that build (`Claims`).

**GuestProofs.** `ScriptsStartOnce` (`StartsOnce`) from `StartInv`: whoever is about to start a script has made
its log directory, and nobody else has. `RunningRowsAreWorkedOn` (`RunningIsAtTask`) is inductive
with the types. `TaskRowsAreTrue` (`TaskRowsTell`) from `LeadInv` and `RowInv`: of the deliveries of a job one
at most gets past the first task (`OnePasses`), so that nobody else writes the later rows, and those
it has left behind are as it wrote them. `ArtifactsAreThere` (`ArtifactsHold`) from `ArtifactInv`, a
loop invariant of the upload.

`BuildsKeepApart` (`OwnGuest`) is for any number of builds, however often the ports come
round. `LapInv` is the arithmetic: while a build has respite, the counter is where it was
when the port was taken plus the ports taken since (`SameLap`), or it was set in time and
has at least that far to go (`LaterLap`). It follows that a port comes round only when
its respite is over (`PortsComeRoundLate`), so that the two builds that then have it are known to
clash if the first still uses it (`ClashInv`). `VmInv` adds that there is one VM behind a
port at most (`OneVm`), and that a build that has booted has its VM up unless it is exposed
(`UpInv`): a bare qemu that finds a VM on its port is exposed, docker refuses to boot, and a cleanup
by port reaches another build's VM only if both are exposed (`NoneBehind`).
`OnlyCleanupTurnsOff` follows from the same invariant, for VMs that were left behind too. Where all
jobs run in docker, the default, nobody is ever exposed.

`GuestImplementsTaskList` (`ImplementsTaskList`): at most one delivery of a job leads (`OneLeader`);
`WorkInv` says of each delivery that all tasks before its own have exited with status 0, and
`AheadInv` that the rows ahead of it are still pending and their scripts unstarted. Every step of the
leader is then a step of its list (`LoopMaps`), a failure before there is one `Disturbs` the
first row, and the rest stutters. `FinishedRowsStay` is what this says of one row.

**ListingProofs.** `OncePerWalk` and `WholeListWalked` from `Progress`: what was returned has ids above the
cursor, what stayed is at the cursor or below, or was returned. The cursor's own row need not
exist any more. `PagesMoveDown` (`PagesAdvance`) counts: a page with one row too many has at least two,
so that the last one, which becomes the cursor, is below the one before.

Only model-checked: the four liveness properties (`EveryRunEnds`, `CancelFreesVm`, `FollowingEnds`,
`WalkEnds`), which are about fairness and out of the prover's reach; of the first and the last
the descent is proved (`BuildsOnlyAdvance`, `PagesMoveDown`). The proofs use no recursion and
no induction over data.

## 5. Abstractions

- A manifest is what the builds' control depends on: shell, triggers, which tasks run
  commands. Guest commands may succeed or fail at will.
- A status write is one step. `SetStatus` that fails after it was applied (a lost answer) is
  modelled where it panics (`StartFails`) and not where its error is ignored.
- Trigger conditions of a job's own triggers are not distinguished: all of them see the same
  status. Mails and webhooks are sent or not; their content is the status.
- Time is order: the deadline may pass at any moment after the context exists, standby may
  end at any moment.
- PostgreSQL runs at its default isolation level, read committed: statements see committed
  rows, writers wait for each other. Celery, Redis and core-go are modelled from how this
  repository calls them.
- JobGroup assumes members that are delivered once and a group made before they start;
  what happens otherwise is BuildsApi's (`GroupIsSeen`).

- In Guest tasks and artifacts are numbers, and a VM is what answers behind a port; what
  a script does in its VM shows only in its exit status and the mark it may leave.
- In RunnerShell a session whose VM goes may stay a while before its ssh notices. Who is
  allowed to connect is not modelled.
- In Listing the filter of a list is fixed but for the visibility of jobs, and a page is one
  statement, as in the code.

## 6. Not modelled, and what is left

The component list of PROJECT.json says of each part why. In short: parts without state of
their own (manifest validation, the legacy API, the loaders, rendering), what other
repositories do (webhook delivery, work queues), and one-off scripts. Worth adding next:

1. **Triggers** (`triggers.go` 83–247 and both manifest validators): in which cases a
   trigger that was accepted fires and is sent; an email trigger with only `cc` is not
   (triggers.go:137).
2. **Account deletion** (`api/account/middleware.go`): rows that vanish under a running build;
   it needs rows that come and go in RunBuild, JobGroup and BuildsApi.
3. **Log cache** (`buildsrht/blueprints/jobs.py`): pages that are cached before their log is
   complete.
4. **Several hosts** in Guest, and one module for RunBuild and Guest, to see that the commands
   of the former are implemented by the latter.
5. Proofs: that each of the exceptions in the properties is needed is shown by the runs only;
   the liveness properties under their fairness.
