------------------------------ MODULE RunBuild ------------------------------
(***************************************************************************)
(* One build worker process: the RunBuild goroutines the Celery client     *)
(* starts, the jobs map they share with the HTTP handlers, the build VMs   *)
(* and the job rows of the database.                                       *)
(*                                                                         *)
(* A run is one delivery of a run_build message.  Nothing in the code      *)
(* keeps a job from being queued twice, so several runs may have the same  *)
(* job.  The phases of a run are the points of RunBuild and of its         *)
(* deferred function between which other goroutines can be scheduled.      *)
(***************************************************************************)
EXTENDS Naturals, Sequences, FiniteSets

CONSTANTS
  Jobs,          \* job ids
  Runs,          \* deliveries of run_build
  JobOf,         \* the job each run was queued for
  NoRun,         \* no entry in the jobs map, no handler in its critical section
  Shell,         \* jobs whose manifest asks for shell access
  Triggering,    \* jobs whose manifest declares triggers
  Grouped,       \* jobs in a job group that has triggers
  Panicking,     \* jobs one of whose triggers may panic while it is processed
  Workers,       \* concurrent builds of the worker process
  NTasks,        \* length of the list of tasks of RunBuild
  CommandTasks,  \* those that run a command for each of the manifests considered
  DbMayFail,     \* may a database statement fail?
  MaxCrashes     \* bound on the crashes of the process

ASSUME ConstantsOK ==
  /\ JobOf \in [Runs -> Jobs]
  /\ NoRun \notin Runs
  /\ Shell \subseteq Jobs
  /\ Triggering \subseteq Jobs
  /\ Grouped \subseteq Jobs
  /\ Panicking \subseteq Triggering \cup Grouped
  /\ Workers \in Nat \ {0}
  /\ NTasks \in Nat \ {0}
  /\ CommandTasks \subseteq 1 .. NTasks
  /\ DbMayFail \in BOOLEAN
  /\ MaxCrashes \in Nat

VARIABLES
  pc,         \* the phase of each run
  err,        \* ctx.Context.Err() of its JobContext
  jobStatus,  \* ctx.Job.Status, the status in memory
  logged,     \* ctx.Log # nil
  task,       \* the next of the tasks, from 1
  settled,    \* ctx.Settled
  claimed,    \* ctx.Claimed
  processed,  \* ctx.ProcessedTriggers
  announced,  \* the job status its manifest triggers reported, in order
  verdict,    \* the outcome a run has decided to record
  vm,         \* the build VM of each run
  jobs,       \* the map from job ids to the contexts of running builds
  handler,    \* the run a cancel handler holds the mutex for
  status,     \* the status column of each job
  crashes     \* how many times the process has crashed

progress == <<logged, task, settled>>
triggers == <<processed, announced>>
requests == <<err, claimed>>
rows     == <<status, jobStatus>>
shared   == <<jobs, handler, crashes>>
vars     == <<pc, requests, progress, triggers, verdict, rows, vm, shared>>

-----------------------------------------------------------------------------
(* Phases and statuses.                                                    *)

Failures == {"failed", "timeout", "cancelled"}
Final    == Failures \cup {"success"}
Statuses == Final \cup {"pending", "queued", "running"}

\* The build may still run commands, and a cancel request must find it.
Building == {"setup", "boot", "booting", "settle", "settling",
             "tasks", "exec", "shell", "delete"}
\* The rest of the success path, and the deferred function after a panic.
Succeeding == {"succeed", "notify"}
Recovering == {"recover", "record", "notifyFailure", "standby", "claimed"}
InProgress == {"start", "insert", "cleanup"} \cup Building
                 \cup Succeeding \cup Recovering
\* RunBuild returned; its panic escaped; it died with the process.
Ended  == {"done", "escaped", "lost"}
Phases == {"queued"} \cup InProgress \cup Ended

\* A job whose message was delivered at most once.
Sole(r) == \A q \in Runs : JobOf[q] = JobOf[r] => q = r

Init ==
  /\ pc = [r \in Runs |-> "queued"]
  /\ err = [r \in Runs |-> "nil"]
  /\ jobStatus = [r \in Runs |-> "queued"]
  /\ logged = [r \in Runs |-> FALSE]
  /\ task = [r \in Runs |-> 1]
  /\ settled = [r \in Runs |-> FALSE]
  /\ claimed = [r \in Runs |-> FALSE]
  /\ processed = [r \in Runs |-> FALSE]
  /\ announced = [r \in Runs |-> <<>>]
  /\ verdict = [r \in Runs |-> "running"]
  /\ vm = [r \in Runs |-> "none"]
  /\ jobs = [j \in Jobs |-> NoRun]
  /\ handler = NoRun
  /\ status \in [Jobs -> {"pending", "queued"}]
  /\ crashes = 0

-----------------------------------------------------------------------------
(* Helpers.                                                                *)

Goto(r, p) == pc' = [pc EXCEPT ![r] = p]

\* A run leaves phase p for phase q.
Step(r, p, q) == pc[r] = p /\ Goto(r, q)

\* Any panic of the body of RunBuild ends in its deferred function.
Panic(r, p) == Step(r, p, "recover")

Alive(r) == err[r] = "nil"

\* CancelFunc: a context keeps the first reason it ended for.
CancelContext(r) == err' = [err EXCEPT ![r] = IF @ = "nil" THEN "canceled" ELSE @]

\* job.SetStatus with its error ignored: the row and the copy in memory
\* change together or, when the statement fails, not at all.
SetStatus(r, s) ==
  \/ /\ status' = [status EXCEPT ![JobOf[r]] = s]
     /\ jobStatus' = [jobStatus EXCEPT ![r] = s]
  \/ DbMayFail /\ UNCHANGED rows

-----------------------------------------------------------------------------
(* From the queue to the jobs map.                                         *)

\* A free worker goroutine takes the message off the queue, which forgets it.
Deliver(r) ==
  /\ Cardinality({q \in Runs : pc[q] \in InProgress}) < Workers
  /\ Step(r, "queued", "start")
  /\ UNCHANGED <<requests, progress, triggers, verdict, rows, vm, shared>>

\* GetJob, SetRunner and SetStatus("running"), whatever the status was.
Start(r) ==
  /\ Step(r, "start", "insert")
  /\ status' = [status EXCEPT ![JobOf[r]] = "running"]
  /\ jobStatus' = [jobStatus EXCEPT ![r] = "running"]
  /\ UNCHANGED <<requests, progress, triggers, verdict, vm, shared>>

\* One of the three fails: the panic comes before the deferred function that
\* would recover it.  SetStatus may fail after it has changed the status.
StartFails(r) ==
  /\ DbMayFail
  /\ Step(r, "start", "escaped")
  /\ status' \in {status, [status EXCEPT ![JobOf[r]] = "running"]}
  /\ UNCHANGED <<requests, progress, triggers, verdict, jobStatus, vm, shared>>

\* jobs[job_id] = ctx under the mutex, over any entry an earlier run left.
Insert(r) ==
  /\ handler = NoRun
  /\ Step(r, "insert", "setup")
  /\ jobs' = [jobs EXCEPT ![JobOf[r]] = r]
  /\ UNCHANGED <<requests, progress, triggers, verdict, rows, vm, handler, crashes>>

\* The image configuration, the log directory and the log file.
Setup(r) ==
  /\ \/ /\ Step(r, "setup", "boot")
        /\ logged' = [logged EXCEPT ![r] = TRUE]
     \/ Panic(r, "setup") /\ UNCHANGED logged
  /\ UNCHANGED <<requests, task, settled, triggers, verdict, rows, vm, shared>>

-----------------------------------------------------------------------------
(* Commands of the build: none is started once the context has ended; one  *)
(* that is running is killed then, unless it has just finished.            *)

Boot(r) ==
  /\ IF Alive(r) THEN Step(r, "boot", "booting") ELSE Panic(r, "boot")
  /\ UNCHANGED <<requests, progress, triggers, verdict, rows, vm, shared>>

\* The cleanup function exists only when the boot command succeeded; one that
\* fails or is killed may have left a VM nobody will stop.
Booted(r) ==
  /\ \/ Step(r, "booting", "settle") /\ vm' = [vm EXCEPT ![r] = "up"]
     \/ Panic(r, "booting") /\ \E v \in {"none", "orphan"} : vm' = [vm EXCEPT ![r] = v]
  /\ UNCHANGED <<requests, progress, triggers, verdict, rows, shared>>

Settle(r) ==
  /\ IF Alive(r) THEN Step(r, "settle", "settling") ELSE Panic(r, "settle")
  /\ UNCHANGED <<requests, progress, triggers, verdict, rows, vm, shared>>

Settled(r) ==
  /\ \/ /\ Step(r, "settling", "tasks")
        /\ settled' = [settled EXCEPT ![r] = TRUE]
     \/ Panic(r, "settling") /\ UNCHANGED settled
  /\ UNCHANGED <<requests, logged, task, triggers, verdict, rows, vm, shared>>

\* Faulty variant: the counter is moved on by the loop and by the task.
SkipTask(r) == task' = [task EXCEPT ![r] = @ + 2]

NextTask(r) == task' = [task EXCEPT ![r] = @ + 1]

\* Faulty variant: commands are started without regard for the context.
BeginDetached(r) ==
  /\ pc[r] = "tasks"
  /\ task[r] <= NTasks
  /\ \/ task[r] \notin CommandTasks /\ NextTask(r) /\ UNCHANGED pc
     \/ Goto(r, "exec") /\ UNCHANGED task
  /\ UNCHANGED <<requests, logged, settled, triggers, verdict, rows, vm, shared>>

\* A task that needs no command for this manifest is passed over.
BeginTask(r) ==
  /\ pc[r] = "tasks"
  /\ task[r] <= NTasks
  /\ \/ task[r] \notin CommandTasks /\ NextTask(r) /\ UNCHANGED pc
     \/ Goto(r, IF Alive(r) THEN "exec" ELSE "recover") /\ UNCHANGED task
  /\ UNCHANGED <<requests, logged, settled, triggers, verdict, rows, vm, shared>>

EndTask(r) ==
  /\ \/ Step(r, "exec", "tasks") /\ NextTask(r)
     \/ Panic(r, "exec") /\ UNCHANGED task
  /\ UNCHANGED <<requests, logged, settled, triggers, verdict, rows, vm, shared>>

\* Faulty variant: the entry is deleted before the wait for the shell.
DeleteBeforeShell(r) ==
  /\ task[r] = NTasks + 1
  /\ Step(r, "tasks", IF JobOf[r] \in Shell THEN "shell" ELSE "delete")
  /\ jobs' = [jobs EXCEPT ![JobOf[r]] = NoRun]
  /\ UNCHANGED <<requests, progress, triggers, verdict, rows, vm, handler, crashes>>

AllTasksDone(r) ==
  /\ task[r] = NTasks + 1
  /\ Step(r, "tasks", IF JobOf[r] \in Shell THEN "shell" ELSE "delete")
  /\ UNCHANGED <<requests, progress, triggers, verdict, rows, vm, shared>>

\* Faulty variant: the shell is kept until somebody cancels.
ShellOutlivesDeadline(r) ==
  /\ err[r] = "canceled"
  /\ Step(r, "shell", "delete")
  /\ UNCHANGED <<requests, progress, triggers, verdict, rows, vm, shared>>

\* <-goctx.Done(): until the deadline, or until somebody cancels.
ShellEnds(r) ==
  /\ ~Alive(r)
  /\ Step(r, "shell", "delete")
  /\ UNCHANGED <<requests, progress, triggers, verdict, rows, vm, shared>>

-----------------------------------------------------------------------------
(* The success path.                                                       *)

\* Faulty variant: the mutex is not taken.
DeleteUnlocked(r) ==
  /\ Step(r, "delete", "succeed")
  /\ jobs' = [jobs EXCEPT ![JobOf[r]] = NoRun]
  /\ verdict' = [verdict EXCEPT ![r] = "success"]
  /\ UNCHANGED <<requests, progress, triggers, rows, vm, handler, crashes>>

\* delete(jobs, job_id) under the mutex, whoever's entry it is.
Delete(r) ==
  /\ handler = NoRun
  /\ Step(r, "delete", "succeed")
  /\ jobs' = [jobs EXCEPT ![JobOf[r]] = NoRun]
  /\ verdict' = [verdict EXCEPT ![r] = "success"]
  /\ UNCHANGED <<requests, progress, triggers, rows, vm, handler, crashes>>

\* cancel() and SetStatus("success").
Succeed(r) ==
  /\ Step(r, "succeed", "notify")
  /\ CancelContext(r)
  /\ SetStatus(r, "success")
  /\ UNCHANGED <<claimed, progress, triggers, verdict, vm, shared>>

Announce(r) == announced' = [announced EXCEPT ![r] = Append(@, jobStatus[r])]

\* Faulty variant: there is no debounce.
ProcessAgain(r) ==
  IF JobOf[r] \in Triggering
  THEN logged[r] /\ processed' = [processed EXCEPT ![r] = TRUE] /\ Announce(r)
  ELSE UNCHANGED triggers

\* ProcessTriggers: debounced, and a manifest without triggers has nothing to
\* do.  The status reported is the one in memory.
ProcessTriggers(r) ==
  IF JobOf[r] \in Triggering /\ ~processed[r]
  THEN logged[r] /\ processed' = [processed EXCEPT ![r] = TRUE] /\ Announce(r)
  ELSE UNCHANGED triggers

\* The group's triggers come first, before the debounce flag is set; one of
\* the manifest's may panic after others were sent.  Either kind panics on its
\* first use of the log when Setup failed before there was one.
TriggersPanic(r) ==
  /\ JobOf[r] \in Panicking \/ ~logged[r]
  /\ \/ JobOf[r] \in Grouped /\ UNCHANGED triggers
     \/ /\ JobOf[r] \in Triggering
        /\ ~processed[r]
        /\ processed' = [processed EXCEPT ![r] = TRUE]
        /\ UNCHANGED announced \/ (logged[r] /\ Announce(r))

Notify(r) ==
  /\ \/ Step(r, "notify", "cleanup") /\ ProcessTriggers(r)
     \/ Panic(r, "notify") /\ TriggersPanic(r)
  /\ UNCHANGED <<requests, progress, verdict, rows, vm, shared>>

-----------------------------------------------------------------------------
(* The deferred function.                                                  *)

\* Faulty variant: any panic is a failure.
RecoverBlindly(r) ==
  /\ Step(r, "recover", "record")
  /\ verdict' = [verdict EXCEPT ![r] = "failed"]
  /\ UNCHANGED <<requests, progress, triggers, rows, vm, shared>>

\* The outcome of a panic is read off the context...
Recover(r) ==
  /\ Step(r, "recover", "record")
  /\ verdict' = [verdict EXCEPT ![r] = CASE err[r] = "deadline" -> "timeout"
                                         [] err[r] = "canceled" -> "cancelled"
                                         [] OTHER -> "failed"]
  /\ UNCHANGED <<requests, progress, triggers, rows, vm, shared>>

\* Faulty variant: the outcome of a failure is not written.
RecordNothing(r) ==
  /\ Step(r, "record", "notifyFailure")
  /\ UNCHANGED <<requests, progress, triggers, verdict, rows, vm, shared>>

\* ...and recorded; a cancel request may come in between.
Record(r) ==
  /\ Step(r, "record", "notifyFailure")
  /\ SetStatus(r, verdict[r])
  /\ UNCHANGED <<requests, progress, triggers, verdict, vm, shared>>

\* Faulty variant: triggers are for successes only.
NotifyNobody(r) ==
  /\ Step(r, "notifyFailure", IF settled[r] THEN "standby" ELSE "cleanup")
  /\ UNCHANGED <<requests, progress, triggers, verdict, rows, vm, shared>>

\* Nothing recovers a panic of the deferred function, and the VM stays up.  The
\* process ends with it, but nothing here makes a Crash come at once.
NotifyFailure(r) ==
  /\ \/ /\ Step(r, "notifyFailure", IF settled[r] THEN "standby" ELSE "cleanup")
        /\ ProcessTriggers(r)
     \/ Step(r, "notifyFailure", "escaped") /\ TriggersPanic(r)
  /\ UNCHANGED <<requests, progress, verdict, rows, vm, shared>>

\* Faulty variant: a VM nobody claims is forgotten.
StandbyReturns(r) ==
  /\ Step(r, "standby", IF claimed[r] /\ Alive(r) THEN "claimed" ELSE "done")
  /\ UNCHANGED <<requests, progress, triggers, verdict, rows, vm, shared>>

\* Standby: ten minutes, cut short when the context ends.  Claimed is read
\* once, without the mutex.
Standby(r) ==
  /\ Step(r, "standby", IF claimed[r] /\ Alive(r) THEN "claimed" ELSE "cleanup")
  /\ UNCHANGED <<requests, progress, triggers, verdict, rows, vm, shared>>

\* A claimed VM is kept until the deadline.
ClaimEnds(r) ==
  /\ ~Alive(r)
  /\ Step(r, "claimed", "cleanup")
  /\ UNCHANGED <<requests, progress, triggers, verdict, rows, vm, shared>>

\* The cleanup command of the image; when it fails, nobody tries again.
Cleanup(r) ==
  /\ Step(r, "cleanup", "done")
  /\ \E v \in {"down", "orphan"} : vm' = [vm EXCEPT ![r] = IF @ = "up" THEN v ELSE @]
  /\ UNCHANGED <<requests, progress, triggers, verdict, rows, shared>>

-----------------------------------------------------------------------------
(* The environment: the deadline, the HTTP handlers and the process.       *)

Deadline(r) ==
  /\ pc[r] \in InProgress \ {"start"}
  /\ Alive(r)
  /\ err' = [err EXCEPT ![r] = "deadline"]
  /\ UNCHANGED <<pc, claimed, progress, triggers, verdict, rows, vm, shared>>

\* /job/N/cancel: under the mutex, cancel the context...
HttpCancel(j) ==
  /\ handler = NoRun
  /\ jobs[j] # NoRun
  /\ handler' = jobs[j]
  /\ CancelContext(jobs[j])
  /\ UNCHANGED <<pc, claimed, progress, triggers, verdict, rows, vm, jobs, crashes>>

\* Faulty variant: the mutex is not released.
HttpCancelKeepsLock ==
  /\ handler # NoRun
  /\ SetStatus(handler, "cancelled")
  /\ UNCHANGED <<pc, requests, progress, triggers, verdict, vm, shared>>

\* ...and then write the status, while the build goroutine goes on.
HttpCancelWrites ==
  /\ handler # NoRun
  /\ SetStatus(handler, "cancelled")
  /\ handler' = NoRun
  /\ UNCHANGED <<pc, requests, progress, triggers, verdict, vm, jobs, crashes>>

\* /job/N/terminate: runner-shell's last session has logged out.
HttpTerminate(j) ==
  /\ handler = NoRun
  /\ jobs[j] # NoRun
  /\ CancelContext(jobs[j])
  /\ UNCHANGED <<pc, claimed, progress, triggers, verdict, rows, vm, shared>>

\* /job/N/claim
HttpClaim(j) ==
  /\ handler = NoRun
  /\ jobs[j] # NoRun
  /\ claimed' = [claimed EXCEPT ![jobs[j]] = TRUE]
  /\ UNCHANGED <<pc, err, progress, triggers, verdict, rows, vm, shared>>

\* The process dies and is started again: killed, a panic nothing recovers,
\* or the runtime's abort when /job/N/info reads the map during a write.
\* Messages not yet taken stay in the queue; VMs and rows stay as they are.
Crash ==
  /\ crashes < MaxCrashes
  /\ crashes' = crashes + 1
  /\ pc' = [r \in Runs |-> IF pc[r] \in InProgress THEN "lost" ELSE pc[r]]
  /\ \E left \in SUBSET {r \in Runs : pc[r] = "booting"} :
        vm' = [r \in Runs |-> IF r \in left THEN "orphan" ELSE vm[r]]
  /\ jobs' = [j \in Jobs |-> NoRun]
  /\ handler' = NoRun
  /\ UNCHANGED <<requests, progress, triggers, verdict, rows>>

-----------------------------------------------------------------------------

\* What the goroutine of a run does without waiting for anybody's lock.
Proceed(r) ==
  \/ Start(r) \/ StartFails(r) \/ Setup(r) \/ Boot(r) \/ Booted(r)
  \/ Settle(r) \/ Settled(r) \/ BeginTask(r) \/ EndTask(r) \/ AllTasksDone(r)
  \/ ShellEnds(r) \/ Succeed(r) \/ Notify(r) \/ Recover(r) \/ Record(r)
  \/ NotifyFailure(r) \/ Standby(r) \/ ClaimEnds(r) \/ Cleanup(r)

Next ==
  \/ \E r \in Runs : Deliver(r) \/ Proceed(r) \/ Insert(r) \/ Delete(r) \/ Deadline(r)
  \/ \E j \in Jobs : HttpCancel(j) \/ HttpTerminate(j) \/ HttpClaim(j)
  \/ HttpCancelWrites
  \/ Crash

Spec == Init /\ [][Next]_vars

\* Goroutines are scheduled, the deadline timer fires and kills the commands of
\* a build (exec.CommandContext), Redis, the database, the object store and the
\* mail server answer or fail, and sync.Mutex starves no waiter however many
\* requests come.  No request need ever come, and the cleanup command need
\* never end: it is run without a deadline, and logs in to the guest first.
Fairness ==
  /\ \A r \in Runs : /\ WF_vars(Deliver(r)) /\ WF_vars(pc[r] # "cleanup" /\ Proceed(r))
                     /\ WF_vars(Deadline(r))
                     /\ SF_vars(Insert(r)) /\ SF_vars(Delete(r))
  /\ WF_vars(HttpCancelWrites)

FairSpec == Spec /\ Fairness

-----------------------------------------------------------------------------
(* Properties.                                                             *)

TypeOK ==
  /\ pc \in [Runs -> Phases]
  /\ err \in [Runs -> {"nil", "canceled", "deadline"}]
  /\ jobStatus \in [Runs -> Statuses]
  /\ task \in [Runs -> 1 .. NTasks + 1]
  /\ logged \in [Runs -> BOOLEAN]
  /\ settled \in [Runs -> BOOLEAN]
  /\ claimed \in [Runs -> BOOLEAN]
  /\ processed \in [Runs -> BOOLEAN]
  /\ verdict \in [Runs -> Final \cup {"running"}]
  /\ announced \in [Runs -> Seq(Statuses)]
  /\ vm \in [Runs -> {"none", "up", "down", "orphan"}]
  /\ jobs \in [Jobs -> Runs \cup {NoRun}]
  /\ handler \in Runs \cup {NoRun}
  /\ status \in [Jobs -> Statuses]
  /\ crashes \in 0 .. MaxCrashes

\* A build that can still run commands is the one cancel, claim and info find
\* under its job id, provided the job was delivered once (http.go reaches a
\* build only through the map that RunBuild fills and empties).
BuildIsReachable ==
  \A r \in Runs : pc[r] \in Building /\ Sole(r) => jobs[JobOf[r]] = r

\* Once a run is on its way to recording a success, no handler has its context
\* in hand or can look it up: a cancel request is either all over before the
\* entry is deleted or gets a 404.
NoCancelAfterDelete ==
  \A r \in Runs : verdict[r] = "success" => handler # r /\ jobs[JobOf[r]] # r

\* What a manifest trigger reports of a success is what the job's row says,
\* from then on, unless a trigger of that very job panics: the status a
\* cancel request wrote before is overwritten, and none can follow.
SuccessReportedIsRecorded ==
  \A r \in Runs :
    /\ Sole(r)
    /\ JobOf[r] \notin Panicking
    /\ \E i \in 1 .. Len(announced[r]) : announced[r][i] = "success"
    => status[JobOf[r]] = "success"

\* The triggers of a manifest are processed once, although a panic in them
\* makes the deferred function process them again; a run that ends in order
\* has processed them.
TriggersOnce ==
  \A r \in Runs :
    /\ Len(announced[r]) <= 1
    /\ pc[r] = "done" /\ JobOf[r] \in Triggering \ Panicking => Len(announced[r]) = 1

\* A VM that outlives its run, and that nobody has even tried to stop, belongs
\* to a panicking trigger, to a crash of the worker or to a boot command that
\* did not finish.
NoVmLeak ==
  \A r \in Runs : vm[r] = "up" =>
    \/ pc[r] \in InProgress \cup {"lost"}
    \/ pc[r] = "escaped" /\ JobOf[r] \in Panicking

\* A success is recorded only over a run whose every task was done; a failure
\* never replaces it, save where one of the job's own triggers panics.
SuccessSticks ==
  [][\A r \in Runs :
       Sole(r) /\ status[JobOf[r]] = "success" /\ status'[JobOf[r]] # "success"
         => pc[r] = "record" /\ JobOf[r] \in Panicking]_vars

\* A cancel request accepted while a task that needs the guest is still to be
\* started is not reported as a success: the build goes to its deferred
\* function, or dies, but never deletes its entry.
CancelBeatsSuccess ==
  \A r \in Runs :
    [](pc[r] = "tasks" /\ ~Alive(r) /\ (\E t \in CommandTasks : t >= task[r])
         => [](pc[r] # "delete"))

\* Every message is delivered and every build comes to its end, or at least to
\* the cleanup of its VM, unless the cleanup commands of other builds hold all
\* the worker's goroutines for ever: no build waits for a shell, for a claimed
\* VM, for a trigger or for the mutex for ever, and so none keeps others out.
EveryRunEnds ==
  LET stuck == Cardinality({r \in Runs : pc[r] = "cleanup"}) = Workers
  IN  \A r \in Runs : <>[](pc[r] \in Ended \cup {"cleanup"} \/ stuck)

\* A job whose row says "running" is being built, as long as the worker lives
\* and the database answers, even if it was delivered twice: whichever way a
\* build ends, its outcome is in the row before it is over.
RunningIsInProgress ==
  ~DbMayFail /\ crashes = 0 =>
    \A j \in Jobs : status[j] = "running" =>
      \E r \in Runs : JobOf[r] = j /\ pc[r] \in InProgress

\* Once a build is cancelled or out of time, its VM is stopped, or at least its
\* cleanup command is started; whether that ever ends is up to the guest.
CancelFreesVm ==
  \A r \in Runs : ~Alive(r) /\ vm[r] = "up" ~>
    vm[r] # "up" \/ pc[r] \in {"cleanup", "escaped", "lost"}
=============================================================================
