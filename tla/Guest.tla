-------------------------------- MODULE Guest --------------------------------
(***************************************************************************)
(* What builds do on one worker host: the port each takes from the counter *)
(* in Redis, the VM the image control script boots behind it, the tasks of *)
(* the manifest with their rows and log directories, and the artifacts.    *)
(*                                                                         *)
(* RunBuild has these as commands that succeed or fail.  A deadline or a   *)
(* cancel request is one of the reasons why commands fail here.            *)
(***************************************************************************)
EXTENDS Naturals, FiniteSets

CONSTANTS
  Builds,       \* deliveries of run_build to this host
  Jobs,
  JobOf,
  NTasks,       \* the number of tasks of each job's manifest
  NArtifacts,   \* and of artifacts
  MaxArtifacts, \* no more than these are accepted (8)
  Docker,       \* jobs whose image runs in docker, the others' in a bare qemu
  Low,          \* the first and last port of the range (22000 and 23000), and
  High,         \* where the counter goes when it is below (22100)
  Fresh,
  Counters,     \* what the counter may be at first; 0 when there is none
  Workers,      \* concurrent builds of the worker process
  DbMayFail,
  MaxCrashes    \* bound on the crashes of the worker

ASSUME GuestConstants ==
  /\ JobOf \in [Builds -> Jobs]
  /\ NTasks \in [Jobs -> Nat]
  /\ NArtifacts \in [Jobs -> Nat]
  /\ MaxArtifacts \in Nat
  /\ Docker \subseteq Jobs
  /\ Low \in Nat /\ High \in Nat /\ Fresh \in Nat
  /\ Low <= Fresh /\ Fresh < High
  /\ Counters \subseteq Nat
  /\ Workers \in Nat \ {0}
  /\ DbMayFail \in BOOLEAN
  /\ MaxCrashes \in Nat

VARIABLES
  sshPort,  \* builds.sr.ht.ssh-port in Redis
  pc,       \* where each build is
  port,     \* ctx.Port
  vm,       \* the VM each build booted
  at,       \* the task of RunTasks it is at; then the artifact of UploadArtifacts
  marked,   \* the VMs, by build, that have a ~/.complete-build
  row,      \* the status column of the task table
  logDirs,  \* the tasks whose log directory exists
  objects,  \* artifacts in the bucket: the build and which of them
  listed,   \* rows of the artifact table, likewise
  crashes,
  started,  \* history: the builds and the tasks whose script they started
  finished, \* history: and those that exited with status 0
  respite,  \* history: how many ports are taken before that of a build comes round
  clashing, \* history: the builds whose port came round while it was in use
  harmed    \* history: the jobs for which a statement failed or a build was lost

ports     == <<sshPort, port, respite, clashing>>
tasks     == <<at, marked, row, logDirs, started, finished>>
artifacts == <<objects, listed>>
vars      == <<pc, ports, vm, tasks, artifacts, crashes, harmed>>

TaskStatuses == {"pending", "running", "success", "failed", "skipped"}

\* A build is at one of its tasks and has said that it is running.
AtTask == {"mkdir", "start", "script", "record", "fail"}
InProgress == {"wrap", "boot", "settle", "tasks", "mark", "skip", "measure", "put",
               "insert", "standby", "cleanup"} \cup AtTask
\* RunBuild has returned, with an outcome; the worker has died.
Phases == {"incr", "passed", "over", "lost"} \cup InProgress

\* The tasks of the manifests, each a row of the task table.
Tasks == UNION {{j} \X (1 .. NTasks[j]) : j \in Jobs}

Init ==
  /\ sshPort \in Counters
  /\ pc = [b \in Builds |-> "incr"]
  /\ port = [b \in Builds |-> 0]
  /\ vm = [b \in Builds |-> "none"]
  /\ at = [b \in Builds |-> 1]
  /\ marked = {}
  /\ row = [t \in Tasks |-> "pending"]
  /\ logDirs = {}
  /\ objects = {}
  /\ listed = {}
  /\ crashes = 0
  /\ started = {}
  /\ finished = {}
  /\ respite = [b \in Builds |-> 0]
  /\ clashing = {}
  /\ harmed = {}

Goto(b, p)    == pc' = [pc EXCEPT ![b] = p]
Step(b, p, q) == pc[b] = p /\ Goto(b, q)
Advance(b)    == at' = [at EXCEPT ![b] = @ + 1]

\* The task a build is at.
Task(b) == <<JobOf[b], at[b]>>

\* job.SetTaskStatus for the task a build is at, whoever else is at it; a
\* result that is ignored.
SetTaskStatus(b, s) ==
  \/ row' = [row EXCEPT ![Task(b)] = s] /\ UNCHANGED harmed
  \/ DbMayFail /\ harmed' = harmed \cup {JobOf[b]} /\ UNCHANGED row

-----------------------------------------------------------------------------
(* Boot.                                                                   *)

Active == {b \in Builds : pc[b] \in InProgress \cup {"passed"}}

\* A port is in use by its build, and by a VM that is left behind.
InUse(b) == b \in Active \/ vm[b] = "up"

\* The builds that still use port p although it has come round: after a whole
\* range of ports, or because the counter was set back under way.
StillOn(p) == {b \in Builds : InUse(b) /\ port[b] = p /\ respite[b] <= 1}

\* What becomes of the histories when a build takes port p.
NoteTaken(b, p) ==
  /\ respite' = [c \in Builds |-> IF c = b THEN High - Low
                                  ELSE IF respite[c] = 0 THEN 0 ELSE respite[c] - 1]
  /\ clashing' = IF StillOn(p) = {} THEN clashing ELSE clashing \cup StillOn(p) \cup {b}

\* Faulty variant: the counter is read, and written in a second request.
ReadCounter(b) ==
  /\ Cardinality(Active) < Workers
  /\ Step(b, "incr", "wrap")
  /\ port' = [port EXCEPT ![b] = sshPort + 1]
  /\ NoteTaken(b, sshPort + 1)
  /\ UNCHANGED <<sshPort, vm, tasks, artifacts, crashes, harmed>>

\* INCR; its answer is the port, also when it is out of the range.
TakePort(b) ==
  /\ Cardinality(Active) < Workers
  /\ Step(b, "incr", "wrap")
  /\ sshPort' = sshPort + 1
  /\ port' = [port EXCEPT ![b] = sshPort + 1]
  /\ NoteTaken(b, sshPort + 1)
  /\ UNCHANGED <<vm, tasks, artifacts, crashes, harmed>>

\* Another build has set the counter since this one found it out of the range.
Late(b) ==
  \/ port[b] < Low /\ sshPort >= Low
  \/ port[b] >= High /\ sshPort < High

\* SET, if need be; Redis may also fail to answer either request.  A late one
\* makes the ports taken since then come round at once.
SetBack(b) ==
  LET back == IF port[b] < Low THEN Fresh ELSE IF port[b] >= High THEN Low ELSE sshPort
  IN  /\ \/ Step(b, "wrap", "boot") /\ sshPort' = back
         \/ Step(b, "wrap", "over") /\ sshPort' \in {back, sshPort}
      /\ respite' = IF Late(b) /\ sshPort' # sshPort THEN [c \in Builds |-> 0] ELSE respite
      /\ UNCHANGED <<port, clashing, vm, tasks, artifacts, crashes, harmed>>

\* The builds whose VM has the port of b.
Behind(b) == {c \in Builds : vm[c] = "up" /\ port[c] = port[b]}

\* docker run wants a port and a name of its own, and the name is the job's.
DockerRefuses(b) ==
  /\ JobOf[b] \in Docker
  /\ \/ Behind(b) # {}
     \/ \E c \in Builds : vm[c] = "up" /\ JobOf[c] = JobOf[b]

\* The boot command.  A bare qemu is put in the background, and that it ends
\* because the port is taken goes unnoticed.  When the command fails or is
\* killed, there may be a VM all the same, and nobody to clean up.
Boot(b) ==
  /\ \/ /\ ~DockerRefuses(b)
        /\ Step(b, "boot", "settle")
        /\ vm' = [vm EXCEPT ![b] = IF Behind(b) = {} THEN "up" ELSE "none"]
     \/ /\ ~DockerRefuses(b) /\ Behind(b) = {}
        /\ Step(b, "boot", "over")
        /\ vm' = [vm EXCEPT ![b] = "up"]
     \/ Step(b, "boot", "over") /\ UNCHANGED vm
  /\ UNCHANGED <<ports, tasks, artifacts, crashes, harmed>>

\* Settle, and the tasks of RunBuild that set the guest up.
Settle(b) ==
  /\ \/ Behind(b) # {} /\ Step(b, "settle", "tasks")
     \/ Step(b, "settle", "cleanup")
  /\ UNCHANGED <<ports, vm, tasks, artifacts, crashes, harmed>>

-----------------------------------------------------------------------------
(* RunTasks.                                                               *)

\* Faulty variant: the loop runs once too often.
TasksOverLate(b) == at[b] > NTasks[JobOf[b]] + 1

TasksOver(b) == at[b] > NTasks[JobOf[b]]

\* The task is said to be running before anything is done for it.
BeginTask(b) ==
  /\ pc[b] = "tasks"
  /\ ~TasksOver(b)
  /\ \/ Goto(b, "mkdir") /\ row' = [row EXCEPT ![Task(b)] = "running"] /\ UNCHANGED harmed
     \/ DbMayFail /\ Goto(b, "fail") /\ harmed' = harmed \cup {JobOf[b]} /\ UNCHANGED row
  /\ UNCHANGED <<ports, vm, at, marked, logDirs, started, finished, artifacts, crashes>>

\* Faulty variant: MkdirAll, which does not mind that the directory exists.
MakeLogAnyway(b) ==
  /\ Step(b, "mkdir", "start")
  /\ logDirs' = logDirs \cup {Task(b)}
  /\ UNCHANGED <<ports, vm, at, marked, row, started, finished, artifacts, crashes, harmed>>

\* Mkdir, which fails if another delivery was there first, and the log file.
MakeLog(b) ==
  /\ \/ /\ Task(b) \notin logDirs
        /\ Step(b, "mkdir", "start")
        /\ logDirs' = logDirs \cup {Task(b)}
     \/ /\ Step(b, "mkdir", "fail")
        /\ logDirs' \in {logDirs, logDirs \cup {Task(b)}}
  /\ UNCHANGED <<ports, vm, at, marked, row, started, finished, artifacts, crashes, harmed>>

StartScript(b) ==
  /\ \/ /\ Behind(b) # {}
        /\ Step(b, "start", "script")
        /\ started' = started \cup {<<b, at[b]>>}
     \/ Step(b, "start", "fail") /\ UNCHANGED started
  /\ UNCHANGED <<ports, vm, at, marked, row, logDirs, finished, artifacts, crashes, harmed>>

\* A script may call complete-build, and succeed or not.
ScriptEnds(b) ==
  /\ marked' \in {marked, marked \cup Behind(b)}
  /\ \/ /\ Step(b, "script", "record")
        /\ finished' = finished \cup {<<b, at[b]>>}
     \/ Step(b, "script", "fail") /\ UNCHANGED finished
  /\ UNCHANGED <<ports, vm, at, row, logDirs, started, artifacts, crashes, harmed>>

RecordTask(b) ==
  /\ Step(b, "record", "mark")
  /\ SetTaskStatus(b, "success")
  /\ UNCHANGED <<ports, vm, at, marked, logDirs, started, finished, artifacts, crashes>>

\* Faulty variant: the task that left the mark is skipped as well.
CheckMarkHere(b) ==
  /\ \/ marked \cap Behind(b) # {} /\ Step(b, "mark", "skip") /\ UNCHANGED at
     \/ Step(b, "mark", "tasks") /\ Advance(b)
  /\ UNCHANGED <<ports, vm, marked, row, logDirs, started, finished, artifacts, crashes, harmed>>

\* isMarkedAsCompleted: no mark and one that cannot be read are the same.
CheckMark(b) ==
  /\ \/ marked \cap Behind(b) # {} /\ Step(b, "mark", "skip")
     \/ Step(b, "mark", "tasks")
  /\ Advance(b)
  /\ UNCHANGED <<ports, vm, marked, row, logDirs, started, finished, artifacts, crashes, harmed>>

SkipTask(b) ==
  /\ ~TasksOver(b)
  /\ Step(b, "skip", "skip")
  /\ SetTaskStatus(b, "skipped")
  /\ Advance(b)
  /\ UNCHANGED <<ports, vm, marked, logDirs, started, finished, artifacts, crashes>>

\* Faulty variant: a task that fails is left as it is.
FailSilently(b) ==
  /\ Step(b, "fail", "standby")
  /\ UNCHANGED <<ports, vm, tasks, artifacts, crashes, harmed>>

\* Faulty variant: the loop goes on after a task that failed.
FailAndGoOn(b) ==
  /\ Step(b, "fail", "tasks")
  /\ SetTaskStatus(b, "failed")
  /\ Advance(b)
  /\ UNCHANGED <<ports, vm, marked, logDirs, started, finished, artifacts, crashes>>

FailTask(b) ==
  /\ Step(b, "fail", "standby")
  /\ SetTaskStatus(b, "failed")
  /\ UNCHANGED <<ports, vm, at, marked, logDirs, started, finished, artifacts, crashes>>

-----------------------------------------------------------------------------
(* UploadArtifacts, and the end of the build.                              *)

Wanted(b) == NArtifacts[JobOf[b]]

\* With too many artifacts none is uploaded, and the build passes.
Accepted(b) == IF Wanted(b) <= MaxArtifacts THEN 1 .. Wanted(b) ELSE {}

\* All tasks are over; S3 may not be configured or not answer.
BeginUpload(b) ==
  /\ pc[b] \in {"tasks", "skip"}
  /\ TasksOver(b)
  /\ \/ Goto(b, IF Accepted(b) = {} THEN "passed" ELSE "measure")
     \/ Accepted(b) # {} /\ Goto(b, "standby")
  /\ at' = [at EXCEPT ![b] = 1]
  /\ UNCHANGED <<ports, vm, marked, row, logDirs, started, finished, artifacts, crashes, harmed>>

\* FileSize, with "File not found" and the limit of 1 GiB.
Measure(b) ==
  /\ \/ Behind(b) # {} /\ Step(b, "measure", "put")
     \/ Step(b, "measure", "standby")
  /\ UNCHANGED <<ports, vm, tasks, artifacts, crashes, harmed>>

\* Faulty variant: an error of PutObject is only logged.
PutAnyway(b) ==
  /\ Step(b, "put", "insert")
  /\ objects' \in {objects, objects \cup {<<b, at[b]>>}}
  /\ UNCHANGED <<ports, vm, tasks, listed, crashes, harmed>>

\* Download, PutObject and Wait; the object may be there when Wait fails.
Put(b) ==
  /\ \/ Step(b, "put", "insert") /\ objects' = objects \cup {<<b, at[b]>>}
     \/ Step(b, "put", "standby") /\ objects' \in {objects, objects \cup {<<b, at[b]>>}}
  /\ UNCHANGED <<ports, vm, tasks, listed, crashes, harmed>>

InsertArtifact(b) ==
  /\ \/ /\ Step(b, "insert", IF at[b] = Wanted(b) THEN "passed" ELSE "measure")
        /\ listed' = listed \cup {<<b, at[b]>>}
        /\ Advance(b)
     \/ DbMayFail /\ Step(b, "insert", "standby") /\ UNCHANGED <<listed, at>>
  /\ UNCHANGED <<ports, vm, marked, row, logDirs, started, finished, objects, crashes, harmed>>

\* What RunBuild does between the tasks and the cleanup of the VM.
Finish(b) ==
  /\ pc[b] \in {"passed", "standby"}
  /\ Goto(b, "cleanup")
  /\ UNCHANGED <<ports, vm, tasks, artifacts, crashes, harmed>>

\* cleanup <port>: power off whoever answers there, or kill the VM whose id was
\* left for the port; neither may work.
Cleanup(b) ==
  /\ Step(b, "cleanup", "over")
  /\ \E v \in {"up", "down"} : vm' = [c \in Builds |-> IF c \in Behind(b) THEN v ELSE vm[c]]
  /\ UNCHANGED <<ports, tasks, artifacts, crashes, harmed>>

\* The worker dies; VMs, a half-booted one too, stay.
Crash ==
  /\ crashes < MaxCrashes
  /\ crashes' = crashes + 1
  /\ pc' = [b \in Builds |-> IF b \in Active THEN "lost" ELSE pc[b]]
  /\ harmed' = harmed \cup {JobOf[b] : b \in Active}
  /\ UNCHANGED <<ports, vm, tasks, artifacts>>

-----------------------------------------------------------------------------

Next ==
  \/ \E b \in Builds :
       \/ TakePort(b) \/ SetBack(b) \/ Boot(b) \/ Settle(b)
       \/ BeginTask(b) \/ MakeLog(b) \/ StartScript(b) \/ ScriptEnds(b) \/ RecordTask(b)
       \/ CheckMark(b) \/ SkipTask(b) \/ FailTask(b)
       \/ BeginUpload(b) \/ Measure(b) \/ Put(b) \/ InsertArtifact(b) \/ Finish(b) \/ Cleanup(b)
  \/ Crash

Spec == Init /\ [][Next]_vars

-----------------------------------------------------------------------------
(* Properties.                                                             *)

TypeOK ==
  /\ sshPort \in Nat
  /\ pc \in [Builds -> Phases]
  /\ port \in [Builds -> Nat]
  /\ vm \in [Builds -> {"none", "up", "down"}]
  /\ at \in [Builds -> Nat \ {0}]
  /\ \A b \in Builds : pc[b] \in AtTask => Task(b) \in Tasks
  /\ marked \in SUBSET Builds
  /\ row \in [Tasks -> TaskStatuses]
  /\ logDirs \in SUBSET Tasks
  /\ objects \in SUBSET (Builds \X Nat)
  /\ listed \in SUBSET (Builds \X Nat)
  /\ crashes \in 0 .. MaxCrashes
  /\ started \in SUBSET (Builds \X Nat)
  /\ finished \in SUBSET (Builds \X Nat)
  /\ respite \in [Builds -> Nat]
  /\ clashing \in SUBSET Builds
  /\ harmed \in SUBSET Jobs

\* The port of a build came round while it, or a VM that is left behind, was in
\* use, and one of those who have it is a bare qemu, which cannot refuse it.
Exposed(b) ==
  b \in clashing /\ \E c \in clashing : port[c] = port[b] /\ JobOf[c] \notin Docker

\* From its boot to its cleanup a build has a VM of its own, and no other, behind
\* its port: it never runs its tasks in the VM of another build or in one that
\* was left behind.  With a bare qemu it may, once a port has come round, after a
\* whole range of ports or a late SET, while whoever had it still uses it or has
\* left a VM there; builds in docker keep apart even then.
OwnGuest ==
  \A b \in Builds :
    pc[b] \in InProgress \ {"wrap", "boot"} /\ ~Exposed(b) => Behind(b) = {b}

\* The script of a task is started by one delivery of its job at most: it needs
\* a log directory that did not exist.
StartsOnce ==
  \A s, t \in started : JobOf[s[1]] = JobOf[t[1]] /\ s[2] = t[2] => s = t

\* A task whose row says "running" is being worked on by some delivery, even if
\* others write the row as well, unless a statement failed or the worker died.
RunningIsAtTask ==
  \A t \in Tasks : t[1] \notin harmed /\ row[t] = "running" =>
    \E b \in Builds : Task(b) = t /\ pc[b] \in AtTask

\* What the rows of the tasks say is what happened: a successful one has exited
\* with status 0, one that is pending or skipped was never started, and when a
\* build passes each is successful or skipped.  With two deliveries, the one
\* that comes second to the first task still puts "failed" over its row.
TaskRowsTell ==
  \A t \in Tasks : t[1] \notin harmed =>
    LET by == {b \in Builds : JobOf[b] = t[1]}
    IN  /\ row[t] = "success" => \E b \in by : <<b, t[2]>> \in finished
        /\ row[t] \in {"pending", "skipped"} => \A b \in by : <<b, t[2]>> \notin started
        /\ t[2] > 1 \/ (\E b \in by : by = {b}) =>
             \A b \in by : pc[b] = "passed" => row[t] \in {"success", "skipped"}

\* Every artifact that is listed can be downloaded, and a build passes only with
\* all of those its manifest asks for, or with too many of them.
ArtifactsHold ==
  /\ listed \subseteq objects
  /\ \A b \in Builds : pc[b] = "passed" => {b} \X Accepted(b) \subseteq listed
=============================================================================
