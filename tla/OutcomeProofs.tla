--------------------------- MODULE OutcomeProofs ----------------------------
(***************************************************************************)
(* Proofs about how the builds of RunBuild end: what they leave behind,    *)
(* what their triggers report, and what a cancel request makes of them.    *)
(***************************************************************************)
EXTENDS RunBuildProofs

\* What a run has to itself: its phase, its log, its VM, its reports and the
\* state of its triggers.
Same(q) == /\ pc'[q] = pc[q] /\ logged'[q] = logged[q] /\ vm'[q] = vm[q]
           /\ processed'[q] = processed[q] /\ announced'[q] = announced[q]

\* The steps of another run leave all of that alone.
LEMMA OthersSame ==
  ASSUME TypeInv, NEW r \in Runs, NEW q \in Runs, q # r,
         Deliver(r) \/ Insert(r) \/ Delete(r) \/ Deadline(r) \/ Proceed(r)
  PROVE  Same(q)
<1> USE DEF TypeInv, TypeOK, Same, Step, Goto, Panic, progress, triggers, shared
<1>1. ASSUME Notify(r) \/ NotifyFailure(r) PROVE processed'[q] = processed[q] /\ announced'[q] = announced[q]
  BY <1>1 DEF Notify, NotifyFailure, ProcessTriggers, TriggersPanic, Announce
<1>2. ASSUME Notify(r) \/ NotifyFailure(r) PROVE pc'[q] = pc[q] /\ logged'[q] = logged[q] /\ vm'[q] = vm[q]
  BY <1>2 DEF Notify, NotifyFailure
<1>3. CASE Notify(r) \/ NotifyFailure(r)
  BY <1>1, <1>2, <1>3
<1>4. CASE Setup(r) \/ Booted(r) \/ Settled(r) \/ BeginTask(r) \/ EndTask(r) \/ Cleanup(r)
  BY <1>4 DEF Setup, Booted, Settled, BeginTask, EndTask, Cleanup
<1>5. CASE Deliver(r) \/ Insert(r) \/ Delete(r) \/ Deadline(r) \/ Start(r) \/ StartFails(r)
  BY <1>5 DEF Deliver, Insert, Delete, Deadline, Start, StartFails
<1>6. CASE Boot(r) \/ Settle(r) \/ AllTasksDone(r) \/ ShellEnds(r) \/ Standby(r) \/ ClaimEnds(r)
  BY <1>6 DEF Boot, Settle, AllTasksDone, ShellEnds, Standby, ClaimEnds
<1>7. CASE Succeed(r) \/ Recover(r) \/ Record(r)
  BY <1>7 DEF Succeed, Recover, Record
<1> QED BY <1>3, <1>4, <1>5, <1>6, <1>7, Zenon DEF Proceed

\* Nor do they end its context.
LEMMA OthersErr ==
  ASSUME TypeInv, NEW r \in Runs, NEW q \in Runs, q # r,
         Deliver(r) \/ Insert(r) \/ Delete(r) \/ Deadline(r) \/ Proceed(r)
  PROVE  err'[q] = err[q]
<1> USE DEF TypeInv, TypeOK
<1>1. CASE Succeed(r)
  BY <1>1 DEF Succeed, CancelContext
<1>2. CASE Deadline(r)
  BY <1>2 DEF Deadline
<1>3. CASE Deliver(r) \/ Insert(r) \/ Delete(r)
  BY <1>3 DEF Deliver, Insert, Delete, requests
<1>4. Proceed(r) => Succeed(r) \/ UNCHANGED err
  BY DEF Proceed, requests, Start, StartFails, Setup, Boot, Booted, Settle, Settled,
     BeginTask, EndTask, AllTasksDone, ShellEnds, Notify, Recover, Record, NotifyFailure,
     Standby, ClaimEnds, Cleanup
<1> QED BY <1>1, <1>2, <1>3, <1>4

\* Neither do the requests, nor a crash but for the phase.
LEMMA RequestsSame ==
  ASSUME NEW q \in Runs,
         \/ HttpCancelWrites \/ UNCHANGED vars
         \/ \E j \in Jobs : HttpCancel(j) \/ HttpTerminate(j) \/ HttpClaim(j)
  PROVE  Same(q)
  BY DEF Same, HttpCancelWrites, HttpCancel, HttpTerminate, HttpClaim, vars, progress, triggers

-----------------------------------------------------------------------------
(* The triggers of a manifest are processed once.                          *)

TriggerInv(r) ==
  /\ ~processed[r] => announced[r] = <<>>
  /\ Len(announced[r]) <= 1
  /\ processed[r] => \/ Len(announced[r]) = 1
                     \/ JobOf[r] \in Panicking
                     \/ pc[r] = "escaped"
  /\ pc[r] \in {"standby", "claimed", "cleanup", "done"} /\ JobOf[r] \in Triggering
       => processed[r]

LEMMA NotifyTriggerInv ==
  ASSUME SuccessInv, NEW r \in Runs, TriggerInv(r), Notify(r) \/ NotifyFailure(r)
  PROVE  TriggerInv(r)'
<1>0. TypeOK /\ RunInv(r)
  BY DEF SuccessInv, TypeInv
<1>1. announced[r] \in Seq(Statuses) /\ jobStatus[r] \in Statuses
  BY <1>0 DEF TypeOK
<1>2. announced[r] = <<>> => Len(Append(announced[r], jobStatus[r])) = 1
  BY <1>1
<1>3. pc[r] \in {"notify", "notifyFailure"} /\ (pc[r] = "notify" => logged[r])
  BY <1>0 DEF Notify, NotifyFailure, Step, Panic, RunInv, Succeeding
<1>4. CASE ProcessTriggers(r) /\ pc'[r] \in {"standby", "cleanup"}
  <2>1. CASE JobOf[r] \in Triggering /\ ~processed[r]
    <3>1. processed'[r] /\ announced'[r] = Append(announced[r], jobStatus[r])
      BY <1>0, <1>4, <2>1 DEF ProcessTriggers, Announce, TypeOK
    <3>2. Len(announced'[r]) = 1
      BY <1>2, <2>1, <3>1 DEF TriggerInv
    <3> QED BY <3>1, <3>2 DEF TriggerInv
  <2>2. CASE ~(JobOf[r] \in Triggering /\ ~processed[r])
    <3>1. UNCHANGED <<processed, announced>>
      BY <1>4, <2>2 DEF ProcessTriggers, triggers
    <3> QED BY <1>3, <1>4, <2>2, <3>1 DEF TriggerInv
  <2> QED BY <2>1, <2>2
<1>5. CASE /\ TriggersPanic(r)
           /\ \/ pc[r] = "notify" /\ pc'[r] = "recover"
              \/ pc[r] = "notifyFailure" /\ pc'[r] = "escaped"
  <2>1. JobOf[r] \in Panicking \/ pc'[r] = "escaped"
    BY <1>3, <1>5 DEF TriggersPanic
  <2>2. CASE UNCHANGED triggers
    BY <1>5, <2>1, <2>2 DEF TriggerInv, triggers
  <2>3. CASE ~processed[r] /\ processed' = [processed EXCEPT ![r] = TRUE] /\ UNCHANGED announced
    BY <1>0, <1>5, <2>1, <2>3 DEF TriggerInv, TypeOK
  <2>4. CASE ~processed[r] /\ processed' = [processed EXCEPT ![r] = TRUE] /\ Announce(r)
    <3>1. processed'[r] /\ announced'[r] = Append(announced[r], jobStatus[r])
      BY <1>0, <2>4 DEF Announce, TypeOK
    <3>2. Len(announced'[r]) = 1
      BY <1>2, <2>4, <3>1 DEF TriggerInv
    <3> QED BY <3>1, <3>2 DEF TriggerInv
  <2> QED BY <1>5, <2>2, <2>3, <2>4 DEF TriggersPanic
<1>6. Notify(r) => \/ ProcessTriggers(r) /\ pc'[r] \in {"standby", "cleanup"}
                   \/ TriggersPanic(r) /\ pc[r] = "notify" /\ pc'[r] = "recover"
  BY <1>0 DEF Notify, Step, Goto, Panic, TypeOK
<1>7. NotifyFailure(r) => \/ ProcessTriggers(r) /\ pc'[r] \in {"standby", "cleanup"}
                          \/ TriggersPanic(r) /\ pc[r] = "notifyFailure" /\ pc'[r] = "escaped"
  BY <1>0 DEF NotifyFailure, Step, Goto, TypeOK
<1> QED BY <1>4, <1>5, <1>6, <1>7, Zenon

\* The other steps report nothing, and a build comes to its last phases through
\* one of those two.
LEMMA QuietTriggerInv ==
  ASSUME TypeInv, NEW r \in Runs, TriggerInv(r),
         \/ Deliver(r) \/ Insert(r) \/ Delete(r) \/ Deadline(r)
         \/ Proceed(r) /\ ~Notify(r) /\ ~NotifyFailure(r)
  PROVE  TriggerInv(r)'
<1>1. /\ UNCHANGED <<processed, announced>>
      /\ pc[r] # "escaped"
      /\ pc'[r] \in {"standby", "claimed", "cleanup", "done"}
           => pc[r] \in {"standby", "claimed", "cleanup", "done"}
  <2> USE DEF TypeInv, TypeOK, Step, Goto, Panic, triggers
  <2>1. CASE Setup(r) \/ Booted(r) \/ Settled(r) \/ BeginTask(r) \/ EndTask(r) \/ Cleanup(r)
    BY <2>1 DEF Setup, Booted, Settled, BeginTask, EndTask, Cleanup
  <2>2. CASE Deliver(r) \/ Insert(r) \/ Delete(r) \/ Start(r) \/ StartFails(r)
    BY <2>2 DEF Deliver, Insert, Delete, Start, StartFails
  <2>3. CASE Boot(r) \/ Settle(r) \/ AllTasksDone(r) \/ ShellEnds(r) \/ Standby(r) \/ ClaimEnds(r)
    BY <2>3 DEF Boot, Settle, AllTasksDone, ShellEnds, Standby, ClaimEnds
  <2>4. CASE Succeed(r) \/ Recover(r) \/ Record(r)
    BY <2>4 DEF Succeed, Recover, Record
  <2>5. CASE Deadline(r)
    <3>1. "escaped" \notin InProgress
      BY DEF InProgress, Building, Succeeding, Recovering
    <3> QED BY <2>5, <3>1 DEF Deadline
  <2> QED BY <2>1, <2>2, <2>3, <2>4, <2>5, Zenon DEF Proceed
<1> QED BY <1>1 DEF TriggerInv

LEMMA NextTriggerInv ==
  SuccessInv /\ (\A q \in Runs : TriggerInv(q)) /\ [Next]_vars => (\A q \in Runs : TriggerInv(q))'
<1> SUFFICES ASSUME SuccessInv, \A q \in Runs : TriggerInv(q), [Next]_vars, NEW q \in Runs
             PROVE  TriggerInv(q)'
  OBVIOUS
<1>0. TypeInv
  BY DEF SuccessInv
<1>1. Same(q) => TriggerInv(q)'
  BY DEF Same, TriggerInv
<1>2. ASSUME NEW r \in Runs,
             Deliver(r) \/ Proceed(r) \/ Insert(r) \/ Delete(r) \/ Deadline(r)
      PROVE  TriggerInv(q)'
  BY <1>0, <1>1, <1>2, OthersSame, NotifyTriggerInv, QuietTriggerInv
<1>3. CASE Crash
  BY <1>3 DEF Crash, TriggerInv, triggers, InProgress, Building, Succeeding, Recovering
<1> QED BY <1>1, <1>2, <1>3, RequestsSame DEF Next

\* However a build ends, and whatever the panics of its triggers make the
\* deferred function do again, its manifest's triggers report it once, if the
\* build ends in order, and never twice.
THEOREM ReportedOnce == Spec => []TriggersOnce
<1>1. Init => \A q \in Runs : TriggerInv(q)
  BY DEF Init, TriggerInv
<1>2. (\A q \in Runs : TriggerInv(q)) => TriggersOnce
  BY DEF TriggerInv, TriggersOnce
<1> QED BY <1>1, <1>2, NextTriggerInv, SuccessInvariant, PTL DEF Spec

-----------------------------------------------------------------------------
(* VMs.                                                                    *)

\* A VM that is up was booted by a run that had a log, and that is where it
\* stops it unless a trigger panics.
VmInv(r) == vm[r] = "up" =>
  /\ logged[r]
  /\ pc[r] \notin Young \cup {"setup", "boot", "booting", "done"}
  /\ pc[r] = "escaped" => JobOf[r] \in Panicking

LEMMA OwnVmInv ==
  ASSUME SuccessInv, NEW r \in Runs, VmInv(r),
         Deliver(r) \/ Insert(r) \/ Delete(r) \/ Deadline(r) \/ Proceed(r)
  PROVE  VmInv(r)'
<1>0. TypeInv /\ RunInv(r)
  BY DEF SuccessInv
<1> USE <1>0 DEF TypeInv, TypeOK, VmInv, Young, Step, Goto, Panic, progress, triggers
<1>1. CASE Setup(r) \/ Settled(r) \/ BeginTask(r) \/ EndTask(r)
  BY <1>1 DEF Setup, Settled, BeginTask, EndTask
<1>2. CASE Booted(r)
  <2>1. CASE pc'[r] = "settle"
    <3>1. logged[r]
      BY <1>2 DEF Booted, RunInv, Building
    <3> QED BY <1>2, <2>1, <3>1 DEF Booted
  <2>2. CASE pc'[r] # "settle"
    <3>1. vm'[r] # "up"
      BY <1>2, <2>2 DEF Booted
    <3> QED BY <3>1
  <2> QED BY <2>1, <2>2
<1>3. CASE Cleanup(r)
  BY <1>3 DEF Cleanup
<1>4. CASE Notify(r)
  <2>1. vm' = vm /\ logged' = logged /\ pc[r] = "notify" /\ pc'[r] \in {"cleanup", "recover"}
    BY <1>4 DEF Notify
  <2> QED BY <2>1
<1>5. CASE NotifyFailure(r)
  <2>1. pc'[r] = "escaped" => JobOf[r] \in Panicking \/ ~logged[r]
    BY <1>5 DEF NotifyFailure, TriggersPanic
  <2> QED BY <1>5, <2>1 DEF NotifyFailure
<1>6. CASE Deliver(r) \/ Insert(r) \/ Delete(r) \/ Deadline(r) \/ Start(r) \/ StartFails(r)
  BY <1>6 DEF Deliver, Insert, Delete, Deadline, Start, StartFails
<1>7. CASE Boot(r) \/ Settle(r) \/ AllTasksDone(r) \/ ShellEnds(r) \/ Standby(r) \/ ClaimEnds(r)
  BY <1>7 DEF Boot, Settle, AllTasksDone, ShellEnds, Standby, ClaimEnds
<1>8. CASE Succeed(r) \/ Recover(r) \/ Record(r)
  BY <1>8 DEF Succeed, Recover, Record
<1> QED BY <1>1, <1>2, <1>3, <1>4, <1>5, <1>6, <1>7, <1>8, Zenon DEF Proceed

LEMMA NextVmInv ==
  SuccessInv /\ (\A q \in Runs : VmInv(q)) /\ [Next]_vars => (\A q \in Runs : VmInv(q))'
<1> SUFFICES ASSUME SuccessInv, \A q \in Runs : VmInv(q), [Next]_vars, NEW q \in Runs
             PROVE  VmInv(q)'
  OBVIOUS
<1>0. TypeInv
  BY DEF SuccessInv
<1>1. Same(q) => VmInv(q)'
  BY DEF Same, VmInv
<1>2. ASSUME NEW r \in Runs,
             Deliver(r) \/ Proceed(r) \/ Insert(r) \/ Delete(r) \/ Deadline(r)
      PROVE  VmInv(q)'
  BY <1>0, <1>1, <1>2, OthersSame, OwnVmInv
<1>3. CASE Crash
  <2>1. vm'[q] = "up" => vm[q] = "up"
    BY <1>3 DEF Crash
  <2>2. logged'[q] = logged[q] /\ pc'[q] = IF pc[q] \in InProgress THEN "lost" ELSE pc[q]
    BY <1>3 DEF Crash, progress
  <2> QED BY <2>1, <2>2 DEF VmInv, Young
<1> QED BY <1>1, <1>2, <1>3, RequestsSame DEF Next

\* No VM is left up by a build that is over, for any number of builds and
\* goroutines and whatever is cancelled, unless one of its triggers panics, the
\* worker crashes or the boot command did not finish.
THEOREM NoVmIsForgotten == Spec => []NoVmLeak
<1>1. Init => \A q \in Runs : VmInv(q)
  BY DEF Init, VmInv
<1>2. SuccessInv /\ (\A q \in Runs : VmInv(q)) => NoVmLeak
  <2> SUFFICES ASSUME TypeOK, NEW r \in Runs, VmInv(r), vm[r] = "up"
               PROVE  \/ pc[r] \in InProgress \cup {"lost"}
                      \/ pc[r] = "escaped" /\ JobOf[r] \in Panicking
    BY DEF SuccessInv, TypeInv, NoVmLeak
  <2> QED BY DEF TypeOK, VmInv, Young, Phases, Ended
<1> QED BY <1>1, <1>2, NextVmInv, SuccessInvariant, PTL DEF Spec

-----------------------------------------------------------------------------
(* A row that says "running".                                              *)

\* The run has started and has not written its outcome yet.
Owes(r) == pc[r] \in {"insert", "succeed", "recover", "record"} \cup Building

RunningInv ==
  /\ \A r \in Runs : pc[r] = "record" => verdict[r] # "running"
  /\ ~DbMayFail /\ crashes = 0 =>
       \A j \in Jobs : status[j] = "running" => \E r \in Runs : JobOf[r] = j /\ Owes(r)

LEMMA StepRunning ==
  ASSUME TypeInv, NEW r \in Runs, RunningInv,
         Deliver(r) \/ Insert(r) \/ Delete(r) \/ Deadline(r) \/ Proceed(r)
  PROVE  RunningInv'
<1> USE ConstantsOK DEF TypeInv, TypeOK, Step, Goto, Panic, shared, rows
<1>0. JobOf[r] \in Jobs /\ TypeOK
  OBVIOUS
<1>1. UNCHANGED crashes /\ \A q \in Runs : q # r => pc'[q] = pc[q] /\ verdict'[q] = verdict[q]
  <2>1. \A q \in Runs : q # r => pc'[q] = pc[q]
    BY OthersSame DEF Same
  <2>2. CASE Delete(r) \/ Recover(r)
    BY <2>1, <2>2 DEF Delete, Recover
  <2>3. CASE Deliver(r) \/ Insert(r) \/ Deadline(r) \/ Start(r) \/ StartFails(r) \/ Setup(r)
    BY <2>1, <2>3 DEF Deliver, Insert, Deadline, Start, StartFails, Setup
  <2>4. CASE Boot(r) \/ Booted(r) \/ Settle(r) \/ Settled(r) \/ BeginTask(r) \/ EndTask(r)
    BY <2>1, <2>4 DEF Boot, Booted, Settle, Settled, BeginTask, EndTask
  <2>5. CASE AllTasksDone(r) \/ ShellEnds(r) \/ Standby(r) \/ ClaimEnds(r) \/ Cleanup(r)
    BY <2>1, <2>5 DEF AllTasksDone, ShellEnds, Standby, ClaimEnds, Cleanup
  <2>6. CASE Succeed(r) \/ Record(r) \/ Notify(r) \/ NotifyFailure(r)
    BY <2>1, <2>6 DEF Succeed, Record, Notify, NotifyFailure
  <2> QED BY <2>2, <2>3, <2>4, <2>5, <2>6, Zenon DEF Proceed
\* The outcome is written, and whoever else has the job may still owe one.
<1>2. CASE Succeed(r) \/ Record(r)
  <2>1. pc'[r] # "record" /\ UNCHANGED verdict
    BY <1>2 DEF Succeed, Record
  <2>2. ASSUME ~DbMayFail PROVE /\ status'[JobOf[r]] # "running"
                                /\ \A j \in Jobs : j # JobOf[r] => status'[j] = status[j]
    BY <1>2, <2>2 DEF Succeed, Record, SetStatus, RunningInv
  <2>3. \A q \in Runs : q # r => (Owes(q)' <=> Owes(q))
    BY <1>1 DEF Owes
  <2> QED BY <1>1, <2>1, <2>2, <2>3 DEF RunningInv
<1>3. CASE Start(r)
  <2>1. pc'[r] = "insert" /\ Owes(r)' /\ UNCHANGED verdict
    BY <1>3 DEF Start, Owes
  <2>2. \A j \in Jobs : j # JobOf[r] => status'[j] = status[j]
    BY <1>3 DEF Start
  <2>3. \A q \in Runs : Owes(q) => Owes(q)'
    BY <1>1, <2>1 DEF Owes
  <2> QED BY <1>1, <2>1, <2>2, <2>3 DEF RunningInv
<1>4. CASE StartFails(r)
  <2>1. DbMayFail /\ pc'[r] = "escaped"
    BY <1>4 DEF StartFails
  <2> QED BY <1>1, <2>1 DEF RunningInv
<1>5. ASSUME UNCHANGED status, Owes(r) => Owes(r)', pc'[r] = "record" => verdict'[r] # "running"
      PROVE  RunningInv'
  <2>1. \A q \in Runs : Owes(q) => Owes(q)'
    BY <1>1, <1>5 DEF Owes
  <2> QED BY <1>1, <1>5, <2>1 DEF RunningInv
<1>6. CASE Recover(r)
  <2>1. verdict'[r] # "running"
    <3>1. verdict' = [verdict EXCEPT ![r] = IF err[r] = "deadline" THEN "timeout"
                         ELSE IF err[r] = "canceled" THEN "cancelled" ELSE "failed"]
      BY <1>6 DEF Recover
    <3> QED BY <3>1
  <2> QED BY <1>5, <1>6, <2>1 DEF Recover, Owes
<1>7. CASE Deliver(r) \/ Insert(r) \/ Delete(r) \/ Setup(r) \/ Boot(r) \/ Booted(r)
  BY <1>5, <1>7 DEF Deliver, Insert, Delete, Setup, Boot, Booted, Owes, Building
<1>8. CASE Settle(r) \/ Settled(r) \/ BeginTask(r) \/ EndTask(r) \/ AllTasksDone(r) \/ ShellEnds(r)
  BY <1>5, <1>8 DEF Settle, Settled, BeginTask, EndTask, AllTasksDone, ShellEnds, Owes, Building
<1>9. CASE Notify(r) \/ NotifyFailure(r) \/ Standby(r) \/ ClaimEnds(r) \/ Cleanup(r)
  BY <1>5, <1>9 DEF Notify, NotifyFailure, Standby, ClaimEnds, Cleanup, Owes, Building
<1>10. CASE Deadline(r)
  BY <1>5, <1>10 DEF Deadline, RunningInv, Owes
<1> QED BY <1>2, <1>3, <1>4, <1>6, <1>7, <1>8, <1>9, <1>10, Zenon DEF Proceed

LEMMA NextRunning == TypeInv /\ RunningInv /\ [Next]_vars => RunningInv'
<1> SUFFICES ASSUME TypeInv, RunningInv, [Next]_vars PROVE RunningInv'
  OBVIOUS
<1>1. ASSUME NEW r \in Runs,
             Deliver(r) \/ Proceed(r) \/ Insert(r) \/ Delete(r) \/ Deadline(r)
      PROVE  RunningInv'
  BY <1>1, StepRunning
<1>2. CASE HttpCancelWrites
  <2>1. handler \in Runs /\ UNCHANGED <<pc, verdict, crashes>>
    BY <1>2 DEF HttpCancelWrites, TypeInv, TypeOK
  <2>2. \A j \in Jobs : status'[j] = "running" => status[j] = "running"
    BY <1>2, <2>1, ConstantsOK DEF HttpCancelWrites, SetStatus, TypeInv, TypeOK, rows
  <2> QED BY <2>1, <2>2 DEF RunningInv, Owes
<1>3. CASE UNCHANGED vars \/ \E j \in Jobs : HttpCancel(j) \/ HttpTerminate(j) \/ HttpClaim(j)
  <2>1. UNCHANGED <<pc, verdict, status, crashes>>
    BY <1>3 DEF HttpCancel, HttpTerminate, HttpClaim, vars, rows, shared
  <2> QED BY <2>1 DEF RunningInv, Owes
<1>4. CASE Crash
  <2>1. crashes' # 0 /\ UNCHANGED verdict /\ \A r \in Runs : pc'[r] = "record" => pc[r] = "record"
    BY <1>4, ConstantsOK DEF Crash, TypeInv, TypeOK
  <2> QED BY <2>1 DEF RunningInv
<1> QED BY <1>1, <1>2, <1>3, <1>4 DEF Next

\* However often a job is delivered, and however its builds overlap, its row
\* says "running" only as long as one of them is at work, unless the database
\* fails or the worker crashes.
THEOREM RunningIsTrue == Spec => []RunningIsInProgress
<1>1. Init => RunningInv
  BY ConstantsOK DEF Init, RunningInv
<1>2. RunningInv => RunningIsInProgress
  <2>1. \A r \in Runs : Owes(r) => pc[r] \in InProgress
    BY DEF Owes, InProgress, Succeeding, Recovering
  <2> QED BY <2>1 DEF RunningInv, RunningIsInProgress
<1> QED BY <1>1, <1>2, NextRunning, InitTypeInv, NextTypeInv, PTL DEF Spec

-----------------------------------------------------------------------------
(* A cancel request that comes in time.                                    *)

\* The context has ended and a command is still to be run.
Doomed(r) == pc[r] = "tasks" /\ ~Alive(r) /\ \E t \in CommandTasks : t >= task[r]

\* From then on a run is among its tasks, in its deferred function or over.
Fated(r) == \/ Doomed(r)
            \/ pc[r] \in Recovering \cup {"cleanup"} \cup Ended

LEMMA StepFated ==
  ASSUME TypeInv, NEW r \in Runs, Fated(r),
         Deliver(r) \/ Insert(r) \/ Delete(r) \/ Deadline(r) \/ Proceed(r)
  PROVE  Fated(r)'
<1> USE DEF TypeInv, TypeOK, Step, Goto, Panic, Fated, Recovering, Ended, progress, requests
<1>1. CASE BeginTask(r)
  <2>1. Doomed(r)
    BY <1>1 DEF BeginTask
  <2>2. PICK t \in CommandTasks : t >= task[r]
    BY <2>1 DEF Doomed
  <2>3. CASE task[r] \notin CommandTasks /\ NextTask(r) /\ UNCHANGED pc
    <3>1. t \in Nat /\ task[r] \in Nat /\ task'[r] = task[r] + 1 /\ t # task[r]
      BY <2>3, ConstantsOK DEF NextTask
    <3>2. t >= task'[r]
      BY <2>2, <3>1
    <3> QED BY <1>1, <2>1, <2>3, <3>2 DEF Doomed, BeginTask, Alive
  <2>4. CASE pc' = [pc EXCEPT ![r] = "recover"]
    BY <2>4
  <2> QED BY <1>1, <2>1, <2>3, <2>4 DEF BeginTask, Doomed
<1>2. CASE AllTasksDone(r)
  <2>1. task[r] = NTasks + 1 /\ \E t \in CommandTasks : t >= task[r]
    BY <1>2 DEF AllTasksDone, Doomed
  <2> QED BY <2>1, ConstantsOK
<1>3. CASE Deadline(r)
  <2>1. UNCHANGED <<pc, task>> /\ Alive(r) /\ pc[r] \in Recovering \cup {"cleanup"} \cup Ended
    BY <1>3 DEF Deadline, Doomed
  <2> QED BY <2>1
<1>4. CASE Deliver(r) \/ Insert(r) \/ Delete(r) \/ Start(r) \/ StartFails(r) \/ Setup(r)
  BY <1>4 DEF Deliver, Insert, Delete, Start, StartFails, Setup, Doomed
<1>5. CASE Boot(r) \/ Booted(r) \/ Settle(r) \/ Settled(r) \/ EndTask(r) \/ ShellEnds(r)
  BY <1>5 DEF Boot, Booted, Settle, Settled, EndTask, ShellEnds, Doomed
<1>6. CASE Succeed(r) \/ Notify(r) \/ Recover(r) \/ Record(r) \/ NotifyFailure(r)
  BY <1>6 DEF Succeed, Notify, Recover, Record, NotifyFailure, Doomed
<1>7. CASE Standby(r) \/ ClaimEnds(r) \/ Cleanup(r)
  BY <1>7 DEF Standby, ClaimEnds, Cleanup, Doomed
<1> QED BY <1>1, <1>2, <1>3, <1>4, <1>5, <1>6, <1>7, Zenon DEF Proceed

LEMMA NextFated ==
  ASSUME TypeInv, NEW q \in Runs, Fated(q), [Next]_vars
  PROVE  Fated(q)'
<1> USE DEF TypeInv, TypeOK
<1>1. ASSUME NEW r \in Runs, r # q,
             Deliver(r) \/ Proceed(r) \/ Insert(r) \/ Delete(r) \/ Deadline(r)
      PROVE  pc'[q] = pc[q] /\ task'[q] = task[q] /\ err'[q] = err[q]
  <2>1. pc'[q] = pc[q]
    BY <1>1, OthersSame DEF Same
  <2>2. task'[q] = task[q]
    <3>1. CASE BeginTask(r) \/ EndTask(r)
      BY <1>1, <3>1 DEF BeginTask, EndTask, NextTask
    <3>2. CASE Deliver(r) \/ Insert(r) \/ Delete(r)
                 \/ (Proceed(r) /\ ~BeginTask(r) /\ ~EndTask(r))
      BY <3>2, ProceedMoves
    <3>3. CASE Deadline(r)
      BY <3>3 DEF Deadline, progress
    <3> QED BY <1>1, <3>1, <3>2, <3>3
  <2>3. err'[q] = err[q]
    BY <1>1, OthersErr
  <2> QED BY <2>1, <2>2, <2>3
<1>2. UNCHANGED <<pc, task>> /\ (err[q] # "nil" => err'[q] # "nil") => Fated(q)'
  BY DEF Fated, Doomed, Alive
<1>3. ASSUME NEW r \in Runs,
             Deliver(r) \/ Proceed(r) \/ Insert(r) \/ Delete(r) \/ Deadline(r)
      PROVE  Fated(q)'
  <2>1. CASE r = q
    BY <1>3, <2>1, StepFated
  <2>2. CASE r # q
    BY <1>1, <1>3, <2>2 DEF Fated, Doomed, Alive
  <2> QED BY <2>1, <2>2
<1>4. ASSUME NEW j \in Jobs, HttpCancel(j) \/ HttpTerminate(j) \/ HttpClaim(j)
      PROVE  UNCHANGED <<pc, task>> /\ (err[q] # "nil" => err'[q] # "nil")
  BY <1>4 DEF HttpCancel, HttpTerminate, HttpClaim, CancelContext, progress
<1>5. CASE HttpCancelWrites \/ UNCHANGED vars
  BY <1>2, <1>5 DEF HttpCancelWrites, vars, progress, requests
<1>6. CASE Crash
  BY <1>6 DEF Crash, Fated, Doomed, Ended, InProgress, Building
<1> QED BY <1>2, <1>3, <1>4, <1>5, <1>6 DEF Next

LEMMA FateIsSealed ==
  ASSUME NEW r \in Runs
  PROVE  Spec => [](pc[r] = "tasks" /\ ~Alive(r) /\ (\E t \in CommandTasks : t >= task[r])
                      => [](pc[r] # "delete"))
<1>1. Doomed(r) => Fated(r)
  BY DEF Fated
<1>2. TypeInv /\ Fated(r) /\ [Next]_vars => Fated(r)'
  BY NextFated
<1>3. Fated(r) => pc[r] # "delete"
  BY DEF Fated, Doomed, Recovering, Ended
<1>4. (pc[r] = "tasks" /\ ~Alive(r) /\ (\E t \in CommandTasks : t >= task[r])) <=> Doomed(r)
  BY DEF Doomed
<1> QED BY <1>1, <1>2, <1>3, <1>4, InitTypeInv, NextTypeInv, PTL DEF Spec

\* A cancel request or a deadline that comes while a command is still to be run
\* keeps a build from deleting its entry, and so from recording a success.
THEOREM CancelledNeverSucceeds == Spec => CancelBeatsSuccess
<1>1. ASSUME NEW r \in Runs
      PROVE  Spec => [](pc[r] = "tasks" /\ ~Alive(r) /\ (\E t \in CommandTasks : t >= task[r])
                          => [](pc[r] # "delete"))
  BY FateIsSealed
<1> QED BY <1>1 DEF CancelBeatsSuccess

-----------------------------------------------------------------------------
(* How many steps a build can still take.                                  *)

\* The most that are left to a run in phase p whose next task is the n-th.
Steps(p, n) ==
  CASE p \in Ended         -> 0
    [] p = "cleanup"       -> 1
    [] p = "claimed"       -> 2
    [] p = "standby"       -> 3
    [] p = "notifyFailure" -> 4
    [] p = "record"        -> 5
    [] p = "recover"       -> 6
    [] p = "notify"        -> 7
    [] p = "succeed"       -> 8
    [] p = "delete"        -> 9
    [] p = "shell"         -> 10
    [] p = "exec"          -> 10 + 2 * (NTasks + 1 - n)
    [] p = "tasks"         -> 11 + 2 * (NTasks + 1 - n)
    [] p = "settling"      -> 12 + 2 * NTasks
    [] p = "settle"        -> 13 + 2 * NTasks
    [] p = "booting"       -> 14 + 2 * NTasks
    [] p = "boot"          -> 15 + 2 * NTasks
    [] p = "setup"         -> 16 + 2 * NTasks
    [] p = "insert"        -> 17 + 2 * NTasks
    [] p = "start"         -> 18 + 2 * NTasks
    [] p = "queued"        -> 19 + 2 * NTasks

StepsLeft(r) == Steps(pc[r], task[r])

Stays(q) == pc'[q] = pc[q] /\ task'[q] = task[q]

LEMMA StepsLeftType == TypeInv => \A r \in Runs : StepsLeft(r) \in 0 .. 19 + 2 * NTasks
<1> SUFFICES ASSUME TypeInv, NEW r \in Runs PROVE StepsLeft(r) \in 0 .. 19 + 2 * NTasks
  OBVIOUS
<1>1. pc[r] \in Phases /\ task[r] \in 1 .. NTasks + 1 /\ NTasks \in Nat
  BY ConstantsOK DEF TypeInv, TypeOK
<1>2. PICK left \in 0 .. NTasks : NTasks + 1 - task[r] = left
  BY <1>1
<1>3. CASE pc[r] = "exec"
  <2>1. StepsLeft(r) = 10 + 2 * left
    BY <1>2, <1>3 DEF StepsLeft, Steps, Ended
  <2> QED BY <1>1, <2>1
<1>4. CASE pc[r] = "tasks"
  <2>1. StepsLeft(r) = 11 + 2 * left
    BY <1>2, <1>4 DEF StepsLeft, Steps, Ended
  <2> QED BY <1>1, <2>1
<1>5. CASE pc[r] \notin {"exec", "tasks"}
  <2>1. StepsLeft(r) \in 0 .. 10 \cup {k + 2 * NTasks : k \in 12 .. 19}
    BY <1>1, <1>5, PhaseList DEF StepsLeft, Steps, Ended
  <2> QED BY <1>1, <2>1
<1> QED BY <1>3, <1>4, <1>5

\* A run that leaves phase p for phase q.
LEMMA Descends ==
  ASSUME TypeInv, NEW r \in Runs, NEW q \in Phases, Goto(r, q), UNCHANGED task,
         Steps(q, task[r]) < Steps(pc[r], task[r])
  PROVE  StepsLeft(r)' < StepsLeft(r)
  BY DEF TypeInv, TypeOK, Goto, StepsLeft

LEMMA TaskDescends ==
  ASSUME TypeInv, NEW r \in Runs, BeginTask(r) \/ EndTask(r) \/ AllTasksDone(r)
  PROVE  StepsLeft(r)' < StepsLeft(r)
<1>1. task[r] \in 1 .. NTasks + 1 /\ NTasks \in Nat /\ pc[r] \in Phases
  BY ConstantsOK DEF TypeInv, TypeOK
<1>2. NextTask(r) => task'[r] = task[r] + 1
  BY DEF NextTask, TypeInv, TypeOK
<1> USE <1>1 DEF StepsLeft, Steps, Ended
<1>3. CASE BeginTask(r)
  <2>1. pc[r] = "tasks" /\ task[r] <= NTasks
    BY <1>3 DEF BeginTask
  <2>2. CASE NextTask(r) /\ UNCHANGED pc
    BY <1>2, <2>1, <2>2
  <2>3. ASSUME NEW q \in {"exec", "recover"}, Goto(r, q), UNCHANGED task
        PROVE  StepsLeft(r)' < StepsLeft(r)
    <3>1. pc'[r] = q /\ task'[r] = task[r]
      BY <2>3 DEF Goto, TypeInv, TypeOK
    <3> QED BY <2>1, <3>1
  <2> QED BY <1>3, <2>2, <2>3 DEF BeginTask
<1>4. CASE EndTask(r)
  <2>1. pc[r] = "exec" /\ task[r] <= NTasks
    BY <1>4 DEF EndTask, Step, Panic, TypeInv, ExecBelowEnd
  <2>2. CASE Goto(r, "tasks") /\ NextTask(r)
    <3>1. pc'[r] = "tasks"
      BY <2>2 DEF Goto, TypeInv, TypeOK
    <3> QED BY <1>2, <2>1, <2>2, <3>1
  <2>3. CASE Goto(r, "recover") /\ UNCHANGED task
    <3>1. pc'[r] = "recover" /\ task'[r] = task[r]
      BY <2>3 DEF Goto, TypeInv, TypeOK
    <3> QED BY <2>1, <3>1
  <2> QED BY <1>4, <2>2, <2>3 DEF EndTask, Step, Panic
<1>5. CASE AllTasksDone(r)
  <2>1. /\ pc[r] = "tasks" /\ task[r] = NTasks + 1 /\ task'[r] = task[r]
        /\ pc'[r] \in {"shell", "delete"}
    BY <1>5 DEF AllTasksDone, Step, Goto, progress, TypeInv, TypeOK
  <2> QED BY <2>1
<1> QED BY <1>3, <1>4, <1>5

LEMMA StepDescends ==
  ASSUME TypeInv, NEW r \in Runs,
         Deliver(r) \/ Insert(r) \/ Delete(r) \/ Proceed(r)
  PROVE  StepsLeft(r)' < StepsLeft(r)
<1>1. CASE BeginTask(r) \/ EndTask(r) \/ AllTasksDone(r)
  BY <1>1, TaskDescends
<1>2. CASE ~BeginTask(r) /\ ~EndTask(r) /\ ~AllTasksDone(r)
  <2>1. task'[r] = task[r] /\ task[r] \in 1 .. NTasks + 1 /\ NTasks \in Nat
    BY <1>2, ProceedMoves, ConstantsOK DEF TypeInv, TypeOK
  <2>2. \A p, q \in Phases : Step(r, p, q) => pc[r] = p /\ pc'[r] = q
    BY DEF Step, Goto, TypeInv, TypeOK
  <2> USE <2>1, <2>2, PhaseList DEF StepsLeft, Steps, Ended, Panic
  <2>3. CASE Deliver(r) \/ Start(r) \/ StartFails(r) \/ Insert(r) \/ Setup(r)
    BY <2>3 DEF Deliver, Start, StartFails, Insert, Setup
  <2>4. CASE Boot(r) \/ Booted(r)
    BY <2>4 DEF Boot, Booted
  <2>5. CASE Settle(r) \/ Settled(r)
    BY <2>5 DEF Settle, Settled
  <2>6. CASE ShellEnds(r) \/ Delete(r) \/ Succeed(r) \/ Notify(r)
    BY <2>6 DEF ShellEnds, Delete, Succeed, Notify
  <2>7. CASE Recover(r) \/ Record(r) \/ NotifyFailure(r)
    BY <2>7 DEF Recover, Record, NotifyFailure
  <2>8. CASE Standby(r) \/ ClaimEnds(r) \/ Cleanup(r)
    BY <2>8 DEF Standby, ClaimEnds, Cleanup
  <2> QED BY <1>2, <2>3, <2>4, <2>5, <2>6, <2>7, <2>8, Zenon DEF Proceed
<1> QED BY <1>1, <1>2

LEMMA OthersStay ==
  ASSUME TypeInv, NEW r \in Runs, NEW q \in Runs, q # r,
         Deliver(r) \/ Insert(r) \/ Delete(r) \/ Proceed(r)
  PROVE  Stays(q)
<1>1. pc'[q] = pc[q]
  BY OthersSame DEF Same
<1>2. BeginTask(r) \/ EndTask(r) => task'[q] = task[q]
  BY DEF BeginTask, EndTask, NextTask, TypeInv, TypeOK
<1> QED BY <1>1, <1>2, ProceedMoves DEF Stays

\* Every build takes at most 2 * NTasks + 19 steps, from its message to its end:
\* no step takes it back, also when the deferred function runs after part of the
\* success path, and nothing that other builds, requests, the deadline or a crash
\* do makes them more.  With the fairness of those steps, but for the cleanup, and
\* of the mutex, this is why EveryRunEnds.
THEOREM BuildsOnlyAdvance ==
  Spec => /\ [](\A r \in Runs : StepsLeft(r) \in 0 .. 19 + 2 * NTasks)
          /\ [][\A r \in Runs : Stays(r) \/ StepsLeft(r)' < StepsLeft(r)]_vars
<1>1. ASSUME TypeInv, [Next]_vars, NEW q \in Runs
      PROVE  Stays(q) \/ StepsLeft(q)' < StepsLeft(q)
  <2>1. ASSUME NEW r \in Runs, Deliver(r) \/ Insert(r) \/ Delete(r) \/ Proceed(r)
        PROVE  Stays(q) \/ StepsLeft(q)' < StepsLeft(q)
    BY <1>1, <2>1, StepDescends, OthersStay
  <2>2. CASE \/ HttpCancelWrites \/ UNCHANGED vars \/ \E r \in Runs : Deadline(r)
             \/ \E j \in Jobs : HttpCancel(j) \/ HttpTerminate(j) \/ HttpClaim(j)
    BY <2>2 DEF Stays, HttpCancelWrites, vars, Deadline, HttpCancel, HttpTerminate, HttpClaim,
       progress
  <2>3. CASE Crash
    <3>1. task'[q] = task[q] /\ pc'[q] = IF pc[q] \in InProgress THEN "lost" ELSE pc[q]
      BY <2>3 DEF Crash, progress
    <3>2. CASE pc[q] \in InProgress
      <4>1. /\ task[q] \in 1 .. NTasks + 1 /\ NTasks \in Nat
            /\ pc[q] \in Phases /\ pc[q] \notin Ended
        BY <1>1, <3>2, ConstantsOK
           DEF TypeInv, TypeOK, InProgress, Ended, Building, Succeeding, Recovering
      <4> QED BY <3>1, <3>2, <4>1, PhaseList DEF StepsLeft, Steps, Ended
    <3> QED BY <3>1, <3>2 DEF Stays
  <2> QED BY <1>1, <2>1, <2>2, <2>3 DEF Next
<1>2. TypeInv /\ [Next]_vars => [\A r \in Runs : Stays(r) \/ StepsLeft(r)' < StepsLeft(r)]_vars
  BY <1>1
<1> QED BY <1>2, StepsLeftType, InitTypeInv, NextTypeInv, PTL DEF Spec
=============================================================================
