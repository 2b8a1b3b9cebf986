--------------------------- MODULE RunBuildProofs ---------------------------
(***************************************************************************)
(* Proofs about RunBuild for every set of jobs and runs, every number of   *)
(* workers, tasks and crashes, and every choice of manifests.              *)
(***************************************************************************)
EXTENDS RunBuild, TLAPS

-----------------------------------------------------------------------------
(* Type correctness.  A task command that ends moves the counter on, so    *)
(* the counter must be below its bound while a command runs.               *)

ExecBelowEnd == \A r \in Runs : pc[r] = "exec" => task[r] <= NTasks

TypeInv == TypeOK /\ ExecBelowEnd

\* The phases and the statuses, spelled out.
LEMMA PhaseList ==
  Phases = {"queued", "start", "insert", "setup", "boot", "booting", "settle",
            "settling", "tasks", "exec", "shell", "delete", "succeed", "notify",
            "recover", "record", "notifyFailure", "standby", "claimed",
            "cleanup", "done", "escaped", "lost"}
  BY DEF Phases, InProgress, Ended, Building, Succeeding, Recovering

LEMMA StatusList ==
  /\ Statuses = {"pending", "queued", "running", "success", "failed", "timeout", "cancelled"}
  /\ Final = {"success", "failed", "timeout", "cancelled"}
  BY DEF Statuses, Final, Failures

LEMMA InitTypeInv == Init => TypeInv
  BY ConstantsOK DEF Init, TypeInv, TypeOK, ExecBelowEnd, Phases, Statuses

\* What the helpers of the actions do to the variables they change.
LEMMA SetStatusType ==
  ASSUME TypeOK, NEW r \in Runs, NEW s \in Statuses, SetStatus(r, s)
  PROVE  /\ status' \in [Jobs -> Statuses]
         /\ jobStatus' \in [Runs -> Statuses]
<1>1. JobOf[r] \in Jobs
  BY ConstantsOK
<1> QED
  BY <1>1 DEF SetStatus, TypeOK, rows

LEMMA AnnounceType ==
  ASSUME TypeOK, NEW r \in Runs, Announce(r)
  PROVE  announced' \in [Runs -> Seq(Statuses)]
<1>1. Append(announced[r], jobStatus[r]) \in Seq(Statuses)
  BY DEF TypeOK
<1> QED
  BY <1>1 DEF Announce, TypeOK

LEMMA TriggersType ==
  ASSUME TypeOK, NEW r \in Runs, ProcessTriggers(r) \/ TriggersPanic(r)
  PROVE  /\ processed' \in [Runs -> BOOLEAN]
         /\ announced' \in [Runs -> Seq(Statuses)]
<1>1. UNCHANGED announced => announced' \in [Runs -> Seq(Statuses)]
  BY DEF TypeOK
<1>2. UNCHANGED announced \/ Announce(r)
  BY DEF ProcessTriggers, TriggersPanic, triggers
<1>3. processed' \in [Runs -> BOOLEAN]
  BY DEF TypeOK, ProcessTriggers, TriggersPanic, triggers
<1> QED
  BY <1>1, <1>2, <1>3, AnnounceType

LEMMA TaskPhases ==
  ASSUME TypeOK, NEW r \in Runs, BeginTask(r) \/ EndTask(r)
  PROVE  pc' \in [Runs -> Phases]
<1>1. \A q \in Phases : Goto(r, q) => pc' \in [Runs -> Phases]
  BY DEF Goto, TypeOK
<1>2. UNCHANGED pc => pc' \in [Runs -> Phases]
  BY DEF TypeOK
<1>3. "exec" \in Phases /\ "recover" \in Phases /\ "tasks" \in Phases
  BY PhaseList
<1>4. BeginTask(r) => UNCHANGED pc \/ Goto(r, "exec") \/ Goto(r, "recover")
  BY Zenon DEF BeginTask
<1>5. EndTask(r) => Goto(r, "tasks") \/ Goto(r, "recover")
  BY Zenon DEF EndTask, Step, Panic
<1> QED
  BY <1>1, <1>2, <1>3, <1>4, <1>5

\* A run that moves to any phase but "exec".
Moves(r) == \E q \in Phases \ {"exec"} : Goto(r, q)

LEMMA MovesType ==
  ASSUME TypeInv, NEW r \in Runs, Moves(r), UNCHANGED task
  PROVE  pc' \in [Runs -> Phases] /\ ExecBelowEnd'
<1>1. PICK q \in Phases \ {"exec"} : pc' = [pc EXCEPT ![r] = q]
  BY DEF Moves, Goto
<1>2. pc \in [Runs -> Phases] /\ ExecBelowEnd
  BY DEF TypeInv, TypeOK
<1>3. pc' \in [Runs -> Phases]
  BY <1>1, <1>2
<1>4. ExecBelowEnd'
  BY <1>1, <1>2 DEF ExecBelowEnd
<1> QED BY <1>3, <1>4

LEMMA ProceedMoves ==
  ASSUME NEW r \in Runs,
         \/ Deliver(r) \/ Insert(r) \/ Delete(r)
         \/ Proceed(r) /\ ~BeginTask(r) /\ ~EndTask(r)
  PROVE  Moves(r) /\ UNCHANGED task
<1> USE PhaseList DEF Moves, Step, Panic, progress
<1>1. CASE Deliver(r) BY <1>1 DEF Deliver
<1>2. CASE Insert(r) BY <1>2 DEF Insert
<1>3. CASE Delete(r) BY <1>3 DEF Delete
<1>4. CASE Start(r) BY <1>4 DEF Start
<1>5. CASE StartFails(r) BY <1>5 DEF StartFails
<1>6. CASE Setup(r) BY <1>6 DEF Setup
<1>7. CASE Boot(r) BY <1>7 DEF Boot
<1>8. CASE Booted(r) BY <1>8 DEF Booted
<1>9. CASE Settle(r) BY <1>9 DEF Settle
<1>10. CASE Settled(r) BY <1>10 DEF Settled
<1>11. CASE AllTasksDone(r) BY <1>11 DEF AllTasksDone
<1>12. CASE ShellEnds(r) BY <1>12 DEF ShellEnds
<1>13. CASE Succeed(r) BY <1>13 DEF Succeed
<1>14. CASE Notify(r) BY <1>14 DEF Notify
<1>15. CASE Recover(r) BY <1>15 DEF Recover
<1>16. CASE Record(r) BY <1>16 DEF Record
<1>17. CASE NotifyFailure(r) BY <1>17 DEF NotifyFailure
<1>18. CASE Standby(r) BY <1>18 DEF Standby
<1>19. CASE ClaimEnds(r) BY <1>19 DEF ClaimEnds
<1>20. CASE Cleanup(r) BY <1>20 DEF Cleanup
<1> QED BY <1>1, <1>2, <1>3, <1>4, <1>5, <1>6, <1>7, <1>8, <1>9, <1>10, <1>11, <1>12, <1>13,
           <1>14, <1>15, <1>16, <1>17, <1>18, <1>19, <1>20, Zenon DEF Proceed

\* The other variables, whatever the phase: TypeOK without its first conjunct.
RestOK ==
  /\ err \in [Runs -> {"nil", "canceled", "deadline"}]
  /\ jobStatus \in [Runs -> Statuses]
  /\ logged \in [Runs -> BOOLEAN]
  /\ settled \in [Runs -> BOOLEAN]
  /\ claimed \in [Runs -> BOOLEAN]
  /\ processed \in [Runs -> BOOLEAN]
  /\ verdict \in [Runs -> Final \cup {"running"}]
  /\ announced \in [Runs -> Seq(Statuses)]
  /\ vm \in [Runs -> {"none", "up", "down", "orphan"}]
  /\ jobs \in [Jobs -> Runs \cup {NoRun}]
  /\ handler \in Runs \cup {NoRun}
  /\ status \in [Jobs -> Statuses]
  /\ crashes \in 0 .. MaxCrashes

LEMMA SplitTypeOK ==
  TypeOK <=> RestOK /\ pc \in [Runs -> Phases] /\ task \in [Runs -> 1 .. NTasks + 1]
  BY Zenon DEF TypeOK, RestOK

LEMMA ProceedRest ==
  ASSUME TypeInv, NEW r \in Runs,
         Deliver(r) \/ Insert(r) \/ Delete(r) \/ Deadline(r) \/ Proceed(r)
  PROVE  RestOK'
<1>0. TypeOK /\ RestOK
  BY SplitTypeOK DEF TypeInv
<1> USE <1>0, ConstantsOK DEF RestOK, requests, progress, triggers, rows, shared
<1>1. CASE Deliver(r) BY <1>1 DEF Deliver
<1>2. CASE Insert(r) BY <1>2 DEF Insert
<1>3. CASE Delete(r) BY <1>3, StatusList DEF Delete
<1>4. CASE Deadline(r) BY <1>4 DEF Deadline
<1>5. CASE Start(r) BY <1>5, StatusList DEF Start
<1>6. CASE StartFails(r)
  <2>1. status' \in [Jobs -> Statuses] BY StatusList, <1>6 DEF StartFails
  <2> QED BY <1>6, <2>1 DEF StartFails
<1>7. CASE Setup(r)
  <2>1. logged' \in [Runs -> BOOLEAN] BY <1>7 DEF Setup
  <2> QED BY <1>7, <2>1 DEF Setup
<1>8. CASE Boot(r) BY <1>8 DEF Boot
<1>9. CASE Booted(r)
  <2>1. vm' \in [Runs -> {"none", "up", "down", "orphan"}] BY <1>9 DEF Booted
  <2> QED BY <1>9, <2>1 DEF Booted
<1>10. CASE Settle(r) BY <1>10 DEF Settle
<1>11. CASE Settled(r)
  <2>1. settled' \in [Runs -> BOOLEAN] BY <1>11 DEF Settled
  <2> QED BY <1>11, <2>1 DEF Settled
<1>12. CASE BeginTask(r) BY <1>12 DEF BeginTask
<1>13. CASE EndTask(r) BY <1>13 DEF EndTask
<1>14. CASE AllTasksDone(r) BY <1>14 DEF AllTasksDone
<1>15. CASE ShellEnds(r) BY <1>15 DEF ShellEnds
<1>16. CASE Succeed(r)
  <2>1. status' \in [Jobs -> Statuses] /\ jobStatus' \in [Runs -> Statuses]
    BY <1>16, SetStatusType, StatusList DEF Succeed
  <2>2. err' \in [Runs -> {"nil", "canceled", "deadline"}]
    BY <1>16 DEF Succeed, CancelContext
  <2> QED BY <1>16, <2>1, <2>2 DEF Succeed
<1>17. CASE Notify(r)
  <2>1. processed' \in [Runs -> BOOLEAN] /\ announced' \in [Runs -> Seq(Statuses)]
    BY <1>17, TriggersType DEF Notify
  <2> QED BY <1>17, <2>1 DEF Notify
<1>18. CASE Recover(r)
  <2>1. verdict' \in [Runs -> Final \cup {"running"}] BY <1>18, StatusList DEF Recover
  <2> QED BY <1>18, <2>1 DEF Recover
<1>19. CASE Record(r)
  <2>1. verdict[r] \in Statuses BY StatusList
  <2>2. status' \in [Jobs -> Statuses] /\ jobStatus' \in [Runs -> Statuses]
    BY <1>19, <2>1, SetStatusType DEF Record
  <2> QED BY <1>19, <2>2 DEF Record
<1>20. CASE NotifyFailure(r)
  <2>1. processed' \in [Runs -> BOOLEAN] /\ announced' \in [Runs -> Seq(Statuses)]
    BY <1>20, TriggersType DEF NotifyFailure
  <2> QED BY <1>20, <2>1 DEF NotifyFailure
<1>21. CASE Standby(r) BY <1>21 DEF Standby
<1>22. CASE ClaimEnds(r) BY <1>22 DEF ClaimEnds
<1>23. CASE Cleanup(r)
  <2>1. vm' \in [Runs -> {"none", "up", "down", "orphan"}] BY <1>23 DEF Cleanup
  <2> QED BY <1>23, <2>1 DEF Cleanup
<1> QED BY <1>1, <1>2, <1>3, <1>4, <1>5, <1>6, <1>7, <1>8, <1>9, <1>10, <1>11, <1>12, <1>13,
           <1>14, <1>15, <1>16, <1>17, <1>18, <1>19, <1>20, <1>21, <1>22, <1>23, Zenon DEF Proceed

LEMMA TaskType ==
  ASSUME TypeInv, NEW r \in Runs, BeginTask(r) \/ EndTask(r)
  PROVE  task' \in [Runs -> 1 .. NTasks + 1] /\ ExecBelowEnd'
<1> USE DEF TypeInv, TypeOK, ExecBelowEnd
<1>1. task[r] <= NTasks
  BY DEF BeginTask, EndTask, Step, Panic
<1>2. task[r] + 1 \in 1 .. NTasks + 1
  BY <1>1, ConstantsOK
<1>3. UNCHANGED task \/ NextTask(r)
  BY DEF BeginTask, EndTask
<1>4. task' \in [Runs -> 1 .. NTasks + 1]
  BY <1>2, <1>3 DEF NextTask
<1>5. ASSUME NEW q \in Runs, pc'[q] = "exec" PROVE task'[q] <= NTasks
  <2>1. CASE q = r
    <3>1. UNCHANGED task
      BY <1>5, <2>1 DEF BeginTask, EndTask, Step, Goto, Panic
    <3> QED BY <1>1, <2>1, <3>1
  <2>2. CASE q # r
    <3>1. pc[q] = "exec"
      BY <1>5, <2>2 DEF BeginTask, EndTask, Step, Goto, Panic
    <3>2. task'[q] = task[q]
      BY <1>3, <2>2 DEF NextTask
    <3> QED BY <3>1, <3>2
  <2> QED BY <2>1, <2>2
<1> QED BY <1>4, <1>5

LEMMA NextTypeInv == TypeInv /\ [Next]_vars => TypeInv'
<1> SUFFICES ASSUME TypeInv, [Next]_vars PROVE TypeInv'
  OBVIOUS
<1>0. TypeOK /\ RestOK /\ pc \in [Runs -> Phases] /\ task \in [Runs -> 1 .. NTasks + 1]
      /\ ExecBelowEnd
  BY SplitTypeOK DEF TypeInv
<1>1. SUFFICES RestOK' /\ pc' \in [Runs -> Phases] /\ task' \in [Runs -> 1 .. NTasks + 1]
               /\ ExecBelowEnd'
  BY SplitTypeOK DEF TypeInv, TypeOK, RestOK
<1>2. ASSUME NEW r \in Runs,
             \/ Deliver(r) \/ Insert(r) \/ Delete(r)
             \/ Proceed(r) /\ ~BeginTask(r) /\ ~EndTask(r)
      PROVE  pc' \in [Runs -> Phases] /\ task' \in [Runs -> 1 .. NTasks + 1] /\ ExecBelowEnd'
  BY <1>0, <1>2, ProceedMoves, MovesType
<1>3. ASSUME NEW r \in Runs, BeginTask(r) \/ EndTask(r)
      PROVE  pc' \in [Runs -> Phases] /\ task' \in [Runs -> 1 .. NTasks + 1] /\ ExecBelowEnd'
  BY <1>0, <1>3, TaskPhases, TaskType
<1>4. CASE \E r \in Runs : Deliver(r) \/ Proceed(r) \/ Insert(r) \/ Delete(r)
  BY <1>2, <1>3, <1>4, ProceedRest
<1>5. ASSUME NEW r \in Runs, Deadline(r)
      PROVE  RestOK' /\ UNCHANGED <<pc, task>>
  BY <1>5, ProceedRest DEF Deadline, progress
<1>6. ASSUME NEW j \in Jobs, HttpCancel(j) \/ HttpTerminate(j) \/ HttpClaim(j)
      PROVE  RestOK' /\ UNCHANGED <<pc, task>>
  BY <1>0, <1>6 DEF RestOK, HttpCancel, HttpTerminate, HttpClaim, CancelContext,
     progress, triggers, rows, shared
<1>7. ASSUME HttpCancelWrites
      PROVE  RestOK' /\ UNCHANGED <<pc, task>>
  <2>1. handler \in Runs
    BY <1>0, <1>7 DEF RestOK, HttpCancelWrites
  <2>2. status' \in [Jobs -> Statuses] /\ jobStatus' \in [Runs -> Statuses]
    BY <1>0, <1>7, <2>1, SetStatusType, StatusList DEF HttpCancelWrites
  <2> QED BY <1>0, <1>7, <2>2 DEF RestOK, HttpCancelWrites, requests, progress, triggers
<1>8. CASE Crash
  <2>1. RestOK' /\ UNCHANGED task
    BY <1>0, <1>8, ConstantsOK DEF RestOK, Crash, requests, progress, triggers, rows
  <2>2. pc' \in [Runs -> Phases] /\ ExecBelowEnd'
    <3>1. "lost" \in Phases
      BY PhaseList
    <3> QED BY <1>0, <1>8, <2>1, <3>1 DEF Crash, ExecBelowEnd
  <2> QED BY <1>0, <2>1, <2>2
<1>9. CASE UNCHANGED vars
  BY <1>0, <1>9 DEF RestOK, ExecBelowEnd, vars, requests, progress, triggers, rows, shared
<1>10. UNCHANGED <<pc, task>> => pc' \in [Runs -> Phases] /\ task' \in [Runs -> 1 .. NTasks + 1]
                                 /\ ExecBelowEnd'
  BY <1>0 DEF ExecBelowEnd
<1> QED BY <1>4, <1>5, <1>6, <1>7, <1>8, <1>9, <1>10 DEF Next

\* Every variable keeps its type: in particular no phase, status or counter
\* the code does not know is ever reached.
THEOREM TypeCorrect == Spec => []TypeOK
<1>1. TypeInv => TypeOK BY DEF TypeInv
<1> QED BY <1>1, InitTypeInv, NextTypeInv, PTL DEF Spec

-----------------------------------------------------------------------------
(* The jobs map.  An entry belongs to a run of the job it is filed under,  *)
(* and a run decides on no outcome while it is building: without these two *)
(* a cancel request could find, through the map, a run that is past it.    *)

Young == {"queued", "start", "insert"}

MapNames    == \A j \in Jobs : jobs[j] # NoRun => JobOf[jobs[j]] = j
VerdictOpen == \A r \in Runs : pc[r] \in Young \cup Building => verdict[r] = "running"
MapInv      == MapNames /\ VerdictOpen /\ BuildIsReachable /\ NoCancelAfterDelete

LEMMA InitMapInv == Init => MapInv
  BY ConstantsOK DEF Init, MapInv, MapNames, VerdictOpen, BuildIsReachable,
     NoCancelAfterDelete, Young, Building

\* All a step of a build goroutine usually does to the map and to what MapInv
\* says of it: it moves on in its own program, never back into the build.
MovesOn(r) ==
  /\ UNCHANGED <<jobs, handler, verdict>>
  /\ \A q \in Runs : q # r => pc'[q] = pc[q]
  /\ pc'[r] \in Young \cup Building => pc[r] \in Young \cup Building
  /\ pc'[r] \in Building => pc[r] \in Building

LEMMA MovesOnMapInv ==
  ASSUME MapInv, NEW r \in Runs, MovesOn(r)
  PROVE  MapInv'
  BY DEF MapInv, MapNames, VerdictOpen, BuildIsReachable, NoCancelAfterDelete, MovesOn, Sole

LEMMA ProceedMovesOn ==
  ASSUME TypeInv, NEW r \in Runs, Proceed(r), ~Recover(r)
  PROVE  MovesOn(r)
<1> USE DEF TypeInv, TypeOK, MovesOn, Step, Goto, Panic, Young, Building, shared
<1>1. CASE Start(r) BY <1>1 DEF Start
<1>2. CASE StartFails(r) BY <1>2 DEF StartFails
<1>3. CASE Setup(r) BY <1>3 DEF Setup
<1>4. CASE Boot(r) BY <1>4 DEF Boot
<1>5. CASE Booted(r) BY <1>5 DEF Booted
<1>6. CASE Settle(r) BY <1>6 DEF Settle
<1>7. CASE Settled(r) BY <1>7 DEF Settled
<1>8. CASE BeginTask(r) BY <1>8 DEF BeginTask
<1>9. CASE EndTask(r) BY <1>9 DEF EndTask
<1>10. CASE AllTasksDone(r) BY <1>10 DEF AllTasksDone
<1>11. CASE ShellEnds(r) BY <1>11 DEF ShellEnds
<1>12. CASE Succeed(r) BY <1>12 DEF Succeed
<1>13. CASE Notify(r) BY <1>13 DEF Notify
<1>14. CASE Record(r) BY <1>14 DEF Record
<1>15. CASE NotifyFailure(r) BY <1>15 DEF NotifyFailure
<1>16. CASE Standby(r) BY <1>16 DEF Standby
<1>17. CASE ClaimEnds(r) BY <1>17 DEF ClaimEnds
<1>18. CASE Cleanup(r) BY <1>18 DEF Cleanup
<1> QED BY <1>1, <1>2, <1>3, <1>4, <1>5, <1>6, <1>7, <1>8, <1>9, <1>10, <1>11,
           <1>12, <1>13, <1>14, <1>15, <1>16, <1>17, <1>18, Zenon DEF Proceed

LEMMA NextMapInv == TypeInv /\ MapInv /\ [Next]_vars => MapInv'
<1> SUFFICES ASSUME TypeInv, MapInv, [Next]_vars PROVE MapInv'
  OBVIOUS
<1> USE ConstantsOK DEF TypeInv, TypeOK, shared
<1>1. ASSUME NEW r \in Runs, Proceed(r), ~Recover(r) PROVE MapInv'
  BY <1>1, ProceedMovesOn, MovesOnMapInv
<1>2. ASSUME NEW r \in Runs, Recover(r) PROVE MapInv'
  BY <1>2 DEF Recover, Step, Goto, Young, Building,
     MapInv, MapNames, VerdictOpen, BuildIsReachable, NoCancelAfterDelete, Sole
<1>3. ASSUME NEW r \in Runs, Deliver(r) PROVE MapInv'
  <2>1. MovesOn(r)
    BY <1>3 DEF Deliver, MovesOn, Step, Goto, Young, Building
  <2> QED BY <2>1, MovesOnMapInv
<1>4. ASSUME NEW r \in Runs, Insert(r) PROVE MapInv'
  BY <1>4 DEF Insert, Step, Goto, Young, Building,
     MapInv, MapNames, VerdictOpen, BuildIsReachable, NoCancelAfterDelete, Sole
<1>5. ASSUME NEW r \in Runs, Delete(r) PROVE MapInv'
  BY <1>5 DEF Delete, Step, Goto, Young, Building,
     MapInv, MapNames, VerdictOpen, BuildIsReachable, NoCancelAfterDelete, Sole
<1>6. ASSUME NEW r \in Runs, Deadline(r) PROVE MapInv'
  BY <1>6 DEF Deadline, MapInv, MapNames, VerdictOpen, BuildIsReachable, NoCancelAfterDelete, Sole
<1>7. ASSUME NEW j \in Jobs, HttpCancel(j) PROVE MapInv'
  BY <1>7 DEF HttpCancel, MapInv, MapNames, VerdictOpen, BuildIsReachable, NoCancelAfterDelete, Sole
<1>8. ASSUME NEW j \in Jobs, HttpTerminate(j) \/ HttpClaim(j) PROVE MapInv'
  BY <1>8 DEF HttpTerminate, HttpClaim, MapInv, MapNames, VerdictOpen,
     BuildIsReachable, NoCancelAfterDelete, Sole
<1>9. CASE HttpCancelWrites
  BY <1>9 DEF HttpCancelWrites, MapInv, MapNames, VerdictOpen, BuildIsReachable,
     NoCancelAfterDelete, Sole
<1>10. CASE Crash
  <2>1. \A r \in Runs : /\ pc'[r] \notin Building \cup {"start", "insert"}
                        /\ pc'[r] = "queued" => pc[r] = "queued"
    BY <1>10 DEF Crash, InProgress, Building
  <2>2. \A r \in Runs : pc'[r] \in Young \cup Building => verdict'[r] = "running"
    BY <1>10, <2>1 DEF Crash, Young, MapInv, VerdictOpen
  <2> QED
    BY <1>10, <2>1, <2>2 DEF Crash, MapInv, MapNames, VerdictOpen, BuildIsReachable,
       NoCancelAfterDelete
<1>11. CASE UNCHANGED vars
  BY <1>11 DEF vars, MapInv, MapNames, VerdictOpen, BuildIsReachable, NoCancelAfterDelete, Sole
<1> QED
  BY <1>1, <1>2, <1>3, <1>4, <1>5, <1>6, <1>7, <1>8, <1>9, <1>10, <1>11 DEF Next

LEMMA MapInvariant == Spec => [](TypeInv /\ MapInv)
  BY InitTypeInv, NextTypeInv, InitMapInv, NextMapInv, PTL DEF Spec

\* A build that can still run commands is in the map under its job's id, where
\* cancel and claim look for it: RunBuild never loses track of it, whatever
\* other jobs, crashes and requests do, if its job was delivered only once.
THEOREM EntryIsKept == Spec => []BuildIsReachable
<1>1. MapInv => BuildIsReachable BY DEF MapInv
<1> QED BY <1>1, MapInvariant, PTL

\* No cancel handler can hold, or find, a run that is past the deletion of its
\* entry: the mutex orders every cancel request before or after it.  This
\* holds of a job delivered any number of times.
THEOREM CancelOrdered == Spec => []NoCancelAfterDelete
<1>1. MapInv => NoCancelAfterDelete BY DEF MapInv
<1> QED BY <1>1, MapInvariant, PTL

-----------------------------------------------------------------------------
(* Success is final.  The row of a job delivered once says "success" only  *)
(* when its run is past the point where a cancel request could reach it,   *)
(* and the copy in memory never claims a success the row does not record.  *)

OutOfReach(r) ==
  /\ handler # r
  /\ jobs[JobOf[r]] # r
  /\ pc[r] \notin Young \cup Building \cup {"succeed"}
  /\ pc[r] \in Recovering => JobOf[r] \in Panicking

RunInv(r) ==
  /\ pc[r] \in Young => handler # r /\ jobs[JobOf[r]] # r
  /\ pc[r] \in {"queued", "start"} => jobStatus[r] = "queued"
  /\ pc[r] \in (Building \ {"setup"}) \cup Succeeding => logged[r]
  /\ pc[r] \in Succeeding => verdict[r] = "success"
  /\ pc[r] = "record" => verdict[r] # "success"
  /\ Sole(r) /\ jobStatus[r] = "success" => status[JobOf[r]] = "success"
  /\ Sole(r) /\ status[JobOf[r]] = "success" => OutOfReach(r)

SuccessInv == TypeInv /\ MapInv /\ \A r \in Runs : RunInv(r)

LEMMA InitSuccessInv == Init => SuccessInv
<1>1. Init => \A r \in Runs : RunInv(r)
  BY ConstantsOK DEF Init, RunInv, Young, Building, Succeeding
<1> QED BY <1>1, InitTypeInv, InitMapInv DEF SuccessInv

\* A step of run r leaves the facts about every other run as they were: it may
\* write the row and the map entry of its own job only.
Spares(q) ==
  /\ pc'[q] = pc[q]
  /\ jobStatus'[q] = jobStatus[q]
  /\ logged'[q] = logged[q]
  /\ verdict'[q] = verdict[q]
  /\ handler' \in {handler, NoRun}
  /\ Sole(q) => status'[JobOf[q]] = status[JobOf[q]]
  /\ jobs'[JobOf[q]] = q => jobs[JobOf[q]] = q

LEMMA SparedRunInv ==
  ASSUME NEW q \in Runs, RunInv(q), Spares(q)
  PROVE  RunInv(q)'
  BY ConstantsOK DEF RunInv, Spares, OutOfReach, Sole

LEMMA SetStatusSpares ==
  ASSUME TypeOK, NEW r \in Runs, NEW s, SetStatus(r, s), NEW q \in Runs, q # r
  PROVE  /\ jobStatus'[q] = jobStatus[q]
         /\ Sole(q) => status'[JobOf[q]] = status[JobOf[q]]
  BY ConstantsOK DEF SetStatus, TypeOK, Sole, rows

LEMMA StepSpares ==
  ASSUME TypeInv, NEW r \in Runs, NEW q \in Runs, q # r,
         Deliver(r) \/ Insert(r) \/ Delete(r) \/ Deadline(r) \/ Proceed(r)
  PROVE  Spares(q)
<1> USE ConstantsOK DEF TypeInv, TypeOK, Spares, Step, Goto, Panic, shared, rows, progress
<1>0. CASE Deliver(r) BY <1>0 DEF Deliver
<1>1. CASE Start(r) BY <1>1 DEF Start, Sole
<1>2. CASE StartFails(r) BY <1>2 DEF StartFails, Sole
<1>3. CASE Setup(r) BY <1>3 DEF Setup
<1>4. CASE Boot(r) BY <1>4 DEF Boot
<1>5. CASE Booted(r) BY <1>5 DEF Booted
<1>6. CASE Settle(r) BY <1>6 DEF Settle
<1>7. CASE Settled(r) BY <1>7 DEF Settled
<1>8. CASE BeginTask(r) BY <1>8 DEF BeginTask
<1>9. CASE EndTask(r) BY <1>9 DEF EndTask
<1>10. CASE AllTasksDone(r) BY <1>10 DEF AllTasksDone
<1>11. CASE ShellEnds(r) BY <1>11 DEF ShellEnds
<1>12. CASE Succeed(r) BY <1>12, SetStatusSpares DEF Succeed
<1>13. CASE Notify(r) BY <1>13 DEF Notify
<1>14. CASE Recover(r) BY <1>14 DEF Recover
<1>15. CASE Record(r) BY <1>15, SetStatusSpares DEF Record
<1>16. CASE NotifyFailure(r) BY <1>16 DEF NotifyFailure
<1>17. CASE Standby(r) BY <1>17 DEF Standby
<1>18. CASE ClaimEnds(r) BY <1>18 DEF ClaimEnds
<1>19. CASE Cleanup(r) BY <1>19 DEF Cleanup
<1>20. CASE Insert(r) BY <1>20 DEF Insert
<1>21. CASE Delete(r) BY <1>21 DEF Delete
<1>22. CASE Deadline(r) BY <1>22 DEF Deadline
<1> QED BY <1>0, <1>1, <1>2, <1>3, <1>4, <1>5, <1>6, <1>7, <1>8, <1>9, <1>10, <1>11,
           <1>12, <1>13, <1>14, <1>15, <1>16, <1>17, <1>18, <1>19, <1>20, <1>21, <1>22,
           Zenon DEF Proceed

\* A step of run r keeps what RunInv says of r itself.
LEMMA OwnRunInv ==
  ASSUME TypeInv, MapInv, NEW r \in Runs, RunInv(r),
         Deliver(r) \/ Insert(r) \/ Delete(r) \/ Deadline(r) \/ Proceed(r)
  PROVE  RunInv(r)'
<1> USE ConstantsOK DEF TypeInv, TypeOK, RunInv, OutOfReach, Sole, Step, Goto, Panic, shared, rows,
        progress, Young, Building, Succeeding, Recovering
<1>0. CASE Deliver(r) BY <1>0 DEF Deliver
<1>1. CASE Start(r) BY <1>1 DEF Start
<1>2. CASE StartFails(r) BY <1>2 DEF StartFails
<1>3. CASE Setup(r) BY <1>3 DEF Setup
<1>4. CASE Boot(r) BY <1>4 DEF Boot
<1>5. CASE Booted(r) BY <1>5 DEF Booted
<1>6. CASE Settle(r) BY <1>6 DEF Settle
<1>7. CASE Settled(r) BY <1>7 DEF Settled
<1>8. CASE BeginTask(r) BY <1>8 DEF BeginTask
<1>9. CASE EndTask(r) BY <1>9 DEF EndTask
<1>10. CASE AllTasksDone(r) BY <1>10 DEF AllTasksDone
<1>11. CASE ShellEnds(r) BY <1>11 DEF ShellEnds
<1>12. CASE Succeed(r)
  <2>1. handler # r /\ jobs[JobOf[r]] # r
    BY <1>12 DEF Succeed, MapInv, NoCancelAfterDelete
  <2> QED BY <1>12, <2>1 DEF Succeed, SetStatus
<1>13. CASE Notify(r)
  <2>1. pc'[r] = "recover" => JobOf[r] \in Panicking
    BY <1>13 DEF Notify, TriggersPanic
  <2>2. pc'[r] \in {"cleanup", "recover"} /\ pc[r] = "notify"
    BY <1>13 DEF Notify
  <2> QED BY <1>13, <2>1, <2>2 DEF Notify
<1>14. CASE Recover(r) BY <1>14 DEF Recover
<1>15. CASE Record(r) BY <1>15 DEF Record, SetStatus
<1>16. CASE NotifyFailure(r) BY <1>16 DEF NotifyFailure
<1>17. CASE Standby(r) BY <1>17 DEF Standby
<1>18. CASE ClaimEnds(r) BY <1>18 DEF ClaimEnds
<1>19. CASE Cleanup(r) BY <1>19 DEF Cleanup
<1>20. CASE Insert(r) BY <1>20 DEF Insert
<1>21. CASE Delete(r) BY <1>21 DEF Delete
<1>22. CASE Deadline(r) BY <1>22 DEF Deadline
<1> QED BY <1>0, <1>1, <1>2, <1>3, <1>4, <1>5, <1>6, <1>7, <1>8, <1>9, <1>10, <1>11,
           <1>12, <1>13, <1>14, <1>15, <1>16, <1>17, <1>18, <1>19, <1>20, <1>21, <1>22,
           Zenon DEF Proceed

\* A cancel handler that has found a run through the map has found one that
\* is not out of reach; a write it still owes cannot hit a recorded success.
LEMMA NextSuccessInv == SuccessInv /\ [Next]_vars => SuccessInv'
<1> SUFFICES ASSUME SuccessInv, [Next]_vars PROVE \A q \in Runs : RunInv(q)'
  BY NextTypeInv, NextMapInv DEF SuccessInv
<1> TAKE q \in Runs
<1>0. TypeInv /\ TypeOK /\ MapInv /\ RunInv(q)
  BY DEF SuccessInv, TypeInv
<1> USE <1>0
<1>1. ASSUME NEW r \in Runs,
             Deliver(r) \/ Proceed(r) \/ Insert(r) \/ Delete(r) \/ Deadline(r)
      PROVE  RunInv(q)'
  BY <1>1, OwnRunInv, StepSpares, SparedRunInv
<1>2. ASSUME NEW j \in Jobs, HttpCancel(j) PROVE RunInv(q)'
  <2>1. jobs[j] = q => JobOf[q] = j
    BY <1>2 DEF HttpCancel, MapInv, MapNames
  <2>2. handler' = q => jobs[JobOf[q]] = q
    BY <1>2, <2>1 DEF HttpCancel
  <2> QED
    BY <1>2, <2>2 DEF HttpCancel, RunInv, OutOfReach, Sole, progress, rows
<1>3. ASSUME NEW j \in Jobs, HttpTerminate(j) \/ HttpClaim(j) PROVE RunInv(q)'
  BY <1>3 DEF HttpTerminate, HttpClaim, RunInv, OutOfReach, Sole, progress, rows, shared
<1>4. CASE HttpCancelWrites
  <2>1. CASE q = handler
    <3>1. /\ pc[q] \notin Young
          /\ ~(Sole(q) /\ status[JobOf[q]] = "success")
      BY <2>1 DEF RunInv, OutOfReach
    <3>2. \/ jobStatus'[q] = "cancelled" /\ status'[JobOf[q]] = "cancelled"
          \/ jobStatus'[q] = jobStatus[q] /\ status'[JobOf[q]] = status[JobOf[q]]
      BY <1>4, <2>1, ConstantsOK DEF HttpCancelWrites, SetStatus, TypeOK, rows
    <3> QED
      BY <1>4, <2>1, <3>1, <3>2
         DEF HttpCancelWrites, RunInv, OutOfReach, Sole, progress, Young
  <2>2. CASE q # handler
    <3>1. handler \in Runs
      BY <1>4 DEF HttpCancelWrites, TypeOK
    <3>2. Spares(q)
      BY <1>4, <2>2, <3>1, SetStatusSpares DEF HttpCancelWrites, Spares, progress
    <3> QED BY <3>2, SparedRunInv
  <2> QED BY <2>1, <2>2
<1>5. CASE Crash
  BY <1>5, ConstantsOK DEF Crash, RunInv, OutOfReach, Sole, progress, rows, TypeOK,
     InProgress, Building, Succeeding, Recovering, Young
<1>6. CASE UNCHANGED vars
  BY <1>6 DEF vars, RunInv, OutOfReach, Sole, progress, rows, shared
<1> QED BY <1>1, <1>2, <1>3, <1>4, <1>5, <1>6 DEF Next

LEMMA SuccessInvariant == Spec => []SuccessInv
  BY InitSuccessInv, NextSuccessInv, PTL DEF Spec

KeepsSuccess(r) ==
  Sole(r) /\ status[JobOf[r]] = "success" /\ status'[JobOf[r]] # "success"
    => pc[r] = "record" /\ JobOf[r] \in Panicking

LEMMA StepKeepsSuccess ==
  ASSUME SuccessInv, [Next]_vars, NEW q \in Runs
  PROVE  KeepsSuccess(q)
<1> SUFFICES ASSUME Sole(q), status[JobOf[q]] = "success", status'[JobOf[q]] # "success"
             PROVE  pc[q] = "record" /\ JobOf[q] \in Panicking
  BY DEF KeepsSuccess
<1>0. TypeInv /\ TypeOK /\ RunInv(q) /\ OutOfReach(q)
  BY DEF SuccessInv, TypeInv, RunInv
<1>1. ~UNCHANGED status
  OBVIOUS
<1>2. ASSUME NEW r \in Runs, r # q,
             Deliver(r) \/ Proceed(r) \/ Insert(r) \/ Delete(r) \/ Deadline(r)
      PROVE  FALSE
  BY <1>0, <1>2, StepSpares DEF Spares
<1>3. CASE Proceed(q)
  <2>1. pc[q] \notin {"start", "succeed"}
    BY <1>0 DEF OutOfReach, Young
  <2>2. ~Start(q) /\ ~StartFails(q) /\ ~Succeed(q)
    BY <2>1 DEF Start, StartFails, Succeed, Step
  <2>3. Record(q)
    BY <1>1, <1>3, <2>2 DEF Proceed, rows, Setup, Boot, Booted, Settle, Settled, BeginTask,
       EndTask, AllTasksDone, ShellEnds, Notify, Recover, NotifyFailure, Standby,
       ClaimEnds, Cleanup
  <2> QED BY <1>0, <2>3 DEF Record, Step, OutOfReach, Recovering
<1>4. CASE HttpCancelWrites
  <2>1. handler \in Runs /\ handler # q
    BY <1>0, <1>4 DEF HttpCancelWrites, OutOfReach, TypeOK
  <2> QED BY <1>0, <1>4, <2>1, SetStatusSpares DEF HttpCancelWrites
<1>5. \A r \in Runs : ~Deliver(r) /\ ~Insert(r) /\ ~Delete(r) /\ ~Deadline(r)
  BY <1>1 DEF Deliver, Insert, Delete, Deadline, rows
<1>6. \A j \in Jobs : ~HttpCancel(j) /\ ~HttpTerminate(j) /\ ~HttpClaim(j)
  BY <1>1 DEF HttpCancel, HttpTerminate, HttpClaim, rows
<1>7. ~Crash /\ ~UNCHANGED vars
  BY <1>1 DEF Crash, vars, rows
<1> QED BY <1>2, <1>3, <1>4, <1>5, <1>6, <1>7 DEF Next

\* A recorded success is final: no late cancel request, no second run, crash
\* or deadline changes the row of a job that was delivered once, and a failure
\* replaces it only where a trigger of that very job panics.
THEOREM SuccessIsFinal == Spec => SuccessSticks
<1>1. SuccessInv /\ [Next]_vars => [\A r \in Runs :
         Sole(r) /\ status[JobOf[r]] = "success" /\ status'[JobOf[r]] # "success"
           => pc[r] = "record" /\ JobOf[r] \in Panicking]_vars
  BY StepKeepsSuccess DEF KeepsSuccess
<1> QED BY <1>1, SuccessInvariant, PTL DEF Spec, SuccessSticks

-----------------------------------------------------------------------------
(* What a trigger reports is what stays recorded.                          *)

Reported(r, s) == \E i \in 1 .. Len(announced[r]) : announced[r][i] = s

LEMMA AppendReports ==
  ASSUME NEW S, NEW f \in Seq(S), NEW x \in S, NEW y,
         \E i \in 1 .. Len(Append(f, x)) : Append(f, x)[i] = y
  PROVE  x = y \/ \E i \in 1 .. Len(f) : f[i] = y
<1> PICK i \in 1 .. Len(Append(f, x)) : Append(f, x)[i] = y
  OBVIOUS
<1>1. CASE i = Len(f) + 1 BY <1>1
<1>2. CASE i \in 1 .. Len(f) BY <1>2
<1>3. Len(Append(f, x)) = Len(f) + 1 /\ Len(f) \in Nat OBVIOUS
<1> QED BY <1>1, <1>2, <1>3

\* Only the two notifying steps report anything, and they report the status in
\* memory without touching the row.
LEMMA ReportsMemory ==
  ASSUME TypeOK, [Next]_vars, NEW q \in Runs
  PROVE  \/ announced'[q] = announced[q]
         \/ Announce(q) /\ UNCHANGED rows
<1> SUFFICES ASSUME announced'[q] # announced[q]
             PROVE  Announce(q) /\ UNCHANGED rows
  OBVIOUS
<1>1. ~UNCHANGED announced
  OBVIOUS
<1>2. PICK r \in Runs : Notify(r) \/ NotifyFailure(r)
  BY <1>1 DEF Next, Proceed, triggers, Deliver, Start, StartFails, Insert, Setup, Boot,
     Booted, Settle, Settled, BeginTask, EndTask, AllTasksDone, ShellEnds, Delete,
     Succeed, Recover, Record, Standby, ClaimEnds, Cleanup, Deadline, HttpCancel,
     HttpCancelWrites, HttpTerminate, HttpClaim, Crash, vars
<1>3. Announce(r)
  BY <1>1, <1>2 DEF Notify, NotifyFailure, ProcessTriggers, TriggersPanic, triggers
<1>4. r = q
  BY <1>3 DEF Announce, TypeOK
<1> QED BY <1>2, <1>3, <1>4 DEF Notify, NotifyFailure

LEMMA NextReported ==
  SuccessInv /\ SuccessReportedIsRecorded /\ [Next]_vars => SuccessReportedIsRecorded'
<1> SUFFICES ASSUME SuccessInv, SuccessReportedIsRecorded, [Next]_vars, NEW q \in Runs,
                    Sole(q), JobOf[q] \notin Panicking, Reported(q, "success")'
             PROVE  status'[JobOf[q]] = "success"
  BY DEF SuccessReportedIsRecorded, Reported, Sole
<1>0. TypeOK /\ RunInv(q)
  BY DEF SuccessInv, TypeInv
<1>1. CASE Reported(q, "success")
  <2>1. status[JobOf[q]] = "success"
    BY <1>1 DEF SuccessReportedIsRecorded, Reported
  <2> QED BY <2>1, StepKeepsSuccess DEF KeepsSuccess
<1>2. CASE ~Reported(q, "success")
  <2>1. Announce(q) /\ UNCHANGED rows
    BY <1>0, <1>2, ReportsMemory DEF Reported
  <2>2. announced'[q] = Append(announced[q], jobStatus[q])
    BY <1>0, <2>1 DEF Announce, TypeOK
  <2>3. jobStatus[q] = "success"
    BY <1>0, <1>2, <2>2, AppendReports DEF Reported, TypeOK
  <2> QED BY <1>0, <2>1, <2>3 DEF RunInv, rows
<1> QED BY <1>1, <1>2

\* A success the triggers of a manifest report is what the row of the job says
\* from then on, for a job that was delivered once and has no trigger that
\* panics, even when a statement of the database fails or the worker crashes.
THEOREM ReportsHold == Spec => []SuccessReportedIsRecorded
<1>1. Init => SuccessReportedIsRecorded
  BY DEF Init, SuccessReportedIsRecorded
<1> QED BY <1>1, NextReported, SuccessInvariant, PTL DEF Spec
=============================================================================
