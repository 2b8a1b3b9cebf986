-------------------------- MODULE LifecycleProofs ---------------------------
(***************************************************************************)
(* Proof that RunBuild implements JobLifecycle when every job is delivered *)
(* once: every step of a worker is a step of the life cycle of one job, a  *)
(* crash of the life cycle, or changes nothing of it.                      *)
(***************************************************************************)
EXTENDS RunBuildLifecycle, OutcomeProofs

-----------------------------------------------------------------------------
(* What the verdicts and the mutex guarantee at each phase.                *)

\* A failure is decided on before it is recorded; what leads from a success to
\* the deferred function is a panic, after the context has been cancelled.
OutcomeInv(r) ==
  /\ pc[r] \in {"record", "notifyFailure"} => verdict[r] \in Failures
  /\ pc[r] = "notify" => ~Alive(r)
  /\ pc[r] = "recover" /\ verdict[r] = "success" => ~Alive(r) /\ JobOf[r] \in Panicking

\* A cancel handler holds the mutex, so that the entry it found stays.
HandlerInv == handler # NoRun => jobs[JobOf[handler]] = handler

LifeInv == SuccessInv /\ HandlerInv /\ \A r \in Runs : OutcomeInv(r)

LEMMA OwnOutcomeInv ==
  ASSUME SuccessInv, NEW r \in Runs, OutcomeInv(r),
         Deliver(r) \/ Insert(r) \/ Delete(r) \/ Deadline(r) \/ Proceed(r)
  PROVE  OutcomeInv(r)'
<1>0. TypeInv /\ RunInv(r) /\ VerdictOpen
  BY DEF SuccessInv, MapInv
<1> USE <1>0 DEF TypeInv, TypeOK, OutcomeInv, Alive, Step, Goto, Panic, requests
<1>1. CASE Recover(r)
  <2>1. verdict' = [verdict EXCEPT ![r] = IF err[r] = "deadline" THEN "timeout"
                       ELSE IF err[r] = "canceled" THEN "cancelled" ELSE "failed"]
    BY <1>1 DEF Recover
  <2> QED BY <1>1, <2>1 DEF Recover, Failures
<1>2. CASE Succeed(r)
  BY <1>2 DEF Succeed, CancelContext
<1>3. CASE Notify(r)
  <2>1. pc'[r] = "recover" => JobOf[r] \in Panicking
    BY <1>3 DEF Notify, TriggersPanic, RunInv, Succeeding
  <2> QED BY <1>3, <2>1 DEF Notify
<1>4. CASE Deadline(r)
  BY <1>4 DEF Deadline
\* The panics of the body of RunBuild: no outcome has been decided on.
<1>5. pc[r] \in Building => verdict[r] = "running"
  BY DEF VerdictOpen
<1>6. CASE Setup(r) \/ Boot(r) \/ Booted(r) \/ Settle(r) \/ Settled(r) \/ BeginTask(r) \/ EndTask(r)
  <2>1. pc[r] \in Building /\ UNCHANGED verdict /\ pc'[r] \in Building \cup {"recover"}
    BY <1>6 DEF Setup, Boot, Booted, Settle, Settled, BeginTask, EndTask, Building
  <2> QED BY <1>5, <2>1 DEF Building
<1>7. CASE AllTasksDone(r) \/ ShellEnds(r) \/ Delete(r) \/ Deliver(r) \/ Insert(r)
  BY <1>7 DEF AllTasksDone, ShellEnds, Delete, Deliver, Insert
<1>8. CASE Start(r) \/ StartFails(r) \/ Record(r) \/ NotifyFailure(r)
  BY <1>8 DEF Start, StartFails, Record, NotifyFailure
<1>9. CASE Standby(r) \/ ClaimEnds(r) \/ Cleanup(r)
  BY <1>9 DEF Standby, ClaimEnds, Cleanup
<1> QED BY <1>1, <1>2, <1>3, <1>4, <1>6, <1>7, <1>8, <1>9, Zenon DEF Proceed

LEMMA NextHandlerInv == SuccessInv /\ HandlerInv /\ [Next]_vars => HandlerInv'
<1> SUFFICES ASSUME SuccessInv, HandlerInv, [Next]_vars PROVE HandlerInv'
  OBVIOUS
<1>0. TypeOK /\ MapNames
  BY DEF SuccessInv, TypeInv, MapInv
<1> USE DEF HandlerInv, shared
<1>1. ASSUME NEW r \in Runs, Insert(r) \/ Delete(r) PROVE HandlerInv'
  BY <1>1 DEF Insert, Delete
<1>2. ASSUME NEW r \in Runs, Deliver(r) \/ Deadline(r) PROVE UNCHANGED <<handler, jobs>>
  BY <1>2 DEF Deliver, Deadline
<1>3. ASSUME NEW r \in Runs, Proceed(r) PROVE UNCHANGED <<handler, jobs>>
  BY <1>3 DEF Proceed, Start, StartFails, Setup, Boot, Booted, Settle, Settled, BeginTask,
     EndTask, AllTasksDone, ShellEnds, Succeed, Notify, Recover, Record, NotifyFailure,
     Standby, ClaimEnds, Cleanup
<1>4. ASSUME NEW j \in Jobs, HttpCancel(j) PROVE HandlerInv'
  BY <1>0, <1>4 DEF HttpCancel, MapNames
<1>5. ASSUME NEW j \in Jobs, HttpTerminate(j) \/ HttpClaim(j) PROVE UNCHANGED <<handler, jobs>>
  BY <1>5 DEF HttpTerminate, HttpClaim
<1>6. CASE HttpCancelWrites \/ Crash
  BY <1>6 DEF HttpCancelWrites, Crash
<1>7. CASE UNCHANGED vars
  BY <1>7 DEF vars
<1> QED BY <1>1, <1>2, <1>3, <1>4, <1>5, <1>6, <1>7 DEF Next

LEMMA NextLifeInv == LifeInv /\ [Next]_vars => LifeInv'
<1> SUFFICES ASSUME LifeInv, [Next]_vars, NEW q \in Runs PROVE OutcomeInv(q)'
  BY NextSuccessInv, NextHandlerInv DEF LifeInv
<1>0. SuccessInv /\ TypeInv /\ OutcomeInv(q)
  BY DEF LifeInv, SuccessInv
<1>1. ASSUME NEW r \in Runs,
             Deliver(r) \/ Proceed(r) \/ Insert(r) \/ Delete(r) \/ Deadline(r)
      PROVE  OutcomeInv(q)'
  <2>1. CASE r = q
    BY <1>0, <1>1, <2>1, OwnOutcomeInv
  <2>2. CASE r # q
    BY <1>0, <1>1, <2>2, StepSpares, OthersErr DEF Spares, OutcomeInv, Alive
  <2> QED BY <2>1, <2>2
<1>2. ASSUME NEW j \in Jobs, HttpCancel(j) \/ HttpTerminate(j) \/ HttpClaim(j)
      PROVE  OutcomeInv(q)'
  BY <1>0, <1>2 DEF HttpCancel, HttpTerminate, HttpClaim, CancelContext, OutcomeInv, Alive,
     TypeInv, TypeOK
<1>3. CASE HttpCancelWrites
  BY <1>0, <1>3 DEF HttpCancelWrites, OutcomeInv, Alive, requests
<1>4. CASE Crash
  BY <1>0, <1>4 DEF Crash, OutcomeInv, Alive, requests, InProgress, Succeeding, Recovering
<1>5. CASE UNCHANGED vars
  BY <1>0, <1>5 DEF vars, OutcomeInv, Alive, requests
<1> QED BY <1>1, <1>2, <1>3, <1>4, <1>5 DEF Next

LEMMA LifeInvariant == Spec => []LifeInv
<1>1. Init => LifeInv
  BY InitSuccessInv DEF Init, LifeInv, HandlerInv, OutcomeInv
<1> QED BY <1>1, NextLifeInv, PTL DEF Spec

-----------------------------------------------------------------------------
(* The mapping.                                                            *)

\* Every job is delivered, and once.
DeliveredOnce ==
  \A j \in Jobs : \E r \in Runs : JobOf[r] = j /\ \A q \in Runs : JobOf[q] = j => q = r

LEMMA RunOfJob ==
  ASSUME DeliveredOnce
  PROVE  /\ \A j \in Jobs : RunOf(j) \in Runs /\ JobOf[RunOf(j)] = j
         /\ \A r \in Runs : JobOf[r] \in Jobs /\ RunOf(JobOf[r]) = r /\ Sole(r)
<1>1. \A j \in Jobs : RunOf(j) \in Runs /\ JobOf[RunOf(j)] = j
  BY DEF DeliveredOnce, RunOf
<1>2. \A r \in Runs : JobOf[r] \in Jobs /\ Sole(r)
  BY ConstantsOK DEF DeliveredOnce, Sole
<1>3. \A r \in Runs : RunOf(JobOf[r]) = r
  BY <1>1, <1>2, ConstantsOK DEF Sole
<1> QED BY <1>1, <1>2, <1>3

\* The phase of the life cycle, spelled out.
LEMMA LifePhaseIs ==
  ASSUME NEW p, NEW v
  PROVE  /\ p \in {"queued", "start"} => LifeOf(p, v) = "queued"
         /\ p = "insert" => LifeOf(p, v) = "started"
         /\ p \in Building => LifeOf(p, v) = "building"
         /\ p = "recover" /\ v # "success" => LifeOf(p, v) = "building"
         /\ p = "recover" /\ v = "success" => LifeOf(p, v) = "written"
         /\ p \in {"succeed", "record"} => LifeOf(p, v) = "decided"
         /\ p \in {"notify", "notifyFailure"} => LifeOf(p, v) = "written"
         /\ p \in {"standby", "claimed", "cleanup", "done"} => LifeOf(p, v) = "ended"
         /\ p \in {"escaped", "lost"} => LifeOf(p, v) = "lost"
  BY DEF LifeOf, Building

\* A step of a run changes the variables of the life cycle for its own job only.
LEMMA MappedStep ==
  ASSUME DeliveredOnce, TypeInv, NEW r \in Runs,
         Deliver(r) \/ Insert(r) \/ Delete(r) \/ Deadline(r) \/ Proceed(r)
  PROVE  /\ phaseOf' = [phaseOf EXCEPT ![JobOf[r]] = LifeOf(pc'[r], verdict'[r])]
         /\ verdictOf' = [verdictOf EXCEPT ![JobOf[r]] = verdict'[r]]
         /\ memOf' = [memOf EXCEPT ![JobOf[r]] = jobStatus'[r]]
<1>1. \A j \in Jobs : RunOf(j) # r => Spares(RunOf(j))
  BY StepSpares, RunOfJob
<1>2. \A j \in Jobs : RunOf(j) = r <=> j = JobOf[r]
  BY RunOfJob
<1>3. \A j \in Jobs : /\ RunOf(j)' = RunOf(j)
                      /\ LifePhase(RunOf(j))' = LifeOf(pc'[RunOf(j)], verdict'[RunOf(j)])
                      /\ LifePhase(RunOf(j)) = LifeOf(pc[RunOf(j)], verdict[RunOf(j)])
  BY DEF RunOf, LifePhase
<1>4. JobOf[r] \in Jobs
  BY RunOfJob
<1>5. phaseOf' = [phaseOf EXCEPT ![JobOf[r]] = LifeOf(pc'[r], verdict'[r])]
  <2>1. \A j \in Jobs : LifePhase(RunOf(j))' =
          IF j = JobOf[r] THEN LifeOf(pc'[r], verdict'[r]) ELSE LifePhase(RunOf(j))
    BY <1>1, <1>2, <1>3 DEF Spares
  <2> QED BY <1>4, <2>1 DEF phaseOf
<1>6. verdictOf' = [verdictOf EXCEPT ![JobOf[r]] = verdict'[r]]
  <2>1. \A j \in Jobs : verdict'[RunOf(j)] = IF j = JobOf[r] THEN verdict'[r] ELSE verdict[RunOf(j)]
    BY <1>1, <1>2 DEF Spares
  <2> QED BY <1>3, <1>4, <2>1 DEF verdictOf
<1>7. memOf' = [memOf EXCEPT ![JobOf[r]] = jobStatus'[r]]
  <2>1. \A j \in Jobs : jobStatus'[RunOf(j)] = IF j = JobOf[r] THEN jobStatus'[r] ELSE jobStatus[RunOf(j)]
    BY <1>1, <1>2 DEF Spares
  <2> QED BY <1>3, <1>4, <2>1 DEF memOf
<1> QED BY <1>5, <1>6, <1>7

-----------------------------------------------------------------------------
(* The steps.                                                              *)

\* The entries of the map that the life cycle sees: a run that neither inserts
\* nor deletes leaves them as they are.
LEMMA MapOfRun ==
  ASSUME DeliveredOnce, TypeInv, NEW r \in Runs
  PROVE  /\ Insert(r) => listedOf' = listedOf \cup {JobOf[r]}
         /\ Delete(r) => listedOf' = listedOf \ {JobOf[r]}
         /\ UNCHANGED jobs => listedOf' = listedOf
<1>1. JobOf[r] \in Jobs /\ r # NoRun /\ jobs \in [Jobs -> Runs \cup {NoRun}]
  BY ConstantsOK DEF TypeInv, TypeOK
<1>2. Insert(r) => listedOf' = listedOf \cup {JobOf[r]}
  <2> SUFFICES ASSUME Insert(r) PROVE listedOf' = listedOf \cup {JobOf[r]}
    OBVIOUS
  <2>1. \A j \in Jobs : jobs'[j] = IF j = JobOf[r] THEN r ELSE jobs[j]
    BY <1>1 DEF Insert
  <2> QED BY <1>1, <2>1 DEF listedOf
<1>3. Delete(r) => listedOf' = listedOf \ {JobOf[r]}
  <2> SUFFICES ASSUME Delete(r) PROVE listedOf' = listedOf \ {JobOf[r]}
    OBVIOUS
  <2>1. \A j \in Jobs : jobs'[j] = IF j = JobOf[r] THEN NoRun ELSE jobs[j]
    BY <1>1 DEF Delete
  <2> QED BY <1>1, <2>1 DEF listedOf
<1> QED BY <1>2, <1>3 DEF listedOf

LEMMA StepMaps ==
  ASSUME DeliveredOnce, LifeInv, NEW r \in Runs,
         Deliver(r) \/ Insert(r) \/ Delete(r) \/ Deadline(r) \/ Proceed(r)
  PROVE  [Lifecycle!Next]_(Lifecycle!lifecycle)
<1> DEFINE j == JobOf[r]
<1>0. /\ j \in Jobs /\ RunOf(j) = r /\ TypeInv /\ TypeOK /\ RunInv(r) /\ OutcomeInv(r)
      /\ verdict \in [Runs -> Final \cup {"running"}] /\ jobStatus \in [Runs -> Statuses]
  BY RunOfJob DEF LifeInv, SuccessInv, TypeInv, TypeOK
<1>1. /\ phaseOf' = [phaseOf EXCEPT ![j] = LifeOf(pc'[r], verdict'[r])]
      /\ verdictOf' = [verdictOf EXCEPT ![j] = verdict'[r]]
      /\ memOf' = [memOf EXCEPT ![j] = jobStatus'[r]]
  BY <1>0, MappedStep
<1>2. /\ phaseOf[j] = LifeOf(pc[r], verdict[r]) /\ verdictOf[j] = verdict[r] /\ memOf[j] = jobStatus[r]
      /\ phaseOf = [phaseOf EXCEPT ![j] = phaseOf[j]]
      /\ verdictOf = [verdictOf EXCEPT ![j] = verdictOf[j]]
      /\ memOf = [memOf EXCEPT ![j] = memOf[j]]
  BY <1>0 DEF phaseOf, verdictOf, memOf, LifePhase
<1>3. /\ verdict'[r] = verdict[r] => verdictOf' = verdictOf
      /\ jobStatus'[r] = jobStatus[r] => memOf' = memOf
      /\ LifeOf(pc'[r], verdict'[r]) = LifeOf(pc[r], verdict[r]) => phaseOf' = phaseOf
      /\ UNCHANGED jobs => listedOf' = listedOf
  BY <1>0, <1>1, <1>2, MapOfRun
<1>4. ASSUME Lifecycle!Start(j) \/ Lifecycle!StartFails(j) \/ Lifecycle!Enlist(j) \/ Lifecycle!Succeed(j)
               \/ Lifecycle!Fail(j) \/ Lifecycle!Record(j) \/ Lifecycle!End(j)
               \/ Lifecycle!Relapse(j) \/ Lifecycle!Escape(j)
      PROVE  Lifecycle!Next
  BY <1>0, <1>4 DEF Lifecycle!Next
<1>5. ASSUME UNCHANGED <<jobs, status, jobStatus, verdict>>,
             LifeOf(pc'[r], verdict[r]) = LifeOf(pc[r], verdict[r])
      PROVE  UNCHANGED Lifecycle!lifecycle
  BY <1>3, <1>5 DEF Lifecycle!lifecycle
<1> HIDE DEF j
<1>6. pc'[r] \in Phases
  BY <1>0, NextTypeInv DEF TypeInv, TypeOK, Next
<1>7. pc[r] \in Building => verdict[r] = "running"
  BY DEF LifeInv, SuccessInv, MapInv, VerdictOpen
<1> USE <1>0 DEF TypeOK, Step, Goto, Panic, rows, shared
<1>8. CASE Start(r)
  <2>1. /\ LifeOf(pc[r], verdict[r]) = "queued" /\ LifeOf(pc'[r], verdict'[r]) = "started"
        /\ UNCHANGED <<jobs, verdict>> /\ jobStatus'[r] = "running"
        /\ status' = [status EXCEPT ![j] = "running"]
    BY <1>8, LifePhaseIs DEF Start, j
  <2>2. Lifecycle!Start(j)
    BY <1>1, <1>2, <1>3, <2>1 DEF Lifecycle!Start, Lifecycle!Step
  <2> QED BY <1>4, <2>2
<1>9. CASE StartFails(r)
  <2>1. /\ LifeOf(pc[r], verdict[r]) = "queued" /\ LifeOf(pc'[r], verdict'[r]) = "lost"
        /\ UNCHANGED <<jobs, verdict, jobStatus>> /\ DbMayFail
        /\ status' \in {status, [status EXCEPT ![j] = "running"]}
    BY <1>9, LifePhaseIs DEF StartFails, j
  <2>2. Lifecycle!StartFails(j)
    BY <1>1, <1>2, <1>3, <2>1 DEF Lifecycle!StartFails, Lifecycle!Step
  <2> QED BY <1>4, <2>2
<1>10. CASE Insert(r)
  <2>1. /\ LifeOf(pc[r], verdict[r]) = "started" /\ LifeOf(pc'[r], verdict'[r]) = "building"
        /\ UNCHANGED <<verdict, jobStatus, status>>
    BY <1>10, LifePhaseIs DEF Insert, Building
  <2>2. listedOf' = listedOf \cup {j}
    BY <1>10, MapOfRun DEF j
  <2>3. Lifecycle!Enlist(j)
    BY <1>1, <1>2, <1>3, <2>1, <2>2 DEF Lifecycle!Enlist, Lifecycle!Step
  <2> QED BY <1>4, <2>3
<1>11. CASE Delete(r)
  <2>1. /\ LifeOf(pc[r], verdict[r]) = "building" /\ LifeOf(pc'[r], verdict'[r]) = "decided"
        /\ UNCHANGED <<jobStatus, status>> /\ verdict'[r] = "success"
    BY <1>11, LifePhaseIs DEF Delete, Building
  <2>2. listedOf' = listedOf \ {j}
    BY <1>11, MapOfRun DEF j
  <2>3. Lifecycle!Succeed(j)
    BY <1>1, <1>2, <1>3, <2>1, <2>2 DEF Lifecycle!Succeed, Lifecycle!Step, Lifecycle!Decide
  <2> QED BY <1>4, <2>3
<1>12. CASE Succeed(r) \/ Record(r)
  <2>1. /\ LifeOf(pc[r], verdict[r]) = "decided" /\ LifeOf(pc'[r], verdict'[r]) = "written"
        /\ UNCHANGED <<jobs, verdict>>
    BY <1>12, LifePhaseIs DEF Succeed, Record
  <2>2. SetStatus(r, verdict[r])
    BY <1>12 DEF Succeed, Record, RunInv, Succeeding
  <2>3. \/ status' = [status EXCEPT ![j] = verdictOf[j]] /\ memOf' = [memOf EXCEPT ![j] = verdictOf[j]]
        \/ DbMayFail /\ status' = status /\ memOf' = memOf
    BY <1>1, <1>2, <1>3, <2>2 DEF SetStatus, j
  <2>4. Lifecycle!Record(j)
    BY <1>1, <1>2, <1>3, <2>1, <2>3 DEF Lifecycle!Record, Lifecycle!Step, Lifecycle!SetStatus
  <2> QED BY <1>4, <2>4
<1>13. CASE (Notify(r) \/ NotifyFailure(r)) /\ pc'[r] \in {"cleanup", "standby"}
  <2>1. /\ LifeOf(pc[r], verdict[r]) = "written" /\ LifeOf(pc'[r], verdict'[r]) = "ended"
        /\ UNCHANGED <<jobs, verdict, status, jobStatus>>
    BY <1>13, LifePhaseIs DEF Notify, NotifyFailure
  <2>2. Lifecycle!End(j)
    BY <1>1, <1>2, <1>3, <2>1 DEF Lifecycle!End, Lifecycle!Step
  <2> QED BY <1>4, <2>2
<1>14. CASE Notify(r) /\ pc'[r] = "recover"
  <2>1. pc[r] = "notify" /\ verdict[r] = "success" /\ UNCHANGED <<jobs, verdict, status, jobStatus>>
    BY <1>14 DEF Notify, RunInv, Succeeding
  <2>2. LifeOf(pc'[r], verdict[r]) = LifeOf(pc[r], verdict[r])
    BY <1>14, <2>1, LifePhaseIs
  <2> QED BY <1>5, <2>1, <2>2
<1>15. CASE NotifyFailure(r) /\ pc'[r] = "escaped"
  <2>1. /\ LifeOf(pc[r], verdict[r]) = "written" /\ LifeOf(pc'[r], verdict'[r]) = "lost"
        /\ UNCHANGED <<jobs, verdict, status, jobStatus>> /\ verdict[r] \in Failures
    BY <1>15, LifePhaseIs DEF NotifyFailure, OutcomeInv
  <2>2. Lifecycle!Escape(j)
    BY <1>1, <1>2, <1>3, <2>1 DEF Lifecycle!Escape, Lifecycle!Step, Lifecycle!Failures, Failures
  <2> QED BY <1>4, <2>2
<1>16. CASE Recover(r)
  <2>1. /\ pc[r] = "recover" /\ pc'[r] = "record" /\ UNCHANGED <<jobs, status, jobStatus>>
        /\ verdict'[r] = IF err[r] = "deadline" THEN "timeout"
                           ELSE IF err[r] = "canceled" THEN "cancelled" ELSE "failed"
    BY <1>16 DEF Recover
  <2>2. LifeOf(pc'[r], verdict'[r]) = "decided"
    BY <2>1, LifePhaseIs
  <2>3. CASE verdict[r] # "success"
    <3>1. LifeOf(pc[r], verdict[r]) = "building"
      BY <2>1, <2>3, LifePhaseIs
    <3>2. verdict'[r] \in Lifecycle!Failures
      BY <2>1 DEF Lifecycle!Failures
    <3>3. Lifecycle!Fail(j)
      BY <1>1, <1>2, <1>3, <2>1, <2>2, <3>1, <3>2 DEF Lifecycle!Fail, Lifecycle!Step, Lifecycle!Decide
    <3> QED BY <1>4, <3>3
  <2>4. CASE verdict[r] = "success"
    <3>1. LifeOf(pc[r], verdict[r]) = "written"
      BY <2>1, <2>4, LifePhaseIs
    <3>2. j \in Panicking /\ err[r] \in {"deadline", "canceled"}
      BY <2>1, <2>4 DEF OutcomeInv, Alive, j
    <3>3. verdict'[r] \in {"timeout", "cancelled"}
      BY <2>1, <3>2
    <3>4. Lifecycle!Relapse(j)
      BY <1>1, <1>2, <1>3, <2>1, <2>2, <2>4, <3>1, <3>2, <3>3
         DEF Lifecycle!Relapse, Lifecycle!Step, Lifecycle!Decide
    <3> QED BY <1>4, <3>4
  <2> QED BY <2>3, <2>4
<1>17. CASE Setup(r) \/ Boot(r) \/ Booted(r) \/ Settle(r) \/ Settled(r) \/ BeginTask(r) \/ EndTask(r)
              \/ AllTasksDone(r) \/ ShellEnds(r)
  <2>1. /\ UNCHANGED <<jobs, status, jobStatus, verdict>>
        /\ pc[r] \in Building /\ pc'[r] \in Building \cup {"recover"}
    <3> USE DEF Building
    <3>1. CASE Setup(r) \/ Boot(r) \/ Booted(r)
      BY <3>1 DEF Setup, Boot, Booted
    <3>2. CASE Settle(r) \/ Settled(r) \/ BeginTask(r)
      BY <3>2 DEF Settle, Settled, BeginTask
    <3>3. CASE EndTask(r) \/ AllTasksDone(r) \/ ShellEnds(r)
      BY <3>3 DEF EndTask, AllTasksDone, ShellEnds
    <3> QED BY <1>17, <3>1, <3>2, <3>3
  <2>2. LifeOf(pc'[r], verdict[r]) = LifeOf(pc[r], verdict[r])
    BY <1>7, <2>1, LifePhaseIs
  <2> QED BY <1>5, <2>1, <2>2
<1>18. CASE Standby(r) \/ ClaimEnds(r) \/ Cleanup(r) \/ Deliver(r)
  <2>1. /\ UNCHANGED <<jobs, status, jobStatus, verdict>>
        /\ \/ {pc[r], pc'[r]} \subseteq {"standby", "claimed", "cleanup", "done"}
           \/ {pc[r], pc'[r]} \subseteq {"queued", "start"}
    BY <1>18 DEF Standby, ClaimEnds, Cleanup, Deliver
  <2>2. LifeOf(pc'[r], verdict[r]) = LifeOf(pc[r], verdict[r])
    BY <2>1, LifePhaseIs
  <2> QED BY <1>5, <2>1, <2>2
<1>19. CASE Deadline(r)
  BY <1>5, <1>19 DEF Deadline
<1>20. /\ Notify(r) => pc'[r] \in {"cleanup", "recover"}
       /\ NotifyFailure(r) => pc'[r] \in {"cleanup", "standby", "escaped"}
  BY DEF Notify, NotifyFailure
<1> QED BY <1>8, <1>9, <1>10, <1>11, <1>12, <1>13, <1>14, <1>15, <1>16, <1>17, <1>18, <1>19, <1>20,
           Zenon DEF Proceed

\* A crash of the process is one of the life cycle, for the builds that were
\* under way and for the whole map.
LEMMA CrashMaps ==
  ASSUME DeliveredOnce, LifeInv, Crash
  PROVE  Lifecycle!Crash
<1> DEFINE lost == {j \in Jobs : pc[RunOf(j)] \in InProgress}
<1>0. TypeOK
  BY DEF LifeInv, SuccessInv, TypeInv
<1>1. MaxCrashes > 0 /\ UNCHANGED <<verdict, status, jobStatus>>
  BY <1>0, ConstantsOK DEF Crash, TypeOK, rows
<1>2. verdictOf' = verdictOf /\ memOf' = memOf
  BY <1>1 DEF verdictOf, memOf, RunOf
<1>3. listedOf' = {}
  BY DEF Crash, listedOf
<1>4. listedOf' = listedOf \ (lost \cup listedOf)
  BY <1>3
<1>5. phaseOf' = [j \in Jobs |-> IF j \in lost THEN "lost" ELSE phaseOf[j]]
  <2>1. ASSUME NEW j \in Jobs
        PROVE  LifePhase(RunOf(j))' = IF j \in lost THEN "lost" ELSE phaseOf[j]
    <3>1. RunOf(j) \in Runs /\ RunOf(j)' = RunOf(j)
      BY RunOfJob DEF RunOf
    <3>2. pc'[RunOf(j)] = IF j \in lost THEN "lost" ELSE pc[RunOf(j)]
      BY <3>1 DEF Crash
    <3>3. LifePhase(RunOf(j))' = LifeOf(pc'[RunOf(j)], verdict[RunOf(j)])
      BY <1>1, <3>1 DEF LifePhase
    <3>4. phaseOf[j] = LifeOf(pc[RunOf(j)], verdict[RunOf(j)])
      BY DEF phaseOf, LifePhase
    <3>5. LifeOf("lost", verdict[RunOf(j)]) = "lost"
      BY LifePhaseIs
    <3> QED BY <3>2, <3>3, <3>4, <3>5
  <2> QED BY <2>1 DEF phaseOf
<1>6. lost \in SUBSET Jobs /\ listedOf \in SUBSET listedOf
  OBVIOUS
<1> QED BY <1>1, <1>2, <1>4, <1>5, <1>6 DEF Lifecycle!Crash

\* The second half of a cancel request.
LEMMA CancelMaps ==
  ASSUME DeliveredOnce, LifeInv, HttpCancelWrites
  PROVE  Lifecycle!Next
<1> DEFINE j == JobOf[handler]
<1>1. /\ handler \in Runs /\ j \in Jobs /\ RunOf(j) = handler
      /\ \A k \in Jobs : RunOf(k) = handler <=> k = j
  BY RunOfJob DEF HttpCancelWrites, LifeInv, SuccessInv, TypeInv, TypeOK
<1>2. UNCHANGED <<pc, verdict, jobs>> /\ SetStatus(handler, "cancelled")
  BY DEF HttpCancelWrites
<1>3. j \in listedOf
  BY <1>1 DEF HttpCancelWrites, LifeInv, HandlerInv, listedOf
<1>4. phaseOf' = phaseOf /\ verdictOf' = verdictOf /\ listedOf' = listedOf
  BY <1>2 DEF phaseOf, verdictOf, listedOf, RunOf, LifePhase
<1>5. jobStatus' = [jobStatus EXCEPT ![handler] = "cancelled"]
        => memOf' = [memOf EXCEPT ![j] = "cancelled"]
  <2> SUFFICES ASSUME jobStatus' = [jobStatus EXCEPT ![handler] = "cancelled"]
               PROVE  memOf' = [memOf EXCEPT ![j] = "cancelled"]
    OBVIOUS
  <2>1. jobStatus \in [Runs -> Statuses]
    BY DEF LifeInv, SuccessInv, TypeInv, TypeOK
  <2>2. \A k \in Jobs : RunOf(k) \in Runs /\ RunOf(k)' = RunOf(k)
    BY RunOfJob DEF RunOf
  <2>3. \A k \in Jobs : jobStatus'[RunOf(k)] = IF k = j THEN "cancelled" ELSE jobStatus[RunOf(k)]
    BY <1>1, <2>1, <2>2
  <2> QED BY <1>1, <2>2, <2>3 DEF memOf
<1>6. jobStatus' = jobStatus => memOf' = memOf
  BY DEF memOf, RunOf
<1>7. Lifecycle!SetStatus(j, "cancelled")
  BY <1>2, <1>5, <1>6 DEF SetStatus, rows, Lifecycle!SetStatus
<1>8. Lifecycle!Cancel(j)
  BY <1>3, <1>4, <1>7 DEF Lifecycle!Cancel
<1> QED BY <1>1, <1>8 DEF Lifecycle!Next

LEMMA NextMaps ==
  ASSUME DeliveredOnce, LifeInv, [Next]_vars
  PROVE  [Lifecycle!Next]_(Lifecycle!lifecycle)
<1>1. ASSUME UNCHANGED <<pc, verdict, jobStatus, status, jobs>>
      PROVE  UNCHANGED Lifecycle!lifecycle
  BY <1>1 DEF Lifecycle!lifecycle, phaseOf, verdictOf, memOf, listedOf, RunOf, LifePhase
<1>2. ASSUME NEW j \in Jobs, HttpCancel(j) \/ HttpTerminate(j) \/ HttpClaim(j)
      PROVE  UNCHANGED <<pc, verdict, jobStatus, status, jobs>>
  BY <1>2 DEF HttpCancel, HttpTerminate, HttpClaim, rows, shared
<1>3. CASE UNCHANGED vars
  BY <1>1, <1>3 DEF vars, rows, shared
<1>4. CASE Crash
  BY <1>4, CrashMaps DEF Lifecycle!Next
<1> QED BY <1>1, <1>2, <1>3, <1>4, StepMaps, CancelMaps DEF Next

LEMMA InitMaps ==
  ASSUME DeliveredOnce, Init
  PROVE  Lifecycle!Init
<1>1. \A j \in Jobs : RunOf(j) \in Runs
  BY RunOfJob
<1>2. phaseOf = [j \in Jobs |-> "queued"]
  BY <1>1, LifePhaseIs DEF Init, phaseOf, LifePhase
<1>3. verdictOf = [j \in Jobs |-> "running"] /\ memOf = [j \in Jobs |-> "queued"]
  BY <1>1 DEF Init, verdictOf, memOf
<1>4. listedOf = {}
  BY DEF Init, listedOf
<1> QED BY <1>2, <1>3, <1>4 DEF Init, Lifecycle!Init

\* The life cycle that JobGroup is built on is what workers make of a job that
\* is delivered once, for any number of jobs, worker goroutines and tasks and
\* whatever fails: see ImplementsLifecycle.
THEOREM WorkerImplementsLifecycle ==
  ASSUME DeliveredOnce
  PROVE  Spec => ImplementsLifecycle
<1>1. Init => Lifecycle!Init
  BY InitMaps
<1>2. LifeInv /\ [Next]_vars => [Lifecycle!Next]_(Lifecycle!lifecycle)
  BY NextMaps
<1> QED BY <1>1, <1>2, LifeInvariant, PTL DEF Spec, ImplementsLifecycle, Lifecycle!Spec
=============================================================================
