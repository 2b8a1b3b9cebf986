---------------------------- MODULE JobLifecycle ----------------------------
(***************************************************************************)
(* What the workers promise of the status of a job that is delivered once: *)
(* how its row, the copy its build holds in memory and its reachability    *)
(* for cancel requests change.  Everything else of a build is left out:    *)
(* RunBuildLifecycle shows that RunBuild implements this specification,    *)
(* and JobGroup builds on it.                                              *)
(***************************************************************************)
CONSTANTS
  Jobs,       \* job ids
  Panicking,  \* jobs one of whose triggers may panic while it is processed
  DbMayFail,  \* may a database statement fail?
  MayCrash    \* may a worker die?

ASSUME LifecycleConstants ==
  /\ Panicking \subseteq Jobs
  /\ {DbMayFail, MayCrash} \subseteq BOOLEAN

VARIABLES
  phase,      \* how far the only run of each job has come
  verdict,    \* the outcome it has decided to record
  mem,        \* the status in memory
  status,     \* the status column
  listed      \* the jobs a cancel request finds in the map of a worker

lifecycle == <<phase, verdict, mem, status, listed>>

Failures == {"failed", "timeout", "cancelled"}
Final    == Failures \cup {"success"}
Statuses == Final \cup {"pending", "queued", "running"}
LifePhases == {"queued", "started", "building", "decided", "written", "ended", "lost"}

Init ==
  /\ phase = [j \in Jobs |-> "queued"]
  /\ verdict = [j \in Jobs |-> "running"]
  /\ mem = [j \in Jobs |-> "queued"]
  /\ status \in [Jobs -> {"pending", "queued"}]
  /\ listed = {}

Step(j, p, q) == phase[j] = p /\ phase' = [phase EXCEPT ![j] = q]

Decide(j, s) == verdict' = [verdict EXCEPT ![j] = s]

\* job.SetStatus with its error ignored.
SetStatus(j, s) ==
  \/ status' = [status EXCEPT ![j] = s] /\ mem' = [mem EXCEPT ![j] = s]
  \/ DbMayFail /\ UNCHANGED <<status, mem>>

Start(j) ==
  /\ Step(j, "queued", "started")
  /\ status' = [status EXCEPT ![j] = "running"]
  /\ mem' = [mem EXCEPT ![j] = "running"]
  /\ UNCHANGED <<verdict, listed>>

StartFails(j) ==
  /\ DbMayFail
  /\ Step(j, "queued", "lost")
  /\ status' \in {status, [status EXCEPT ![j] = "running"]}
  /\ UNCHANGED <<verdict, mem, listed>>

Enlist(j) ==
  /\ Step(j, "started", "building")
  /\ listed' = listed \cup {j}
  /\ UNCHANGED <<verdict, mem, status>>

\* A cancel request, also one for a build that has failed: only a success
\* takes the job off the map.
Cancel(j) ==
  /\ j \in listed
  /\ SetStatus(j, "cancelled")
  /\ UNCHANGED <<phase, verdict, listed>>

Succeed(j) ==
  /\ Step(j, "building", "decided")
  /\ Decide(j, "success")
  /\ listed' = listed \ {j}
  /\ UNCHANGED <<mem, status>>

Fail(j) ==
  /\ Step(j, "building", "decided")
  /\ \E s \in Failures : Decide(j, s)
  /\ UNCHANGED <<mem, status, listed>>

Record(j) ==
  /\ Step(j, "decided", "written")
  /\ SetStatus(j, verdict[j])
  /\ UNCHANGED <<verdict, listed>>

\* The triggers have been processed.
End(j) ==
  /\ Step(j, "written", "ended")
  /\ UNCHANGED <<verdict, mem, status, listed>>

\* A trigger panics after the success was recorded.  The context has ended
\* by then, so that the outcome recorded next is never "failed".
Relapse(j) ==
  /\ j \in Panicking
  /\ verdict[j] = "success"
  /\ Step(j, "written", "decided")
  /\ \E s \in {"timeout", "cancelled"} : Decide(j, s)
  /\ UNCHANGED <<mem, status, listed>>

\* A trigger panics after a failure was recorded, or there is no log for it.
Escape(j) ==
  /\ verdict[j] \in Failures
  /\ Step(j, "written", "lost")
  /\ UNCHANGED <<verdict, mem, status, listed>>

\* A worker dies: its builds are lost, and its map is empty when it is back.
Crash ==
  /\ MayCrash
  /\ \E lost \in SUBSET Jobs, off \in SUBSET listed :
       /\ phase' = [j \in Jobs |-> IF j \in lost THEN "lost" ELSE phase[j]]
       /\ listed' = listed \ (lost \cup off)
  /\ UNCHANGED <<verdict, mem, status>>

Next ==
  \/ \E j \in Jobs : \/ Start(j) \/ StartFails(j) \/ Enlist(j) \/ Cancel(j)
                     \/ Succeed(j) \/ Fail(j) \/ Record(j)
                     \/ End(j) \/ Relapse(j) \/ Escape(j)
  \/ Crash

Spec == Init /\ [][Next]_lifecycle
=============================================================================
