------------------------------ MODULE TaskList ------------------------------
(***************************************************************************)
(* What a reader of the task table may count on: how the row of each task  *)
(* of a job changes, and how the rows relate to the scripts that were run, *)
(* whatever becomes of the build, its VM, the worker and the database.     *)
(* Statements that fail are rows that are not written.                     *)
(***************************************************************************)
EXTENDS Naturals

CONSTANTS
  Jobs,
  NTasks,  \* the number of tasks of each job's manifest
  Shared   \* the jobs that were queued more than once

VARIABLES
  row,      \* the status column of the task table
  begun,    \* the tasks whose script was started
  done,     \* those that exited with status 0
  skipping, \* the jobs the rest of whose list is skipped
  stopped   \* the jobs whose list nobody works on any more

list == <<row, begun, done, skipping, stopped>>

Tasks == UNION {{j} \X (1 .. NTasks[j]) : j \in Jobs}

Init ==
  /\ row = [t \in Tasks |-> "pending"]
  /\ begun = {}
  /\ done = {}
  /\ skipping = {}
  /\ stopped = {}

\* The deliveries of a job all try its first task.
Contested(t) == t[1] \in Shared /\ t[2] = 1

Write(t, before, s) ==
  /\ Contested(t) \/ row[t] \in before
  /\ row' = [row EXCEPT ![t] = s]

\* It is the turn of a task when all before it have exited with status 0.
Turn(t) ==
  /\ t[1] \notin skipping \cup stopped
  /\ \A m \in 1 .. t[2] - 1 : <<t[1], m>> \in done

Announce(t) ==
  /\ Turn(t) /\ t \notin begun
  /\ Write(t, {"pending"}, "running")
  /\ UNCHANGED <<begun, done, skipping, stopped>>

Run(t) ==
  /\ Turn(t) /\ t \notin begun
  /\ Contested(t) \/ row[t] = "running"
  /\ begun' = begun \cup {t}
  /\ UNCHANGED <<row, done, skipping, stopped>>

Exit(t) ==
  /\ Turn(t) /\ t \in begun
  /\ done' = done \cup {t}
  /\ UNCHANGED <<row, begun, skipping, stopped>>

Record(t) ==
  /\ Turn(t) /\ t \in done
  /\ Write(t, {"running"}, "success")
  /\ UNCHANGED <<begun, done, skipping, stopped>>

\* A task that fails, also before its script was started, is the last.
Fail(t) ==
  /\ Turn(t) /\ t \notin done
  /\ Write(t, {"pending", "running"}, "failed")
  /\ stopped' = stopped \cup {t[1]}
  /\ UNCHANGED <<begun, done, skipping>>

\* complete-build: only a task that has exited with status 0 can have the rest
\* of the list skipped.
Complete(t) ==
  /\ Turn(t) /\ t \in done
  /\ skipping' = skipping \cup {t[1]}
  /\ UNCHANGED <<row, begun, done, stopped>>

Skip(t) ==
  /\ t[1] \in skipping
  /\ t \notin begun
  /\ Write(t, {"pending"}, "skipped")
  /\ UNCHANGED <<begun, done, skipping, stopped>>

\* The list is at its end, or the build is.
Stop(js) ==
  /\ stopped' = stopped \cup js
  /\ skipping' = skipping \ js
  /\ UNCHANGED <<row, begun, done>>

\* Another delivery of the job tries its first task, and fails.
Disturb(t) ==
  /\ Contested(t)
  /\ \E s \in {"running", "failed"} : row' = [row EXCEPT ![t] = s]
  /\ UNCHANGED <<begun, done, skipping, stopped>>

Next ==
  \/ \E js \in SUBSET Jobs : Stop(js)
  \/ \E t \in Tasks : \/ Announce(t) \/ Run(t) \/ Exit(t) \/ Record(t) \/ Fail(t)
                      \/ Complete(t) \/ Skip(t) \/ Disturb(t)

Spec == Init /\ [][Next]_list
=============================================================================
