---------------------------- MODULE RunnerShell -----------------------------
(***************************************************************************)
(* runner-shell, the program behind "ssh builds@runner connect <job>",     *)
(* composed with the build worker of RunBuild.  A session asks the worker  *)
(* about the build, follows its log while the tasks are running, claims    *)
(* the build, counts itself in Redis, and runs ssh to the VM; the one that *)
(* brings the count back to zero terminates the build.                     *)
(*                                                                         *)
(* Here claim and terminate are requested by sessions and by nobody else,  *)
(* and cancel by the API, at any time.                                     *)
(***************************************************************************)
EXTENDS RunBuild

CONSTANTS
  Sessions,  \* the times a user connects
  Wants,     \* the job each of them is for
  Fragile    \* those that may be killed or lose their terminal

ASSUME ShellConstants ==
  /\ IsFiniteSet(Sessions)
  /\ Wants \in [Sessions -> Jobs]
  /\ Fragile \subseteq Sessions

VARIABLES
  session,  \* where each session is
  room,     \* the build whose port its first request for info returned
  counter,  \* builds.sr.ht-shell-<job> in Redis
  loggedIn  \* the sessions that ssh has taken into a VM

shell     == <<session, room, counter, loggedIn>>
shellVars == <<vars, shell>>

Places == {"start", "tail", "claim", "count", "ssh", "inside", "left", "last", "gone", "dead"}

\* A session is counted from INCR to DECR.
Counted == {"ssh", "inside", "left"}

ShellInit ==
  /\ Init
  /\ session = [s \in Sessions |-> "start"]
  /\ room = [s \in Sessions |-> NoRun]
  /\ counter = [j \in Jobs |-> 0]
  /\ loggedIn = {}

Move(s, p, q) == session[s] = p /\ session' = [session EXCEPT ![s] = q]

-----------------------------------------------------------------------------
(* What /job/N/info says of a build.                                       *)

\* The port is known once the boot command has been started.
PortKnown(r) == pc[r] \notin {"setup", "boot"}

\* Before the VM has settled both the task and the number of tasks are zero.
TasksLeft(r) == settled[r] /\ task[r] <= NTasks

\* The first request; without an entry there is "No such job found".
Connect(s) ==
  LET r == jobs[Wants[s]]
  IN  /\ \/ r = NoRun /\ Move(s, "start", "gone") /\ UNCHANGED room
         \/ /\ r # NoRun
            /\ Move(s, "start", IF TasksLeft(r) /\ jobStatus[r] = "running"
                                THEN "tail" ELSE "claim")
            /\ room' = [room EXCEPT ![s] = IF PortKnown(r) THEN r ELSE NoRun]
      /\ UNCHANGED <<vars, counter, loggedIn>>

\* Faulty variant: the log is followed until the last task is over.
FollowToTheEnd(s) ==
  /\ \E r \in Runs : jobs[Wants[s]] = r /\ settled[r] /\ task[r] > NTasks
  /\ Move(s, "tail", "claim")
  /\ UNCHANGED <<vars, room, counter, loggedIn>>

\* The log is followed until the entry is gone or the tasks are over, as the
\* info says every three seconds; what it says of the port is not used.
Follow(s) ==
  /\ \A r \in Runs : jobs[Wants[s]] = r => ~TasksLeft(r)
  /\ Move(s, "tail", "claim")
  /\ UNCHANGED <<vars, room, counter, loggedIn>>

-----------------------------------------------------------------------------
(* connect()                                                               *)

\* Faulty variant: the build is not claimed.
ClaimNothing(s) ==
  /\ Move(s, "claim", "count")
  /\ UNCHANGED <<vars, room, counter, loggedIn>>

\* The answer to the claim is not looked at.
Claim(s) ==
  /\ Move(s, "claim", "count")
  /\ \/ HttpClaim(Wants[s])
     \/ handler = NoRun /\ jobs[Wants[s]] = NoRun /\ UNCHANGED vars
  /\ UNCHANGED <<room, counter, loggedIn>>

CountIn(s) ==
  /\ Move(s, "count", "ssh")
  /\ counter' = [counter EXCEPT ![Wants[s]] = @ + 1]
  /\ UNCHANGED <<vars, room, loggedIn>>

Reachable(s) == room[s] # NoRun /\ vm[room[s]] \in {"up", "orphan"}

\* ssh to the port; without a VM behind it, it returns at once.
Login(s) ==
  /\ \/ /\ Reachable(s)
        /\ Move(s, "ssh", "inside")
        /\ loggedIn' = loggedIn \cup {s}
     \/ Move(s, "ssh", "left") /\ UNCHANGED loggedIn
  /\ UNCHANGED <<vars, room, counter>>

Logout(s) ==
  /\ Move(s, "inside", "left")
  /\ UNCHANGED <<vars, room, counter, loggedIn>>

\* Faulty variant: the count from before the decrement is compared with zero.
CountOutLate(s) ==
  /\ Move(s, "left", IF counter[Wants[s]] = 0 THEN "last" ELSE "gone")
  /\ counter' = [counter EXCEPT ![Wants[s]] = @ - 1]
  /\ UNCHANGED <<vars, room, loggedIn>>

CountOut(s) ==
  /\ Move(s, "left", IF counter[Wants[s]] = 1 THEN "last" ELSE "gone")
  /\ counter' = [counter EXCEPT ![Wants[s]] = @ - 1]
  /\ UNCHANGED <<vars, room, loggedIn>>

Terminate(s) ==
  /\ Move(s, "last", "gone")
  /\ \/ HttpTerminate(Wants[s])
     \/ handler = NoRun /\ jobs[Wants[s]] = NoRun /\ UNCHANGED vars
  /\ UNCHANGED <<room, counter, loggedIn>>

\* Faulty variant: a session that dies is counted out, counted in or not.
DieCounted(s) ==
  /\ s \in Fragile
  /\ session[s] \notin {"start", "gone", "dead"}
  /\ session' = [session EXCEPT ![s] = "gone"]
  /\ counter' = [counter EXCEPT ![Wants[s]] = @ - 1]
  /\ UNCHANGED <<vars, room, loggedIn>>

\* A session that dies after it was counted leaves the count as it is.
Die(s) ==
  /\ s \in Fragile
  /\ session[s] \notin {"start", "gone", "dead"}
  /\ session' = [session EXCEPT ![s] = IF @ \in Counted \cup {"last"} THEN "dead" ELSE "gone"]
  /\ UNCHANGED <<vars, room, counter, loggedIn>>

-----------------------------------------------------------------------------

\* What a session does without waiting for its user or for the mutex.
Continue(s) ==
  \/ Follow(s) \/ CountIn(s) \/ Login(s) \/ CountOut(s)
  \/ ~Reachable(s) /\ Logout(s)

\* The worker without the requests of its users.
Worker ==
  /\ \/ \E r \in Runs : Deliver(r) \/ Proceed(r) \/ Insert(r) \/ Delete(r) \/ Deadline(r)
     \/ \E j \in Jobs : HttpCancel(j)
     \/ HttpCancelWrites
     \/ Crash
  /\ UNCHANGED shell

ShellNext ==
  \/ Worker
  \/ \E s \in Sessions : \/ Connect(s) \/ Follow(s) \/ Claim(s) \/ CountIn(s) \/ Login(s)
                         \/ Logout(s) \/ CountOut(s) \/ Terminate(s) \/ Die(s)

ShellSpec == ShellInit /\ [][ShellNext]_shellVars

\* A session goes on by itself but for the user, who need never log out of a
\* VM that is up; the requests under the mutex are served in the end.
ShellFairness ==
  \A s \in Sessions : WF_shellVars(Continue(s)) /\ SF_shellVars(Claim(s) \/ Terminate(s))

FairShellSpec == ShellSpec /\ Fairness /\ ShellFairness

-----------------------------------------------------------------------------
(* Properties.                                                             *)

Of(j, places) == {s \in Sessions : Wants[s] = j /\ session[s] \in places}

ShellTypeOK ==
  /\ session \in [Sessions -> Places]
  /\ room \in [Sessions -> Runs \cup {NoRun}]
  /\ counter \in [Jobs -> Nat]
  /\ \A j \in Jobs : Cardinality(Of(j, Counted)) <= counter[j]
  /\ loggedIn \in SUBSET Sessions

\* A failed build whose VM somebody has logged in to, or is about to, is not
\* torn down at the end of the ten minutes of standby ("After logging in, the
\* deadline is increased to your remaining build time."): the claim is in
\* before ssh is started, and on the failure path the entry is never deleted.
SessionKeepsStandby ==
  [][\A r \in Runs :
       Sole(r) /\ Alive(r) /\ pc[r] = "standby" /\ pc'[r] = "cleanup"
         => \A s \in Of(JobOf[r], {"count", "ssh", "inside"}) : room[s] # r]_shellVars

\* Whoever follows the log of a build is let in or told of its end, unless the
\* build fails: "task == tasks" then never comes, and the log is followed for as
\* long as the entry stays in the map.
FollowingEnds ==
  \A s \in Sessions : session[s] = "tail" ~>
    \/ session[s] # "tail"
    \/ \E r \in Runs : JobOf[r] = Wants[s] /\ verdict[r] \in Failures

\* Once everybody who was counted has left a build that somebody had logged in
\* to, the build has been told to end ("or when you log out"), whatever order
\* they came and went in, unless one of them died uncounted: then the deadline
\* has to do it.  CancelFreesVm then says that the cleanup comes.
LogoutEndsBuild ==
  \A r \in Runs, s \in loggedIn :
    Sole(r) /\ room[s] = r /\ jobs[JobOf[r]] = r /\ Alive(r)
      => Of(JobOf[r], Counted \cup {"last", "dead"}) # {}

\* "Your VM will be terminated <limit>, or when you log out.": no session
\* terminates a build to which nobody has logged in.
OnlyLogoutTerminates ==
  [][\A s \in Sessions, r \in Runs :
       session[s] = "last" /\ session'[s] = "gone" /\ Alive(r) /\ ~Alive(r)'
         => \E q \in loggedIn : Wants[q] = JobOf[r]]_shellVars
=============================================================================
