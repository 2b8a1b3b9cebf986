------------------------------ MODULE JobGroup ------------------------------
(***************************************************************************)
(* The triggers of a job group.  Every build, when it has recorded its own *)
(* outcome, looks at the rows of the whole group, and whoever finds them   *)
(* all in a final status processes the triggers.  Nothing but the database *)
(* coordinates the builds, which run on any number of workers.             *)
(*                                                                         *)
(* Jobs are the members of one group, created before any of them started   *)
(* and delivered once each; what their status may do is JobLifecycle's.    *)
(***************************************************************************)
EXTENDS JobLifecycle, Naturals, Sequences

CONSTANT
  Conditions  \* the conditions of the group's triggers

ASSUME GroupConstants ==
  /\ Jobs # {}
  /\ Conditions \subseteq {"always", "success", "failure"}
  /\ Conditions # {}

VARIABLES
  step,     \* where processJobGroupTriggers of each build is
  outcome,  \* the status it works out for the group
  sent,     \* the times triggers were processed: by, outcome and those that fired
  harmed    \* history: a statement has failed from recording an outcome on

group == <<step, outcome, sent, harmed>>
vars  == <<lifecycle, group>>

Steps    == {"count", "read", "report", "own"}
Outcomes == Final \cup {"none"}
Reports  == [by : Jobs, outcome : Final, fired : SUBSET Conditions]

GroupInit ==
  /\ Init
  /\ step = [j \in Jobs |-> "own"]
  /\ outcome = [j \in Jobs |-> "none"]
  /\ sent = <<>>
  /\ harmed = FALSE

-----------------------------------------------------------------------------

GroupStep(j, p, q) ==
  /\ phase[j] = "written"
  /\ step[j] = p
  /\ step' = [step EXCEPT ![j] = q]

\* Faulty variant: like its own triggers, a job handles the group's once.
RecordAndNotifyOnce(j) ==
  /\ Record(j)
  /\ step' = [step EXCEPT ![j] = IF mem[j] = "success" THEN "own" ELSE "count"]
  /\ harmed' = (harmed \/ status'[j] # verdict[j])
  /\ UNCHANGED <<outcome, sent>>

\* ProcessTriggers begins with the group's.
RecordAndNotify(j) ==
  /\ Record(j)
  /\ step' = [step EXCEPT ![j] = "count"]
  /\ harmed' = (harmed \/ status'[j] # verdict[j])
  /\ UNCHANGED <<outcome, sent>>

Complete == \A k \in Jobs : status[k] \notin {"pending", "queued"}

\* GetJobGroup: how many members have been taken up, in one statement.
Count(j) ==
  /\ \/ GroupStep(j, "count", IF Complete THEN "read" ELSE "own") /\ UNCHANGED harmed
     \/ DbMayFail /\ GroupStep(j, "count", "own") /\ harmed' = TRUE
  /\ UNCHANGED <<lifecycle, outcome, sent>>

Done == \A k \in Jobs : status[k] \in Final

\* Faulty variant: the status of the last member, successful or not.
LastVerdict == {status[k] : k \in Jobs}

\* The last member that did not succeed, in the order the rows come in.
Verdicts ==
  LET failing == {k \in Jobs : status[k] # "success"}
  IN  IF failing = {} THEN {"success"} ELSE {status[k] : k \in failing}

\* Faulty variant: what Complete says is taken for the end of the group.
ReadUnchecked(j) ==
  /\ GroupStep(j, "read", "report")
  /\ \E s \in Verdicts : outcome' = [outcome EXCEPT ![j] = s]
  /\ UNCHANGED <<lifecycle, sent, harmed>>

\* GetJobs, in another statement, and the outcome of the group.
Read(j) ==
  /\ \/ /\ Done
        /\ GroupStep(j, "read", "report")
        /\ \E s \in Verdicts : outcome' = [outcome EXCEPT ![j] = s]
        /\ UNCHANGED harmed
     \/ ~Done /\ GroupStep(j, "read", "own") /\ UNCHANGED <<outcome, harmed>>
     \/ DbMayFail /\ GroupStep(j, "read", "own") /\ harmed' = TRUE /\ UNCHANGED outcome
  /\ UNCHANGED <<lifecycle, sent>>

\* Whether a trigger fires: the success condition looks at the status of the
\* job at hand, the failure condition at that of the group.
Fires(j, c) ==
  \/ c = "always"
  \/ c = "failure" /\ outcome[j] \in Failures
  \/ c = "success" /\ mem[j] = "success"

Report(j) ==
  /\ GroupStep(j, "report", "own")
  /\ sent' = Append(sent, [by      |-> j,
                           outcome |-> outcome[j],
                           fired   |-> {c \in Conditions : Fires(j, c)}])
  /\ UNCHANGED <<lifecycle, outcome, harmed>>

\* The job's own triggers follow, and with them the end of the build, unless
\* a trigger of either kind panics.
Leave(j) ==
  /\ \/ step[j] = "own" /\ End(j)
     \/ step[j] \in {"report", "own"} /\ (Relapse(j) \/ Escape(j))
  /\ UNCHANGED group

\* The rest of a build takes no notice of the group.
Elsewhere ==
  /\ \/ \E j \in Jobs : \/ Start(j) \/ StartFails(j) \/ Enlist(j)
                        \/ Cancel(j) \/ Succeed(j) \/ Fail(j)
     \/ Crash
  /\ UNCHANGED group

GroupNext ==
  \/ \E j \in Jobs : RecordAndNotify(j) \/ Count(j) \/ Read(j) \/ Report(j) \/ Leave(j)
  \/ Elsewhere

GroupSpec == GroupInit /\ [][GroupNext]_vars

-----------------------------------------------------------------------------
(* Properties.                                                             *)

LifeTypeOK ==
  /\ phase \in [Jobs -> LifePhases]
  /\ verdict \in [Jobs -> Final \cup {"running"}]
  /\ mem \in [Jobs -> Statuses]
  /\ status \in [Jobs -> Statuses]
  /\ listed \in SUBSET Jobs

TypeOK ==
  /\ LifeTypeOK
  /\ step \in [Jobs -> Steps]
  /\ outcome \in [Jobs -> Outcomes]
  /\ sent \in Seq(Reports)
  /\ harmed \in BOOLEAN

AllSucceeded == \A k \in Jobs : status[k] = "success"

\* When every build of a group has come to its end, the triggers have been
\* processed at least once with an outcome that agrees with the rows: success
\* if and only if every job is recorded as a success.  No member assumes that
\* another one will do it, whatever the order of their writes and reads, of
\* cancel requests and of panics.  (A build that a crash or a fatal panic took
\* never ends; and the database must not fail once a build has been decided:
\* that of an earlier statement does no harm.)
EndIsReported ==
  ~harmed /\ (\A j \in Jobs : phase[j] = "ended")
    => \E i \in 1 .. Len(sent) : sent[i].outcome = "success" <=> AllSucceeded

\* A group that was reported a success is one: no row of it changes after the
\* report, in spite of cancel requests, crashes and a failing database, but
\* for jobs one of whose own triggers panics.
SuccessReportHolds ==
  \A i \in 1 .. Len(sent) : sent[i].outcome = "success" =>
    \A k \in Jobs \ Panicking : status[k] = "success"

\* "The group is only considered successful if all jobs are successful": a
\* trigger for success fires for no other group.
SuccessMeansAll ==
  \A i \in 1 .. Len(sent) : "success" \in sent[i].fired => sent[i].outcome = "success"
=============================================================================
