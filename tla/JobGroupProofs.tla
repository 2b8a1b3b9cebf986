--------------------------- MODULE JobGroupProofs ---------------------------
(***************************************************************************)
(* Proofs about JobGroup for every group of jobs and every set of          *)
(* triggers.                                                               *)
(***************************************************************************)
EXTENDS JobGroup, TLAPS

\* The life cycle of one job, as JobLifecycle's Next has it.
Lives(j) ==
  \/ Start(j) \/ StartFails(j) \/ Enlist(j) \/ Cancel(j) \/ Succeed(j)
  \/ Fail(j) \/ Record(j) \/ End(j) \/ Relapse(j) \/ Escape(j)

LEMMA StatusList ==
  /\ Statuses = {"pending", "queued", "running", "success", "failed", "timeout", "cancelled"}
  /\ Final = {"success", "failed", "timeout", "cancelled"}
  /\ Failures = {"failed", "timeout", "cancelled"}
  BY DEF Statuses, Final, Failures

LEMMA StepTypes ==
  ASSUME GroupNext \/ UNCHANGED vars
  PROVE  \/ \E j \in Jobs : Lives(j)
         \/ Crash
         \/ UNCHANGED lifecycle
  BY Zenon DEF GroupNext, Elsewhere, Leave, Lives, RecordAndNotify, Count, Read, Report, vars

\* Triggers of the group only look: whatever they find, the status of every member
\* changes as JobLifecycle lets the status of any job change.
THEOREM GroupIsLifecycle == GroupSpec => Spec
<1>1. GroupInit => Init
  BY DEF GroupInit
<1>2. [GroupNext]_vars => [Next]_lifecycle
  BY StepTypes DEF Next, Lives
<1> QED BY <1>1, <1>2, PTL DEF GroupSpec, Spec

-----------------------------------------------------------------------------
(* Type correctness.  A final verdict is needed to record one.             *)

VerdictDecided ==
  \A j \in Jobs : phase[j] \in {"decided", "written", "ended"} => verdict[j] \in Final

LifeTypeInv == LifeTypeOK /\ VerdictDecided

\* A build that has seen its group complete has an outcome to report.
OutcomeKnown == \A j \in Jobs : step[j] = "report" => outcome[j] \in Final

TypeInv == TypeOK /\ VerdictDecided /\ OutcomeKnown

LEMMA LivesType ==
  ASSUME LifeTypeInv, NEW j \in Jobs, Lives(j)
  PROVE  LifeTypeInv'
<1> USE StatusList DEF LifeTypeInv, LifeTypeOK, VerdictDecided, Step, LifePhases
<1>1. CASE Start(j) BY <1>1 DEF Start
<1>2. CASE StartFails(j)
  <2>1. status' \in [Jobs -> Statuses] BY <1>2 DEF StartFails
  <2> QED BY <1>2, <2>1 DEF StartFails
<1>3. CASE Enlist(j) BY <1>3 DEF Enlist
<1>4. CASE Cancel(j) BY <1>4 DEF Cancel, SetStatus
<1>5. CASE Succeed(j) BY <1>5 DEF Succeed, Decide
<1>6. CASE Fail(j) BY <1>6 DEF Fail, Decide
<1>7. CASE Record(j)
  <2>1. verdict[j] \in Statuses BY <1>7 DEF Record
  <2> QED BY <1>7, <2>1 DEF Record, SetStatus
<1>8. CASE End(j) BY <1>8 DEF End
<1>9. CASE Relapse(j) BY <1>9 DEF Relapse, Decide
<1>10. CASE Escape(j) BY <1>10 DEF Escape
<1> QED BY <1>1, <1>2, <1>3, <1>4, <1>5, <1>6, <1>7, <1>8, <1>9, <1>10, Zenon DEF Lives

LEMMA NextLifeType ==
  ASSUME LifeTypeInv, GroupNext \/ UNCHANGED vars
  PROVE  LifeTypeInv'
<1>1. CASE Crash
  BY <1>1 DEF Crash, LifeTypeInv, LifeTypeOK, VerdictDecided, LifePhases
<1>2. CASE UNCHANGED lifecycle
  BY <1>2 DEF lifecycle, LifeTypeInv, LifeTypeOK, VerdictDecided
<1> QED BY <1>1, <1>2, LivesType, StepTypes

LEMMA NextGroupType ==
  ASSUME TypeInv, GroupNext \/ UNCHANGED vars
  PROVE  /\ step' \in [Jobs -> Steps]
         /\ outcome' \in [Jobs -> Outcomes]
         /\ sent' \in Seq(Reports)
         /\ harmed' \in BOOLEAN
         /\ OutcomeKnown'
<1> USE DEF TypeInv, TypeOK, OutcomeKnown, Steps, Outcomes, GroupStep
<1>1. CASE UNCHANGED group
  BY <1>1 DEF group
<1>2. ASSUME NEW j \in Jobs, RecordAndNotify(j) \/ Count(j)
      PROVE  /\ step' \in [Jobs -> Steps] /\ OutcomeKnown' /\ harmed' \in BOOLEAN
             /\ UNCHANGED <<outcome, sent>>
  BY <1>2 DEF RecordAndNotify, Count
<1>3. ASSUME NEW j \in Jobs, Read(j)
      PROVE  /\ step' \in [Jobs -> Steps] /\ outcome' \in [Jobs -> Outcomes]
             /\ OutcomeKnown' /\ harmed' \in BOOLEAN /\ UNCHANGED sent
  <2>1. Done => Verdicts \subseteq Final
    BY StatusList DEF Done, Verdicts
  <2> QED BY <1>3, <2>1 DEF Read
<1>4. ASSUME NEW j \in Jobs, Report(j)
      PROVE  /\ step' \in [Jobs -> Steps] /\ UNCHANGED <<outcome, harmed>>
             /\ OutcomeKnown' /\ sent' \in Seq(Reports)
  <2>1. outcome[j] \in Final
    BY <1>4 DEF Report
  <2>2. [by |-> j, outcome |-> outcome[j],
         fired |-> {c \in Conditions : Fires(j, c)}] \in Reports
    BY <2>1 DEF Reports
  <2>3. sent' \in Seq(Reports)
    BY <1>4, <2>2 DEF Report
  <2> QED BY <1>4, <2>3 DEF Report
<1> QED BY <1>1, <1>2, <1>3, <1>4 DEF GroupNext, Leave, Elsewhere, vars, group

LEMMA InitTypeInv == GroupInit => TypeInv
<1> SUFFICES ASSUME GroupInit PROVE TypeInv
  OBVIOUS
<1>1. harmed \in BOOLEAN
  BY Zenon DEF GroupInit
<1> QED BY <1>1, StatusList DEF GroupInit, Init, TypeInv, TypeOK, LifeTypeOK, VerdictDecided,
     OutcomeKnown, LifePhases, Steps, Outcomes

LEMMA NextTypeInv == TypeInv /\ [GroupNext]_vars => TypeInv'
  BY NextLifeType, NextGroupType DEF TypeInv, TypeOK, LifeTypeInv

\* Every variable keeps its type: a report has an outcome that is final, and
\* nobody reports before working one out.
THEOREM TypeCorrect == GroupSpec => []TypeOK
<1>1. TypeInv => TypeOK BY DEF TypeInv
<1> QED BY <1>1, InitTypeInv, NextTypeInv, PTL DEF GroupSpec

-----------------------------------------------------------------------------
(* A success that is recorded can neither be cancelled nor, unless one of  *)
(* the job's triggers panics, be recorded over.                            *)

CancelMissesSuccess == \A j \in listed : verdict[j] # "success"
YoungIsOpen ==
  \A j \in Jobs : phase[j] \in {"queued", "started", "building"} => verdict[j] = "running"
YoungIsUnlisted == \A j \in Jobs : phase[j] \in {"queued", "started"} => j \notin listed
SuccessIsSafe ==
  \A j \in Jobs : status[j] = "success" =>
    /\ j \notin listed
    /\ phase[j] \in {"written", "ended", "lost"} \/ (phase[j] = "decided" /\ j \in Panicking)

LifeInv == LifeTypeInv /\ CancelMissesSuccess /\ YoungIsOpen /\ YoungIsUnlisted /\ SuccessIsSafe

LEMMA InitLifeInv == GroupInit => LifeInv
  BY StatusList DEF GroupInit, Init, LifeInv, LifeTypeInv, LifeTypeOK, VerdictDecided, LifePhases,
     CancelMissesSuccess, YoungIsOpen, YoungIsUnlisted, SuccessIsSafe

LEMMA LivesLifeInv ==
  ASSUME LifeInv, NEW j \in Jobs, Lives(j)
  PROVE  LifeInv'
<1>0. LifeTypeInv'
  BY LivesType DEF LifeInv
<1> USE StatusList, <1>0 DEF LifeInv, LifeTypeInv, LifeTypeOK, CancelMissesSuccess, YoungIsOpen,
        YoungIsUnlisted, SuccessIsSafe, Step
<1>1. CASE Start(j) BY <1>1 DEF Start
<1>2. CASE StartFails(j)
  <2>1. \A k \in Jobs : status'[k] \in {status[k], "running"}
    BY <1>2 DEF StartFails
  <2> QED BY <1>2, <2>1 DEF StartFails
<1>3. CASE Enlist(j) BY <1>3 DEF Enlist
<1>4. CASE Cancel(j) BY <1>4 DEF Cancel, SetStatus
<1>5. CASE Succeed(j) BY <1>5 DEF Succeed, Decide
<1>6. CASE Fail(j) BY <1>6 DEF Fail, Decide
<1>7. CASE Record(j) BY <1>7 DEF Record, SetStatus
<1>8. CASE End(j) BY <1>8 DEF End
<1>9. CASE Relapse(j) BY <1>9 DEF Relapse, Decide
<1>10. CASE Escape(j) BY <1>10 DEF Escape
<1> QED BY <1>1, <1>2, <1>3, <1>4, <1>5, <1>6, <1>7, <1>8, <1>9, <1>10, Zenon DEF Lives

LEMMA NextLifeInv == LifeInv /\ [GroupNext]_vars => LifeInv'
<1> SUFFICES ASSUME LifeInv, [GroupNext]_vars PROVE LifeInv'
  OBVIOUS
<1>0. LifeTypeInv'
  BY NextLifeType DEF LifeInv
<1>1. CASE Crash
  BY <1>0, <1>1 DEF Crash, LifeInv, LifeTypeInv, LifeTypeOK, CancelMissesSuccess, YoungIsOpen,
     YoungIsUnlisted, SuccessIsSafe
<1>2. CASE UNCHANGED lifecycle
  BY <1>0, <1>2 DEF lifecycle, LifeInv, CancelMissesSuccess, YoungIsOpen, YoungIsUnlisted,
     SuccessIsSafe
<1> QED BY <1>1, <1>2, LivesLifeInv, StepTypes

\* The row of a job that does not panic keeps its success.
Holds(k) == k \notin Panicking /\ status[k] = "success" => status'[k] = "success"

LEMMA SuccessHolds ==
  ASSUME LifeInv, [GroupNext]_vars, NEW k \in Jobs
  PROVE  Holds(k)
<1> SUFFICES ASSUME k \notin Panicking, status[k] = "success" PROVE status'[k] = "success"
  BY DEF Holds
<1>1. k \notin listed /\ phase[k] \notin {"queued", "decided"}
  BY DEF LifeInv, SuccessIsSafe
<1>2. ASSUME NEW j \in Jobs, Lives(j) PROVE status'[k] = status[k]
  <2> USE DEF LifeInv, LifeTypeInv, LifeTypeOK, Step
  <2>1. CASE j = k
    BY <1>1, <1>2, <2>1 DEF Lives, Start, StartFails, Enlist, Cancel, Succeed, Fail, Record,
       End, Relapse, Escape
  <2>2. CASE j # k
    BY <1>2, <2>2 DEF Lives, Start, StartFails, Enlist, Cancel, Succeed, Fail, Record,
       End, Relapse, Escape, SetStatus
  <2> QED BY <2>1, <2>2
<1>3. Crash \/ UNCHANGED lifecycle => status' = status
  BY DEF Crash, lifecycle
<1> QED BY <1>2, <1>3, StepTypes

\* A build about to report a success, like a report of one, found every row a
\* success, and so they stay.
SuccessPending ==
  \A j \in Jobs : step[j] = "report" /\ outcome[j] = "success" =>
    \A k \in Jobs \ Panicking : status[k] = "success"

ReportInv == TypeInv /\ LifeInv /\ SuccessPending /\ SuccessReportHolds

LEMMA NextReportInv == ReportInv /\ [GroupNext]_vars => ReportInv'
<1> SUFFICES ASSUME ReportInv, [GroupNext]_vars PROVE SuccessPending' /\ SuccessReportHolds'
  BY NextTypeInv, NextLifeInv DEF ReportInv
<1>0. \A k \in Jobs \ Panicking : status[k] = "success" => status'[k] = "success"
  BY SuccessHolds DEF ReportInv, Holds
<1> USE DEF ReportInv, TypeInv, TypeOK, SuccessPending, SuccessReportHolds, GroupStep
<1>1. CASE UNCHANGED group
  BY <1>0, <1>1 DEF group
<1>2. ASSUME NEW j \in Jobs, RecordAndNotify(j) \/ Count(j)
      PROVE  SuccessPending' /\ SuccessReportHolds'
  BY <1>0, <1>2 DEF RecordAndNotify, Count
<1>3. ASSUME NEW j \in Jobs, Read(j)
      PROVE  SuccessPending' /\ SuccessReportHolds'
  <2>1. "success" \in Verdicts => \A k \in Jobs : status[k] = "success"
    BY DEF Verdicts
  <2> QED BY <1>0, <1>3, <2>1 DEF Read
<1>4. ASSUME NEW j \in Jobs, Report(j)
      PROVE  SuccessPending' /\ SuccessReportHolds'
  <2> DEFINE this == [by |-> j, outcome |-> outcome[j],
                      fired |-> {c \in Conditions : Fires(j, c)}]
  <2>1. this.outcome = outcome[j]
    OBVIOUS
  <2>2. sent' = Append(sent, this) /\ step[j] = "report"
    BY <1>4 DEF Report
  <2> HIDE DEF this
  <2>3. \A i \in 1 .. Len(sent') : sent'[i] = this \/ (i \in 1 .. Len(sent) /\ sent'[i] = sent[i])
    BY <2>2
  <2>4. SuccessReportHolds'
    BY <1>0, <2>1, <2>2, <2>3
  <2>5. SuccessPending'
    BY <1>0, <1>4 DEF Report
  <2> QED BY <2>4, <2>5
<1> QED BY <1>1, <1>2, <1>3, <1>4 DEF GroupNext, Leave, Elsewhere, vars, group

\* A group that was reported a success stays one, whatever cancel requests,
\* crashes and failing statements come later.
THEOREM SuccessReportsHold == GroupSpec => []SuccessReportHolds
<1>1. GroupInit => ReportInv
  BY InitTypeInv, InitLifeInv DEF GroupInit, ReportInv, SuccessPending, SuccessReportHolds
<1>2. ReportInv => SuccessReportHolds
  BY DEF ReportInv
<1> QED BY <1>1, <1>2, NextReportInv, PTL DEF GroupSpec

-----------------------------------------------------------------------------
(* The end of a group is reported.  From the moment the last outcome has   *)
(* been written, either a report agrees with the rows or some build has    *)
(* still to look at them, or has looked and is about to report.            *)

AllWritten == \A k \in Jobs : phase[k] \in {"written", "ended"}

RowsFinal ==
  ~harmed => \A k \in Jobs : phase[k] \in {"written", "ended"} => status[k] \in Final

Agrees(o) == o = "success" <=> AllSucceeded

Reported   == \E i \in 1 .. Len(sent) : Agrees(sent[i].outcome)
WillLook(j) == phase[j] = "written" /\ step[j] \in {"count", "read"}
HasSeen(j)  == phase[j] = "written" /\ step[j] = "report" /\ Agrees(outcome[j])

WillReport ==
  ~harmed /\ AllWritten => Reported \/ \E j \in Jobs : WillLook(j) \/ HasSeen(j)

EndInv == TypeInv /\ LifeInv /\ RowsFinal /\ WillReport

\* As long as nothing has been harmed, whoever records an outcome does.
LEMMA Unharmed ==
  ASSUME TypeInv, GroupNext \/ UNCHANGED vars, ~harmed'
  PROVE  /\ ~harmed
         /\ \A j \in Jobs : phase[j] = "decided" /\ phase'[j] = "written" => status'[j] = verdict[j]
<1> USE DEF TypeInv, TypeOK, LifeTypeOK
<1>1. ASSUME NEW j \in Jobs, RecordAndNotify(j)
      PROVE  ~harmed /\ status'[j] = verdict[j]
                     /\ \A k \in Jobs \ {j} : phase'[k] = phase[k]
  BY <1>1 DEF RecordAndNotify, Record, Step
<1>2. ASSUME NEW j \in Jobs, Count(j) \/ Read(j) \/ Report(j) PROVE ~harmed /\ phase' = phase
  BY <1>2 DEF Count, Read, Report, lifecycle
<1>3. ASSUME NEW j \in Jobs, \/ Start(j) \/ StartFails(j) \/ Enlist(j) \/ Cancel(j)
                             \/ Succeed(j) \/ Fail(j) \/ End(j) \/ Relapse(j) \/ Escape(j)
      PROVE  \A k \in Jobs : phase'[k] = phase[k] \/ phase'[k] # "written"
  BY <1>3 DEF Start, StartFails, Enlist, Cancel, Succeed, Fail, End, Relapse, Escape, Step
<1>4. CASE Crash /\ UNCHANGED group
  BY <1>4 DEF Crash, group
<1>5. CASE UNCHANGED vars
  BY <1>5 DEF vars, group, lifecycle
<1>6. CASE \E j \in Jobs : Leave(j)
  BY <1>3, <1>6 DEF Leave, group
<1>7. CASE Elsewhere
  BY <1>3, <1>4, <1>7 DEF Elsewhere, group
<1> QED BY <1>1, <1>2, <1>5, <1>6, <1>7 DEF GroupNext

LEMMA NextRowsFinal ==
  ASSUME TypeInv, RowsFinal, [GroupNext]_vars
  PROVE  RowsFinal'
<1> SUFFICES ASSUME ~harmed', NEW k \in Jobs, phase'[k] \in {"written", "ended"}
             PROVE  status'[k] \in Final
  BY DEF RowsFinal
<1>0. /\ \A j \in Jobs : phase[j] \in {"written", "ended"} => status[j] \in Final
      /\ \A j \in Jobs : phase[j] = "decided" /\ phase'[j] = "written" => status'[j] = verdict[j]
  BY Unharmed DEF RowsFinal
<1> USE StatusList, <1>0 DEF TypeInv, TypeOK, LifeTypeOK
<1>1. ASSUME NEW j \in Jobs, Lives(j) PROVE status'[k] \in Final
  <2>1. CASE Record(j)
    <3>1. verdict[j] \in Final /\ status'[j] = verdict[j]
      BY <2>1 DEF Record, Step, VerdictDecided
    <3> QED BY <2>1, <3>1 DEF Record, SetStatus, Step
  <2>2. CASE Cancel(j)
    BY <2>2 DEF Cancel, SetStatus
  <2>3. CASE Start(j) BY <1>0, <2>3 DEF Start, Step
  <2>4. CASE StartFails(j) BY <2>4 DEF StartFails, Step
  <2>5. CASE Enlist(j) \/ Succeed(j) \/ Fail(j) \/ End(j) \/ Relapse(j) \/ Escape(j)
    <3>1. status' = status
      BY <2>5 DEF Enlist, Succeed, Fail, End, Relapse, Escape
    <3>2. phase[k] \in {"written", "ended"}
      BY <2>5 DEF Enlist, Succeed, Fail, End, Relapse, Escape, Step
    <3> QED BY <3>1, <3>2
  <2> QED BY <1>1, <2>1, <2>2, <2>3, <2>4, <2>5, Zenon DEF Lives
<1>2. CASE Crash BY <1>2 DEF Crash
<1>3. CASE UNCHANGED lifecycle BY <1>3 DEF lifecycle
<1> QED BY <1>1, <1>2, <1>3, StepTypes

\* Once all is written, only cancel requests change rows, and those of builds
\* that have failed anyway: whether all succeeded is settled.
LEMMA OutcomeSettled ==
  ASSUME LifeInv, TypeInv, AllWritten, AllWritten', [GroupNext]_vars
  PROVE  AllSucceeded' <=> AllSucceeded
<1> USE DEF LifeInv, TypeInv, TypeOK, LifeTypeOK
<1>1. ASSUME NEW j \in Jobs, Lives(j) PROVE AllSucceeded' <=> AllSucceeded
  <2>1. CASE Cancel(j)
    <3>1. /\ status[j] # "success"
          /\ status' \in {status, [status EXCEPT ![j] = "cancelled"]}
      BY <2>1 DEF Cancel, SetStatus, SuccessIsSafe
    <3> QED BY <3>1 DEF AllSucceeded
  <2>2. ~Start(j) /\ ~StartFails(j) /\ ~Record(j)
    BY DEF AllWritten, Start, StartFails, Record, Step
  <2>3. CASE status' = status
    BY <2>3 DEF AllSucceeded
  <2> QED BY <1>1, <2>1, <2>2, <2>3 DEF Lives, Enlist, Succeed, Fail, End, Relapse, Escape
<1>2. Crash \/ UNCHANGED lifecycle => status' = status
  BY DEF Crash, lifecycle
<1> QED BY <1>1, <1>2, StepTypes DEF AllSucceeded

LEMMA NextWillReport == EndInv /\ [GroupNext]_vars => WillReport'
<1> SUFFICES ASSUME EndInv, [GroupNext]_vars, ~harmed', AllWritten'
             PROVE  (Reported \/ \E j \in Jobs : WillLook(j) \/ HasSeen(j))'
  BY DEF WillReport
<1> USE DEF EndInv, TypeInv, TypeOK, GroupStep
<1>1. ASSUME NEW j \in Jobs, RecordAndNotify(j) PROVE WillLook(j)'
  BY <1>1 DEF RecordAndNotify, Record, Step, WillLook, LifeTypeOK
<1>2. ASSUME ~AllWritten, \A j \in Jobs : ~RecordAndNotify(j) PROVE FALSE
  <2>1. PICK k \in Jobs : phase[k] \notin {"written", "ended"}
    BY <1>2 DEF AllWritten
  <2>2. phase'[k] \in {"written", "ended"}
    BY DEF AllWritten
  <2>3. ASSUME NEW j \in Jobs, \/ Start(j) \/ StartFails(j) \/ Enlist(j) \/ Cancel(j) \/ Succeed(j)
                               \/ Fail(j) \/ End(j) \/ Relapse(j) \/ Escape(j)
        PROVE  FALSE
    BY <2>1, <2>2, <2>3 DEF Start, StartFails, Enlist, Cancel, Succeed, Fail, End,
       Relapse, Escape, Step, LifeTypeOK
  <2>4. Crash \/ UNCHANGED lifecycle => FALSE
    BY <2>1, <2>2 DEF Crash, lifecycle
  <2> QED BY <1>2, <2>3, <2>4, Zenon DEF GroupNext, Elsewhere, Leave, Count, Read, Report, vars
<1>3. ASSUME AllWritten, \A j \in Jobs : ~RecordAndNotify(j)
      PROVE  (Reported \/ \E j \in Jobs : WillLook(j) \/ HasSeen(j))'
  <2>0. /\ AllSucceeded' <=> AllSucceeded
        /\ ~harmed
        /\ \A k \in Jobs : status[k] \in Final
        /\ Reported \/ \E j \in Jobs : WillLook(j) \/ HasSeen(j)
    BY <1>3, OutcomeSettled, Unharmed DEF WillReport, RowsFinal, AllWritten
  <2>1. \A o : Agrees(o)' <=> Agrees(o)
    BY <2>0 DEF Agrees
  <2>2. UNCHANGED sent /\ Reported => Reported'
    BY <2>1 DEF Reported
  <2>3. ASSUME NEW j \in Jobs, Count(j)
        PROVE  (Reported \/ \E k \in Jobs : WillLook(k) \/ HasSeen(k))'
    <3>1. Complete
      BY <2>0, StatusList DEF Complete
    <3>2. WillLook(j)'
      BY <2>3, <3>1 DEF Count, WillLook, lifecycle
    <3> QED BY <3>2
  <2>4. ASSUME NEW j \in Jobs, Read(j)
        PROVE  (Reported \/ \E k \in Jobs : WillLook(k) \/ HasSeen(k))'
    <3>1. PICK s \in Verdicts : outcome' = [outcome EXCEPT ![j] = s]
      BY <2>0, <2>4 DEF Read, Done
    <3>2. Agrees(s)
      BY DEF Verdicts, Agrees, AllSucceeded
    <3>3. phase'[j] = "written" /\ step'[j] = "report"
      BY <2>0, <2>4 DEF Read, Done, lifecycle
    <3>4. HasSeen(j)'
      BY <2>1, <3>1, <3>2, <3>3 DEF HasSeen
    <3> QED BY <3>4
  <2>5. ASSUME NEW j \in Jobs, Report(j)
        PROVE  (Reported \/ \E k \in Jobs : WillLook(k) \/ HasSeen(k))'
    <3> DEFINE this == [by |-> j, outcome |-> outcome[j],
                        fired |-> {c \in Conditions : Fires(j, c)}]
    <3>1. this.outcome = outcome[j]
      OBVIOUS
    <3>2. sent' = Append(sent, this)
      BY <2>5 DEF Report
    <3> HIDE DEF this
    <3>3. /\ Len(sent') = Len(sent) + 1 /\ Len(sent) \in Nat
          /\ sent'[Len(sent')] = this
          /\ \A i \in 1 .. Len(sent) : sent'[i] = sent[i]
      BY <3>2
    <3>4. Agrees(outcome[j]) => Reported'
      BY <2>1, <3>1, <3>3 DEF Reported
    <3>5. Reported => Reported'
      BY <2>1, <3>3 DEF Reported
    <3>6. ASSUME NEW k \in Jobs, k # j, WillLook(k) \/ HasSeen(k)
          PROVE  (WillLook(k) \/ HasSeen(k))'
      BY <2>1, <2>5, <3>6 DEF Report, WillLook, HasSeen, lifecycle
    <3>7. ~WillLook(j) /\ (HasSeen(j) => Agrees(outcome[j]))
      BY <2>5 DEF Report, WillLook, HasSeen
    <3> QED BY <2>0, <3>4, <3>5, <3>6, <3>7
  <2>6. ASSUME NEW j \in Jobs, Leave(j)
        PROVE  (Reported \/ \E k \in Jobs : WillLook(k) \/ HasSeen(k))'
    <3>1. End(j) /\ step[j] = "own"
      BY <2>6 DEF Leave, Relapse, Escape, Step, AllWritten, LifeTypeOK
    <3>2. \A k \in Jobs : WillLook(k) \/ HasSeen(k) => (WillLook(k) \/ HasSeen(k))'
      BY <2>1, <2>6, <3>1 DEF Leave, End, Step, WillLook, HasSeen, group, LifeTypeOK
    <3> QED BY <2>0, <2>2, <2>6, <3>2 DEF Leave, group
  <2>7. CASE Elsewhere \/ UNCHANGED vars
    <3>1. UNCHANGED group /\ \A k \in Jobs : phase[k] = "written" => phase'[k] = "written"
      BY <2>7, <1>3 DEF Elsewhere, Start, StartFails, Enlist, Cancel, Succeed, Fail, Crash,
         Step, AllWritten, vars, lifecycle
    <3>2. \A k \in Jobs : WillLook(k) \/ HasSeen(k) => (WillLook(k) \/ HasSeen(k))'
      BY <2>1, <3>1 DEF WillLook, HasSeen, group
    <3> QED BY <2>0, <2>2, <3>1, <3>2 DEF group
  <2> QED BY <1>3, <2>3, <2>4, <2>5, <2>6, <2>7 DEF GroupNext
<1> QED BY <1>1, <1>2, <1>3

\* The outcome of a group is always reported, by some member: if all builds
\* have ended in order, the triggers were processed for an outcome that agrees
\* with the rows.
THEOREM EndReported == GroupSpec => []EndIsReported
<1>1. GroupInit => EndInv
  <2>1. GroupInit => ~AllWritten /\ \A k \in Jobs : phase[k] \notin {"written", "ended"}
    BY GroupConstants DEF GroupInit, Init, AllWritten
  <2> QED BY <2>1, InitTypeInv, InitLifeInv DEF EndInv, RowsFinal, WillReport
<1>2. EndInv /\ [GroupNext]_vars => EndInv'
  BY NextTypeInv, NextLifeInv, NextRowsFinal, NextWillReport DEF EndInv
<1>3. EndInv => EndIsReported
  BY DEF EndInv, WillReport, EndIsReported, AllWritten, Reported, Agrees, WillLook, HasSeen
<1> QED BY <1>1, <1>2, <1>3, PTL DEF GroupSpec
=============================================================================
