--------------------------- MODULE BuildsApiProofs ---------------------------
(***************************************************************************)
(* Proofs about BuildsApi for any number of jobs, groups, workers and      *)
(* requests.                                                               *)
(***************************************************************************)
EXTENDS BuildsApi, TLAPS

LEMMA StatusList ==
  /\ Statuses = {"none", "pending", "queued", "running", "success", "failed", "timeout", "cancelled"}
  /\ Final = {"success", "failed", "timeout", "cancelled"}
  BY DEF Statuses, Final, Failures

\* What the request handlers do with a job, and what a worker does.
Request(j) ==
  \/ \E execute \in BOOLEAN : Submit(j, execute)
  \/ Send(j) \/ StartUpdates(j) \/ StartSends(j) \/ StartCommits(j) \/ StartRollsBack(j)
  \/ CancelFinds(j) \/ CancelAsks(j)
GroupRequest ==
  \E g \in Groups : \/ \E S \in (SUBSET Jobs) \ {{}}, execute \in BOOLEAN : CreateGroup(g, S, execute)
                    \/ StartGroup(g)
Failure == \E S \in (SUBSET Jobs) \ {{}} : SendFails(S)
Work(w) == (\E j \in Jobs : Take(w, j)) \/ GetJob(w) \/ Build(w) \/ End(w)

LEMMA StepKinds ==
  ASSUME [Next]_vars
  PROVE  \/ \E j \in Jobs : Request(j)
         \/ \E w \in Slots : Work(w)
         \/ GroupRequest \/ Failure \/ Crash \/ UNCHANGED vars
  BY Zenon DEF Next, Request, Work, GroupRequest, Failure

\* A worker that is not idle has a job.
Busy == \A w \in Slots : phase[w] # "idle" => job[w] \in Jobs

LEMMA BusyType == TypeOK => Busy
  BY DEF TypeOK, Busy

-----------------------------------------------------------------------------
(* Type correctness.                                                       *)

LEMMA InitTypeOK == Init => TypeOK
  BY ApiConstants, StatusList DEF Init, TypeOK

LEMMA EnqueueType ==
  ASSUME TypeOK, NEW S \in SUBSET Jobs, Enqueue(S)
  PROVE  status' \in [Jobs -> Statuses] /\ outbox' \in [Jobs -> Nat]
<1>1. status' \in [Jobs -> Statuses]
  BY StatusList DEF Enqueue, TypeOK
<1>2. ASSUME NEW j \in Jobs PROVE outbox[j] + (IF j \in S THEN 1 ELSE 0) \in Nat
  BY DEF TypeOK
<1>3. outbox' \in [Jobs -> Nat]
  BY <1>2 DEF Enqueue
<1> QED BY <1>1, <1>3

LEMMA NextTypeOK == TypeOK /\ [Next]_vars => TypeOK'
<1> SUFFICES ASSUME TypeOK, [Next]_vars PROVE TypeOK'
  OBVIOUS
<1> USE ApiConstants, StatusList DEF TypeOK, rows, mail, worker, history
<1>1. ASSUME NEW j \in Jobs, Request(j) PROVE TypeOK'
  <2>1. ASSUME NEW execute \in BOOLEAN, Submit(j, execute) PROVE TypeOK'
    BY <2>1 DEF Submit
  <2>2. CASE Send(j)
    <3>1. outbox[j] - 1 \in Nat
      BY <2>2 DEF Send
    <3> QED BY <2>2, <3>1 DEF Send
  <2>3. CASE StartUpdates(j) BY <2>3 DEF StartUpdates
  <2>4. CASE StartSends(j) BY <2>4 DEF StartSends
  <2>5. CASE StartCommits(j) BY <2>5 DEF StartCommits
  <2>6. CASE StartRollsBack(j) BY <2>6 DEF StartRollsBack
  <2>7. CASE CancelFinds(j) BY <2>7 DEF CancelFinds
  <2>8. CASE CancelAsks(j) BY <2>8 DEF CancelAsks
  <2> QED BY <1>1, <2>1, <2>2, <2>3, <2>4, <2>5, <2>6, <2>7, <2>8, Zenon DEF Request
<1>2. ASSUME NEW w \in Slots, Work(w) PROVE TypeOK'
  <2>1. ASSUME NEW j \in Jobs, Take(w, j) PROVE TypeOK'
    <3>1. queue[j] - 1 \in Nat
      BY <2>1 DEF Take
    <3> QED BY <2>1, <3>1 DEF Take
  <2>2. CASE GetJob(w)
    <3>1. job[w] \in Jobs
      BY <2>2 DEF GetJob
    <3> QED BY <2>2, <3>1 DEF GetJob
  <2>3. CASE Build(w)
    <3>1. job[w] \in Jobs
      BY <2>3 DEF Build
    <3> QED BY <2>3, <3>1 DEF Build
  <2>4. CASE End(w)
    <3>1. job[w] \in Jobs
      BY <2>4 DEF End
    <3>2. status' \in [Jobs -> Statuses] /\ known' \subseteq Jobs
      BY <2>4, <3>1 DEF End
    <3> QED BY <2>4, <3>1, <3>2 DEF End
  <2> QED BY <1>2, <2>1, <2>2, <2>3, <2>4, Zenon DEF Work
<1>3. ASSUME NEW g \in Groups, NEW S \in SUBSET Jobs, NEW execute \in BOOLEAN,
             CreateGroup(g, S, execute)
      PROVE  TypeOK'
  <2>1. status' \in [Jobs -> Statuses] /\ outbox' \in [Jobs -> Nat]
    BY <1>3, EnqueueType DEF CreateGroup
  <2>2. member' \in [Jobs -> Groups \cup {NoGroup}]
    BY <1>3 DEF CreateGroup
  <2> QED BY <1>3, <2>1, <2>2 DEF CreateGroup
<1>4. ASSUME NEW g \in Groups, StartGroup(g) PROVE TypeOK'
  <2>1. MembersOf(g) \in SUBSET Jobs
    BY DEF MembersOf
  <2>2. status' \in [Jobs -> Statuses] /\ outbox' \in [Jobs -> Nat]
    BY <1>4, <2>1, EnqueueType DEF StartGroup
  <2> QED BY <1>4, <2>2 DEF StartGroup
<1>5. ASSUME NEW S \in SUBSET Jobs, SendFails(S) PROVE TypeOK'
  <2>1. ASSUME NEW j \in Jobs PROVE (IF j \in S THEN outbox[j] - 1 ELSE outbox[j]) \in Nat
    BY <1>5, <2>1 DEF SendFails
  <2>2. outbox' \in [Jobs -> Nat]
    BY <1>5, <2>1 DEF SendFails
  <2> QED BY <1>5, <2>2 DEF SendFails
<1>6. CASE Crash BY <1>6 DEF Crash
<1>7. CASE UNCHANGED vars BY <1>7 DEF vars
<1> HIDE DEF TypeOK
<1>8. GroupRequest => TypeOK'
  BY <1>3, <1>4, Zenon DEF GroupRequest
<1>9. Failure => TypeOK'
  BY <1>5, Zenon DEF Failure
<1> QED BY <1>1, <1>2, <1>6, <1>7, <1>8, <1>9, StepKinds, Zenon

\* Every variable keeps its type: no counter of messages runs below zero, and
\* exactly the workers that are busy have a job.
THEOREM TypeCorrect == Spec => []TypeOK
  BY InitTypeOK, NextTypeOK, PTL DEF Spec

-----------------------------------------------------------------------------
(* A queued job is on its way.  The start request that has sent its        *)
(* message but not committed is included: the lock keeps the worker from   *)
(* consuming the message before the row says "queued".                     *)

OnItsWay(j) ==
  \/ outbox[j] + queue[j] > 0
  \/ \E w \in Slots : job[w] = j /\ phase[w] \in {"taken", "read"}
  \/ j \in lost

Awaited(j) == status[j] = "queued" \/ start[j] = "sent"

WayInv == TypeOK /\ \A j \in Jobs : Awaited(j) => OnItsWay(j)

LEMMA NextWayInv == WayInv /\ [Next]_vars => WayInv'
<1> SUFFICES ASSUME WayInv, [Next]_vars, NEW k \in Jobs, Awaited(k)'
             PROVE  OnItsWay(k)'
  BY NextTypeOK DEF WayInv
<1>0. TypeOK /\ (Awaited(k) => OnItsWay(k)) /\ outbox[k] \in Nat /\ queue[k] \in Nat
  BY DEF WayInv, TypeOK
<1> USE <1>0 DEF Awaited, OnItsWay, rows, mail, worker, history
<1>1. ASSUME NEW j \in Jobs, Request(j) PROVE OnItsWay(k)'
  <2>1. ASSUME NEW execute \in BOOLEAN, Submit(j, execute) PROVE OnItsWay(k)'
    BY <2>1 DEF Submit, TypeOK
  <2>2. CASE Send(j) BY <2>2 DEF Send, TypeOK
  <2>3. CASE StartUpdates(j) BY <2>3 DEF StartUpdates, TypeOK
  <2>4. CASE StartSends(j) BY <2>4 DEF StartSends, TypeOK
  <2>5. CASE StartCommits(j) BY <2>5 DEF StartCommits, TypeOK
  <2>6. CASE CancelFinds(j) BY <2>6 DEF CancelFinds, TypeOK
  <2>7. CASE CancelAsks(j) BY <2>7 DEF CancelAsks, TypeOK
  <2>8. CASE StartRollsBack(j) BY <2>8 DEF StartRollsBack, TypeOK
  <2> QED BY <1>1, <2>1, <2>2, <2>3, <2>4, <2>5, <2>6, <2>7, <2>8, Zenon DEF Request
<1>2. ASSUME NEW w \in Slots, Work(w) PROVE OnItsWay(k)'
  <2>1. ASSUME NEW j \in Jobs, Take(w, j) PROVE OnItsWay(k)'
    <3>1. CASE j = k
      <4>1. job'[w] = k /\ phase'[w] = "taken"
        BY <2>1, <3>1 DEF Take, TypeOK
      <4> QED BY <4>1
    <3>2. CASE j # k
      <4>1. outbox'[k] = outbox[k] /\ queue'[k] = queue[k]
        BY <2>1, <3>2 DEF Take, TypeOK
      <4>2. ASSUME NEW v \in Slots, job[v] = k, phase[v] \in {"taken", "read"}
            PROVE  job'[v] = k /\ phase'[v] \in {"taken", "read"}
        BY <2>1, <4>2 DEF Take, TypeOK
      <4>3. Awaited(k) /\ lost' = lost
        BY <2>1 DEF Take
      <4> QED BY <4>1, <4>2, <4>3
    <3> QED BY <3>1, <3>2
  <2>2. CASE GetJob(w)
    <3>1. ASSUME NEW v \in Slots, job[v] = k, phase[v] \in {"taken", "read"}
          PROVE  job'[v] = k /\ phase'[v] \in {"taken", "read"}
      BY <2>2, <3>1 DEF GetJob, TypeOK
    <3> QED BY <2>2, <3>1 DEF GetJob
  <2>3. CASE Build(w) \/ End(w)
    <3>1. job[w] \in Jobs /\ start' = start /\ start[job[w]] = "none" /\ UNCHANGED <<mail, lost>>
      BY <2>3 DEF Build, End, Unlocked, TypeOK
    <3>2. job[w] # k
      <4>1. CASE job[w] = k
        <5>1. status'[k] # "queued"
          BY <2>3, <4>1, StatusList DEF Build, End, TypeOK
        <5> QED BY <3>1, <4>1, <5>1
      <4> QED BY <4>1
    <3>3. Awaited(k)
      BY <2>3, <3>1, <3>2 DEF Build, End, TypeOK
    <3>4. ASSUME NEW v \in Slots, job[v] = k, phase[v] \in {"taken", "read"}
          PROVE  job'[v] = k /\ phase'[v] \in {"taken", "read"}
      BY <2>3, <3>2, <3>4 DEF Build, End, TypeOK
    <3> QED BY <3>1, <3>3, <3>4
  <2> QED BY <1>2, <2>1, <2>2, <2>3, Zenon DEF Work
<1>3. ASSUME NEW S \in SUBSET Jobs, Enqueue(S), UNCHANGED <<start, queue, worker, lost>>
      PROVE  OnItsWay(k)'
  <2>1. CASE k \in S
    <3>1. outbox'[k] = outbox[k] + 1 /\ queue'[k] = queue[k]
      BY <1>3, <2>1 DEF Enqueue
    <3> QED BY <3>1
  <2>2. CASE k \notin S
    <3>1. outbox'[k] = outbox[k] + 0 /\ status'[k] = status[k]
      BY <1>3, <2>2 DEF Enqueue
    <3> QED BY <1>3, <3>1
  <2> QED BY <2>1, <2>2
<1>4. CASE GroupRequest
  <2>1. ASSUME NEW g \in Groups, NEW S \in SUBSET Jobs, NEW execute \in BOOLEAN,
               CreateGroup(g, S, execute)
        PROVE  OnItsWay(k)'
    BY <1>3, <2>1 DEF CreateGroup
  <2>2. ASSUME NEW g \in Groups, StartGroup(g) PROVE OnItsWay(k)'
    <3>1. MembersOf(g) \in SUBSET Jobs
      BY DEF MembersOf
    <3> QED BY <1>3, <2>2, <3>1 DEF StartGroup
  <2> QED BY <1>4, <2>1, <2>2 DEF GroupRequest
<1>5. ASSUME NEW S \in SUBSET Jobs, SendFails(S) PROVE OnItsWay(k)'
  BY <1>5 DEF SendFails
<1>6. CASE Failure BY <1>5, <1>6 DEF Failure
<1>7. CASE Crash BY <1>7 DEF Crash
<1>8. CASE UNCHANGED vars BY <1>8 DEF vars
<1> QED BY <1>1, <1>2, <1>4, <1>6, <1>7, <1>8, StepKinds

\* No job is left "queued" with nobody to run it, however requests and workers
\* interleave, unless a message for it was lost.
THEOREM QueuedArrives == Spec => []QueuedIsOnItsWay
<1>1. Init => WayInv
  BY InitTypeOK DEF Init, WayInv, Awaited
<1>2. WayInv => QueuedIsOnItsWay
  BY DEF WayInv, QueuedIsOnItsWay, Awaited, OnItsWay
<1> QED BY <1>1, <1>2, NextWayInv, PTL DEF Spec

-----------------------------------------------------------------------------
(* Groups and the workers that know of them.  A job that is pending, and   *)
(* for which nobody has sent a message, is not in any worker's hands, so   *)
(* that putting it into a group comes too late for no build.               *)

Fresh(j)     == j \notin early /\ status[j] \in {"none", "pending"} /\ start[j] # "sent"
Untouched(j) == outbox[j] = 0 /\ queue[j] = 0 /\ \A w \in Slots : job[w] # j

FreshInv == TypeOK /\ \A j \in Jobs : Fresh(j) => Untouched(j)
SeenInv  == FreshInv /\ GroupIsSeen

LEMMA NextFreshInv == FreshInv /\ [Next]_vars => FreshInv'
<1> SUFFICES ASSUME FreshInv, [Next]_vars, NEW k \in Jobs, Fresh(k)'
             PROVE  Untouched(k)'
  BY NextTypeOK DEF FreshInv
<1>0. /\ TypeOK /\ (Fresh(k) => Untouched(k))
      /\ outbox[k] \in Nat /\ queue[k] \in Nat /\ status[k] \in Statuses
  BY DEF FreshInv, TypeOK
<1> USE <1>0 DEF Fresh, Untouched, rows, mail, worker, history
<1>1. ASSUME NEW j \in Jobs, Request(j) PROVE Untouched(k)'
  <2>1. ASSUME NEW execute \in BOOLEAN, Submit(j, execute) PROVE Untouched(k)'
    BY <2>1 DEF Submit, TypeOK
  <2>2. CASE Send(j) BY <2>2 DEF Send, TypeOK
  <2>3. CASE StartUpdates(j) BY <2>3 DEF StartUpdates, TypeOK, Unlocked
  <2>4. CASE StartSends(j) BY <2>4 DEF StartSends, TypeOK
  <2>5. CASE StartCommits(j) BY <2>5 DEF StartCommits, TypeOK
  <2>6. CASE StartRollsBack(j) BY <2>6 DEF StartRollsBack, TypeOK
  <2>7. CASE CancelFinds(j) BY <2>7 DEF CancelFinds
  <2>8. CASE CancelAsks(j) BY <2>8 DEF CancelAsks, TypeOK
  <2> QED BY <1>1, <2>1, <2>2, <2>3, <2>4, <2>5, <2>6, <2>7, <2>8, Zenon DEF Request
<1>2. ASSUME NEW w \in Slots, Work(w) PROVE Untouched(k)'
  <2>1. ASSUME NEW j \in Jobs, Take(w, j) PROVE Untouched(k)'
    <3>1. Fresh(k) /\ j # k
      BY <2>1 DEF Take
    <3> QED BY <2>1, <3>1 DEF Take, TypeOK
  <2>2. CASE GetJob(w) BY <2>2 DEF GetJob
  <2>3. CASE Build(w)
    <3>1. Fresh(k)
      BY <2>3 DEF Build, TypeOK
    <3> QED BY <2>3, <3>1 DEF Build
  <2>4. CASE End(w)
    <3>1. PICK s \in Final : status' = [status EXCEPT ![job[w]] = s]
      BY <2>4 DEF End
    <3>2. Fresh(k)
      BY <2>4, <3>1, StatusList DEF End, TypeOK
    <3>3. \A v \in Slots : job'[v] # k
      BY <2>4, <3>2, ApiConstants DEF End, TypeOK
    <3> QED BY <2>4, <3>2, <3>3 DEF End
  <2> QED BY <1>2, <2>1, <2>2, <2>3, <2>4, Zenon DEF Work
<1>3. ASSUME NEW S \in SUBSET Jobs, Enqueue(S), UNCHANGED <<early, start, queue, worker>>
      PROVE  Untouched(k)'
  <2>1. k \notin S
    BY <1>3 DEF Enqueue
  <2>2. status'[k] = status[k] /\ outbox'[k] = outbox[k] + 0
    BY <1>3, <2>1 DEF Enqueue
  <2> QED BY <1>3, <2>2
<1>4. CASE GroupRequest
  <2>1. ASSUME NEW g \in Groups, NEW S \in SUBSET Jobs, NEW execute \in BOOLEAN,
               CreateGroup(g, S, execute)
        PROVE  Untouched(k)'
    BY <1>3, <2>1 DEF CreateGroup
  <2>2. ASSUME NEW g \in Groups, StartGroup(g) PROVE Untouched(k)'
    <3>1. MembersOf(g) \in SUBSET Jobs
      BY DEF MembersOf
    <3> QED BY <1>3, <2>2, <3>1 DEF StartGroup
  <2> QED BY <1>4, <2>1, <2>2 DEF GroupRequest
<1>5. ASSUME NEW S \in SUBSET Jobs, SendFails(S) PROVE Untouched(k)'
  BY <1>5 DEF SendFails
<1>6. CASE Failure BY <1>5, <1>6 DEF Failure
<1>7. CASE Crash BY <1>7, ApiConstants DEF Crash
<1>8. CASE UNCHANGED vars BY <1>8 DEF vars
<1> QED BY <1>1, <1>2, <1>4, <1>6, <1>7, <1>8, StepKinds

LEMMA NextGroupIsSeen ==
  ASSUME SeenInv, [Next]_vars
  PROVE  GroupIsSeen'
<1> SUFFICES ASSUME NEW v \in Slots, phase'[v] \in {"read", "building"}, job'[v] \notin early'
             PROVE  seen'[v] = member'[job'[v]]
  BY DEF GroupIsSeen
<1>0. /\ TypeOK
      /\ phase[v] \in {"read", "building"} /\ job[v] \notin early => seen[v] = member[job[v]]
      /\ phase[v] # "idle" => job[v] \in Jobs
  BY BusyType DEF SeenInv, FreshInv, GroupIsSeen, Busy
<1> USE <1>0 DEF rows, mail, worker, history
<1>1. ASSUME NEW j \in Jobs, Request(j) PROVE seen'[v] = member'[job'[v]]
  BY <1>1 DEF Request, Submit, Send, StartUpdates, StartSends, StartCommits,
              StartRollsBack, CancelFinds, CancelAsks
<1>2. ASSUME NEW w \in Slots, Work(w) PROVE seen'[v] = member'[job'[v]]
  <2>1. ASSUME NEW j \in Jobs, Take(w, j) PROVE seen'[v] = member'[job'[v]]
    BY <2>1 DEF Take, TypeOK
  <2>2. CASE GetJob(w) BY <2>2 DEF GetJob, TypeOK
  <2>3. CASE Build(w) BY <2>3 DEF Build, TypeOK
  <2>4. CASE End(w) BY <2>4 DEF End, TypeOK
  <2> QED BY <1>2, <2>1, <2>2, <2>3, <2>4, Zenon DEF Work
<1>3. ASSUME NEW g \in Groups, NEW S \in SUBSET Jobs, NEW execute \in BOOLEAN,
             CreateGroup(g, S, execute)
      PROVE  seen'[v] = member'[job'[v]]
  <2>1. UNCHANGED <<early, job, phase, seen>>
    BY <1>3 DEF CreateGroup
  <2>2. job[v] \in Jobs /\ job[v] \notin early
    BY <2>1
  <2>3. job[v] \notin S
    <3>1. CASE job[v] \in S
      <4>1. Fresh(job[v])
        BY <1>3, <2>2, <3>1 DEF CreateGroup, Fresh, Unlocked
      <4> QED BY <2>2, <4>1 DEF SeenInv, FreshInv, Untouched
    <3> QED BY <3>1
  <2>4. member'[job[v]] = member[job[v]]
    BY <1>3, <2>2, <2>3 DEF CreateGroup
  <2> QED BY <2>1, <2>4
<1>4. ASSUME NEW g \in Groups, StartGroup(g) PROVE seen'[v] = member'[job'[v]]
  BY <1>4 DEF StartGroup
<1>5. CASE GroupRequest BY <1>3, <1>4, <1>5 DEF GroupRequest
<1>6. CASE Failure BY <1>6 DEF Failure, SendFails
<1>7. CASE Crash BY <1>7 DEF Crash
<1>8. CASE UNCHANGED vars BY <1>8 DEF vars
<1> QED BY <1>1, <1>2, <1>5, <1>6, <1>7, <1>8, StepKinds

\* Whatever fails, and however often jobs and groups are started: a build whose
\* message was not sent for a job that stayed pending knows the group of its
\* job, and will look at it when it is over.
THEOREM GroupSeen == Spec => []GroupIsSeen
<1>1. Init => SeenInv
  BY InitTypeOK, ApiConstants DEF Init, SeenInv, FreshInv, Fresh, Untouched, GroupIsSeen
<1>2. SeenInv /\ [Next]_vars => SeenInv'
  BY NextFreshInv, NextGroupIsSeen DEF SeenInv
<1>3. SeenInv => GroupIsSeen
  BY DEF SeenInv
<1> QED BY <1>1, <1>2, <1>3, PTL DEF Spec

-----------------------------------------------------------------------------
(* The last member to end reports its group: a member that is not over yet *)
(* is pending, on its way or with a worker.                                *)

\* A row that says running has a worker, unless that died.
AtWork(j) == j \in lost \/ \E w \in Slots : job[w] = j /\ phase[w] = "building"

RunningInv == \A j \in Jobs : status[j] = "running" => AtWork(j)

\* A cancel request has found its job running, so that it was submitted and is
\* not pending any more; jobs are put into groups after they were submitted.
PastInv ==
  \A j \in Jobs : /\ j \in asking => status[j] \notin {"none", "pending"}
                  /\ status[j] = "none" => member[j] = NoGroup

QuietInv == WayInv /\ SeenInv /\ RunningInv /\ PastInv /\ QuietGroupIsReported

LEMMA NextRunningInv == TypeOK /\ RunningInv /\ [Next]_vars => RunningInv'
<1> SUFFICES ASSUME TypeOK, RunningInv, [Next]_vars, NEW k \in Jobs, status'[k] = "running"
             PROVE  AtWork(k)'
  BY DEF RunningInv
<1>0. status[k] = "running" => AtWork(k)
  BY DEF RunningInv
<1> USE <1>0 DEF AtWork, TypeOK, mail, worker, history, rows
<1>1. ASSUME NEW j \in Jobs, Request(j) PROVE AtWork(k)'
  BY <1>1 DEF Request, Submit, Send, StartUpdates, StartSends, StartCommits,
              StartRollsBack, CancelFinds, CancelAsks
<1>2. ASSUME NEW w \in Slots, Work(w) PROVE AtWork(k)'
  <2>1. ASSUME NEW j \in Jobs, Take(w, j) PROVE AtWork(k)'
    BY <2>1 DEF Take
  <2>2. CASE GetJob(w) BY <2>2 DEF GetJob
  <2>3. CASE Build(w)
    <3>1. job[w] \in Jobs
      BY <2>3, BusyType DEF Build, Busy
    <3>2. CASE job[w] = k
      <4>1. job'[w] = k /\ phase'[w] = "building"
        BY <2>3, <3>2 DEF Build
      <4> QED BY <4>1
    <3>3. CASE job[w] # k
      <4>1. status[k] = "running"
        BY <2>3, <3>3 DEF Build
      <4> QED BY <2>3, <4>1 DEF Build
    <3> QED BY <3>2, <3>3
  <2>4. CASE End(w)
    <3>1. job[w] # k /\ status[k] = "running"
      BY <2>4, StatusList DEF End
    <3>2. ASSUME NEW v \in Slots, job[v] = k PROVE job'[v] = k /\ phase'[v] = phase[v]
      BY <2>4, <3>1, <3>2 DEF End
    <3> QED BY <2>4, <3>1, <3>2 DEF End
  <2> QED BY <1>2, <2>1, <2>2, <2>3, <2>4, Zenon DEF Work
<1>3. ASSUME NEW S \in SUBSET Jobs, Enqueue(S) PROVE status[k] = "running"
  BY <1>3 DEF Enqueue
<1>4. CASE GroupRequest
  <2>1. UNCHANGED <<job, phase, lost>>
    BY <1>4 DEF GroupRequest, CreateGroup, StartGroup
  <2>2. ASSUME NEW g \in Groups, StartGroup(g) PROVE status[k] = "running"
    <3>1. MembersOf(g) \in SUBSET Jobs
      BY DEF MembersOf
    <3> QED BY <1>3, <2>2, <3>1 DEF StartGroup
  <2>3. status[k] = "running"
    BY <1>3, <1>4, <2>2 DEF GroupRequest, CreateGroup
  <2> QED BY <2>1, <2>3
<1>5. CASE Failure BY <1>5 DEF Failure, SendFails
<1>6. CASE Crash
  <2>1. status[k] = "running" /\ lost \subseteq lost'
    BY <1>6 DEF Crash
  <2> QED BY <1>6, <2>1 DEF Crash
<1>7. CASE UNCHANGED vars BY <1>7 DEF vars
<1> QED BY <1>1, <1>2, <1>4, <1>5, <1>6, <1>7, StepKinds

LEMMA NextPastInv == TypeOK /\ PastInv /\ [Next]_vars => PastInv'
<1> SUFFICES ASSUME TypeOK, PastInv, [Next]_vars, NEW k \in Jobs
             PROVE  /\ k \in asking' => status'[k] \notin {"none", "pending"}
                    /\ status'[k] = "none" => member'[k] = NoGroup
  BY DEF PastInv
<1> DEFINE Kept == /\ k \in asking' => status'[k] \notin {"none", "pending"}
                   /\ status'[k] = "none" => member'[k] = NoGroup
<1>0. /\ k \in asking => status[k] \notin {"none", "pending"}
      /\ status[k] = "none" => member[k] = NoGroup
  BY DEF PastInv
<1> USE <1>0 DEF TypeOK, mail, worker, history, rows
<1>1. ASSUME NEW j \in Jobs, Request(j) PROVE Kept
  BY <1>1 DEF Request, Submit, Send, StartUpdates, StartSends, StartCommits,
              StartRollsBack, CancelFinds, CancelAsks
<1>2. ASSUME NEW w \in Slots, Work(w) PROVE Kept
  BY <1>2, StatusList DEF Work, Take, GetJob, Build, End
<1>3. ASSUME NEW S \in SUBSET Jobs, Enqueue(S)
      PROVE  status'[k] = status[k] \/ status'[k] = "queued"
  BY <1>3 DEF Enqueue
<1>4. ASSUME NEW g \in Groups, NEW S \in SUBSET Jobs, NEW execute \in BOOLEAN,
             CreateGroup(g, S, execute)
      PROVE  Kept
  <2>1. status'[k] = status[k] \/ status'[k] = "queued"
    BY <1>3, <1>4 DEF CreateGroup
  <2>2. asking' = asking /\ (status[k] = "none" => member'[k] = member[k])
    BY <1>4 DEF CreateGroup
  <2> QED BY <2>1, <2>2
<1>5. ASSUME NEW g \in Groups, StartGroup(g) PROVE Kept
  <2>1. MembersOf(g) \in SUBSET Jobs
    BY DEF MembersOf
  <2>2. status'[k] = status[k] \/ status'[k] = "queued"
    BY <1>3, <1>5, <2>1 DEF StartGroup
  <2> QED BY <1>5, <2>2 DEF StartGroup
<1>6. CASE GroupRequest BY <1>4, <1>5, <1>6 DEF GroupRequest
<1>7. CASE Failure BY <1>7 DEF Failure, SendFails
<1>8. CASE Crash BY <1>8 DEF Crash
<1>9. CASE UNCHANGED vars BY <1>9 DEF vars
<1> QED BY <1>1, <1>2, <1>6, <1>7, <1>8, <1>9, StepKinds

\* The job is over for good, as far as messages go.
Over(j) == status[j] \in Final /\ ~InHand(j)

\* A member that is not over is pending, or in somebody's hands.
LEMMA NotOver ==
  ASSUME QuietInv, NEW k \in Jobs, member[k] # NoGroup, k \notin lost, ~Over(k)
  PROVE  status[k] = "pending" \/ InHand(k)
<1>1. status[k] \in Statuses /\ status[k] # "none"
  BY DEF QuietInv, WayInv, TypeOK, PastInv
<1>2. status[k] = "queued" => InHand(k)
  BY DEF QuietInv, WayInv, Awaited, OnItsWay, InHand
<1>3. status[k] = "running" => InHand(k)
  BY DEF QuietInv, RunningInv, AtWork, InHand
<1> QED BY <1>1, <1>2, <1>3, StatusList DEF Over

\* Only the worker that ends a build makes its job over.
LEMMA EndsIt ==
  ASSUME QuietInv, [Next]_vars, NEW k \in Jobs, member[k] # NoGroup,
         Over(k)', ~Over(k), k \notin lost'
  PROVE  \E w \in Slots : job[w] = k /\ End(w)
<1> SUFFICES ASSUME \A w \in Slots : job[w] = k => ~End(w) PROVE FALSE
  OBVIOUS
<1>0. /\ TypeOK /\ outbox[k] \in Nat /\ queue[k] \in Nat
      /\ k \in asking => status[k] # "pending"
      /\ lost \subseteq lost'
  BY DEF QuietInv, WayInv, PastInv, TypeOK, Next, vars, rows, mail, worker, history, Submit,
     Send, StartUpdates, StartSends, StartCommits, StartRollsBack, CancelFinds, CancelAsks,
     Take, SendFails, CreateGroup, StartGroup, GetJob, Build, End, Crash
<1>1. status[k] = "pending" \/ InHand(k)
  BY <1>0, NotOver
<1>2. status'[k] \in Final /\ ~InHand(k)'
  BY DEF Over
<1> USE <1>0, StatusList DEF TypeOK, mail, worker, history, rows
<1>3. ASSUME NEW j \in Jobs, Request(j) PROVE FALSE
  <2>1. status[k] # "pending"
    BY <1>2, <1>3 DEF Request, Submit, Send, StartUpdates, StartSends, StartCommits,
       StartRollsBack, CancelFinds, CancelAsks
  <2>2. UNCHANGED <<job>> /\ outbox'[k] + queue'[k] >= outbox[k] + queue[k]
    <3>1. ASSUME NEW execute \in BOOLEAN, Submit(j, execute)
          PROVE  UNCHANGED <<job>> /\ outbox'[k] + queue'[k] >= outbox[k] + queue[k]
      BY <3>1 DEF Submit
    <3>2. CASE Send(j) BY <3>2 DEF Send
    <3>3. CASE StartSends(j) BY <3>3 DEF StartSends
    <3>4. CASE \/ StartUpdates(j) \/ StartCommits(j) \/ StartRollsBack(j)
               \/ CancelFinds(j) \/ CancelAsks(j)
      BY <3>4 DEF StartUpdates, StartCommits, StartRollsBack, CancelFinds, CancelAsks
    <3> QED BY <1>3, <3>1, <3>2, <3>3, <3>4, Zenon DEF Request
  <2>3. outbox'[k] \in Nat /\ queue'[k] \in Nat
    BY NextTypeOK
  <2> QED BY <1>1, <1>2, <2>1, <2>2, <2>3 DEF InHand
<1>4. ASSUME NEW w \in Slots, Work(w) PROVE FALSE
  <2>1. ASSUME NEW j \in Jobs, Take(w, j) PROVE FALSE
    <3>1. status[k] # "pending"
      BY <1>2, <2>1 DEF Take
    <3>2. CASE j = k
      <4>1. job'[w] = k
        BY <2>1, <3>2 DEF Take
      <4> QED BY <1>2, <4>1 DEF InHand
    <3>3. CASE j # k
      <4>1. outbox'[k] = outbox[k] /\ queue'[k] = queue[k]
        BY <2>1, <3>3 DEF Take
      <4>2. \A v \in Slots : job[v] = k => job'[v] = k
        BY <2>1, BusyType, ApiConstants DEF Take, Busy
      <4> QED BY <1>1, <1>2, <3>1, <4>1, <4>2 DEF InHand
    <3> QED BY <3>2, <3>3
  <2>2. CASE GetJob(w) \/ Build(w)
    BY <1>1, <1>2, <2>2 DEF GetJob, Build, InHand
  <2>3. CASE End(w)
    <3>1. job[w] # k
      BY <2>3
    <3>2. status[k] # "pending" /\ \A v \in Slots : job[v] = k => job'[v] = k
      BY <1>2, <2>3, <3>1 DEF End
    <3> QED BY <1>1, <1>2, <2>3, <3>2 DEF End, InHand
  <2> QED BY <1>4, <2>1, <2>2, <2>3, Zenon DEF Work
<1>5. ASSUME NEW S \in SUBSET Jobs, Enqueue(S), UNCHANGED <<queue, job>> PROVE FALSE
  <2>1. k \notin S
    BY <1>2, <1>5 DEF Enqueue
  <2>2. status'[k] = status[k] /\ outbox'[k] = outbox[k] + 0
    BY <1>5, <2>1 DEF Enqueue
  <2> QED BY <1>1, <1>2, <1>5, <2>2 DEF InHand
<1>6. CASE GroupRequest
  <2>1. ASSUME NEW g \in Groups, NEW S \in SUBSET Jobs, NEW execute \in BOOLEAN,
               CreateGroup(g, S, execute)
        PROVE  FALSE
    BY <1>1, <1>2, <1>5, <2>1 DEF CreateGroup, InHand
  <2>2. ASSUME NEW g \in Groups, StartGroup(g) PROVE FALSE
    <3>1. MembersOf(g) \in SUBSET Jobs
      BY DEF MembersOf
    <3> QED BY <1>5, <2>2, <3>1 DEF StartGroup
  <2> QED BY <1>6, <2>1, <2>2 DEF GroupRequest
<1>7. ASSUME NEW S \in SUBSET Jobs, SendFails(S) PROVE FALSE
  BY <1>1, <1>2, <1>7 DEF SendFails, InHand
<1>8. CASE Failure BY <1>7, <1>8 DEF Failure
<1>9. CASE Crash
  BY <1>1, <1>2, <1>9 DEF Crash, InHand
<1>10. CASE UNCHANGED vars
  BY <1>1, <1>2, <1>10 DEF vars, InHand
<1> QED BY <1>3, <1>4, <1>6, <1>8, <1>9, <1>10, StepKinds

\* The members of a group that is over were its members before.
LEMMA MembersStay ==
  ASSUME QuietInv, [Next]_vars, NEW g \in Groups, MembersOf(g)' # {},
         \A k \in MembersOf(g)' : Over(k)'
  PROVE  MembersOf(g)' = MembersOf(g)
<1>0. TypeOK
  BY DEF QuietInv, WayInv
<1>1. ASSUME NEW h \in Groups, NEW S \in (SUBSET Jobs) \ {{}}, NEW execute \in BOOLEAN,
             CreateGroup(h, S, execute)
      PROVE  MembersOf(g)' = MembersOf(g)
  <2>1. \A k \in S : status'[k] \in {"pending", "queued"}
    BY <1>0, <1>1 DEF CreateGroup, Enqueue, TypeOK
  <2>2. \A k \in S : status'[k] \notin Final
    BY <2>1, StatusList
  <2>3. \A k \in S : k \notin MembersOf(g)'
    BY <2>2 DEF Over
  <2>4. \A k \in S : member[k] = NoGroup
    BY <1>1 DEF CreateGroup
  <2>5. \A k \in Jobs \ S : member'[k] = member[k]
    BY <1>1 DEF CreateGroup
  <2> QED BY <2>3, <2>4, <2>5, ApiConstants DEF MembersOf
<1>2. (\E h \in Groups, S \in (SUBSET Jobs) \ {{}}, execute \in BOOLEAN : CreateGroup(h, S, execute))
        \/ UNCHANGED member
  BY StepKinds DEF Request, Submit, Send, StartUpdates, StartSends, StartCommits, StartRollsBack,
     CancelFinds, CancelAsks, Work, Take, GetJob, Build, End, GroupRequest, StartGroup,
     Failure, SendFails, Crash, vars, rows
<1> QED BY <1>1, <1>2 DEF MembersOf

LEMMA NextQuiet == QuietInv /\ [Next]_vars => QuietGroupIsReported'
<1> SUFFICES ASSUME QuietInv, [Next]_vars, NEW g \in Groups, MembersOf(g)' # {},
                    \A k \in MembersOf(g)' : Over(k)' /\ k \notin (early \cup lost)'
             PROVE  g \in reported'
  BY DEF QuietGroupIsReported, Over
<1>1. MembersOf(g)' = MembersOf(g)
  BY MembersStay
<1>2. /\ TypeOK
      /\ early \subseteq early' /\ lost \subseteq lost' /\ reported \subseteq reported'
  BY DEF QuietInv, WayInv, TypeOK, Next, vars, rows, mail, worker, history, Submit,
     Send, StartUpdates, StartSends, StartCommits, StartRollsBack, CancelFinds, CancelAsks,
     Take, SendFails, CreateGroup, StartGroup, GetJob, Build, End, Crash
<1>3. CASE \A k \in MembersOf(g) : Over(k)
  <2>1. g \in reported
    BY <1>1, <1>2, <1>3 DEF QuietInv, QuietGroupIsReported, Over
  <2> QED BY <1>2, <2>1
<1>4. ASSUME NEW k \in MembersOf(g), ~Over(k) PROVE g \in reported'
  <2>1. k \in Jobs /\ member[k] = g /\ g # NoGroup
    BY ApiConstants DEF MembersOf
  <2>2. PICK w \in Slots : job[w] = k /\ End(w)
    BY <1>1, <1>4, <2>1, EndsIt
  <2>3. k \notin early
    BY <1>1, <1>2
  <2>4. seen[w] = g
    BY <2>1, <2>2, <2>3 DEF QuietInv, SeenInv, GroupIsSeen, End
  <2>5. \A j \in MembersOf(g) : status'[j] \in Final
    BY <1>1 DEF Over
  <2>6. reported' = reported \cup
          {h \in Groups : seen[w] = h /\ \A j \in MembersOf(h) : status'[j] \in Final}
    BY <2>2 DEF End
  <2> QED BY <2>4, <2>5, <2>6
<1> QED BY <1>3, <1>4

\* The triggers of a group whose builds all know of it are processed when the last
\* of them has ended, for groups of any size and whatever else is requested:
\* nothing but a lost message, or one that came before the group, keeps a group
\* that is over from being reported.
THEOREM QuietGroupsAreReported == Spec => []QuietGroupIsReported
<1>1. Init => QuietInv
  BY InitTypeOK, ApiConstants DEF Init, QuietInv, WayInv, Awaited, SeenInv, FreshInv, Fresh,
     Untouched, GroupIsSeen, RunningInv, PastInv, QuietGroupIsReported, MembersOf
<1>2. QuietInv /\ [Next]_vars => QuietInv'
  BY NextWayInv, NextFreshInv, NextGroupIsSeen, NextRunningInv, NextPastInv, NextQuiet
     DEF QuietInv, SeenInv, WayInv
<1>3. QuietInv => QuietGroupIsReported
  BY DEF QuietInv
<1> QED BY <1>1, <1>2, <1>3, PTL DEF Spec
=============================================================================
