----------------------------- MODULE BuildsApi -----------------------------
(***************************************************************************)
(* The GraphQL API in front of the workers: how jobs are submitted,        *)
(* started, grouped and cancelled, and how the message that makes a worker *)
(* run them travels.  The resolvers run concurrently; what keeps them      *)
(* apart is the row locks of PostgreSQL.  A build is reduced to what the   *)
(* API can tell of it; RunBuild and JobGroup have the details.             *)
(***************************************************************************)
EXTENDS Naturals, FiniteSets

CONSTANTS
  Jobs,        \* job ids
  Groups,      \* job group ids
  NoGroup,     \* job_group_id IS NULL
  NoJob,       \* what an idle worker runs
  Slots,       \* the goroutines of the worker process
  MayFail,     \* may Redis, or the API while it sends, fail?
  MayCrash,    \* may the worker process die?
  MaxStarts    \* bound on the start and startGroup requests

ASSUME ApiConstants ==
  /\ NoGroup \notin Groups
  /\ NoJob \notin Jobs
  /\ {MayFail, MayCrash} \subseteq BOOLEAN
  /\ MaxStarts \in Nat

VARIABLES
  status,    \* the status column; "none" before the job is submitted
  member,    \* the job_group_id column
  early,     \* the jobs a message was sent for while they stayed pending
  start,     \* the transaction of a start request on the row of a job
  outbox,    \* messages that request handlers have still to send, per job
  queue,     \* messages in Redis, per job
  job,       \* the job each worker goroutine has a message of
  phase,     \* how far it has come with it
  seen,      \* the job_group_id it read with the job
  known,     \* the jobs in the worker's map, where cancel requests look
  asking,    \* running jobs a cancel request has found and not yet acted on
  lost,      \* the jobs a message of which was lost, unsent or with its worker
  reported,  \* the groups whose triggers were processed
  unknown,   \* jobs cancelled while the worker did not know them
  starts     \* how many of those there were

rows    == <<status, member, early>>
mail    == <<outbox, queue>>
worker  == <<job, phase, seen, known>>
history == <<lost, reported, unknown, starts>>
vars    == <<rows, start, asking, mail, worker, history>>

Failures == {"failed", "timeout", "cancelled"}
Final    == Failures \cup {"success"}
Statuses == Final \cup {"none", "pending", "queued", "running"}

Init ==
  /\ status = [j \in Jobs |-> "none"]
  /\ member = [j \in Jobs |-> NoGroup]
  /\ early = {}
  /\ start = [j \in Jobs |-> "none"]
  /\ outbox = [j \in Jobs |-> 0]
  /\ queue = [j \in Jobs |-> 0]
  /\ job = [w \in Slots |-> NoJob]
  /\ phase = [w \in Slots |-> "idle"]
  /\ seen = [w \in Slots |-> NoGroup]
  /\ known = {}
  /\ asking = {}
  /\ lost = {}
  /\ reported = {}
  /\ unknown = {}
  /\ starts = 0

-----------------------------------------------------------------------------
(* Requests.                                                               *)

\* No transaction holds the row; a statement that updates it would wait.
Unlocked(j) == start[j] = "none"

MembersOf(g) == {j \in Jobs : member[j] = g}

\* A row is inserted and committed, then the message is sent, unless the
\* caller wants the job to wait.  The status stays "pending" until a worker
\* has taken it up.
Submit(j, execute) ==
  /\ status[j] = "none"
  /\ status' = [status EXCEPT ![j] = "pending"]
  /\ early' = IF execute THEN early \cup {j} ELSE early
  /\ outbox' = [outbox EXCEPT ![j] = IF execute THEN @ + 1 ELSE @]
  /\ UNCHANGED <<member, start, asking, queue, worker, history>>

\* The messages of submit, createGroup and startGroup are sent when the
\* transaction is over, one by one.
Send(j) ==
  /\ outbox[j] > 0
  /\ outbox' = [outbox EXCEPT ![j] = @ - 1]
  /\ queue' = [queue EXCEPT ![j] = @ + 1]
  /\ UNCHANGED <<rows, start, asking, worker, history>>

\* The first error ends the request and its other messages are never sent.
SendFails(S) ==
  /\ MayFail
  /\ \A j \in S : outbox[j] > 0
  /\ outbox' = [j \in Jobs |-> IF j \in S THEN outbox[j] - 1 ELSE outbox[j]]
  /\ lost' = lost \cup S
  /\ UNCHANGED <<rows, start, asking, queue, worker, reported, unknown, starts>>

\* Start: the row of a pending job is updated...
StartUpdates(j) ==
  /\ starts < MaxStarts
  /\ starts' = starts + 1
  /\ status[j] = "pending"
  /\ Unlocked(j)
  /\ start' = [start EXCEPT ![j] = "updated"]
  /\ UNCHANGED <<rows, asking, mail, worker, lost, reported, unknown>>

\* ...the message is sent while the transaction is still open...
StartSends(j) ==
  /\ start[j] = "updated"
  /\ start' = [start EXCEPT ![j] = "sent"]
  /\ queue' = [queue EXCEPT ![j] = @ + 1]
  /\ UNCHANGED <<rows, asking, outbox, worker, history>>

\* ...and the new status is committed.
StartCommits(j) ==
  /\ start[j] = "sent"
  /\ start' = [start EXCEPT ![j] = "none"]
  /\ status' = [status EXCEPT ![j] = "queued"]
  /\ UNCHANGED <<member, early, asking, mail, worker, history>>

\* If anything fails the row is pending again, although the message may have
\* been sent.
StartRollsBack(j) ==
  /\ MayFail
  /\ ~Unlocked(j)
  /\ start' = [start EXCEPT ![j] = "none"]
  /\ early' = IF start[j] = "sent" THEN early \cup {j} ELSE early
  /\ UNCHANGED <<status, member, asking, mail, worker, history>>

\* StartJobGroupUnsafe: every job of the group, whatever its status.
Enqueue(S) ==
  /\ status' = [j \in Jobs |-> IF j \in S THEN "queued" ELSE status[j]]
  /\ outbox' = [j \in Jobs |-> outbox[j] + IF j \in S THEN 1 ELSE 0]

\* Faulty variant: the status of the jobs is not looked at.
GroupAnyJobs(g, S, execute) ==
  /\ MembersOf(g) = {}
  /\ \A j \in S : status[j] # "none" /\ Unlocked(j) /\ member[j] = NoGroup
  /\ member' = [j \in Jobs |-> IF j \in S THEN g ELSE member[j]]
  /\ IF execute THEN Enqueue(S) ELSE UNCHANGED <<status, outbox>>
  /\ UNCHANGED <<early, start, asking, queue, worker, history>>

\* All the jobs must be pending and in no group, or nothing is changed.
CreateGroup(g, S, execute) ==
  /\ MembersOf(g) = {}
  /\ \A j \in S : status[j] = "pending" /\ Unlocked(j) /\ member[j] = NoGroup
  /\ member' = [j \in Jobs |-> IF j \in S THEN g ELSE member[j]]
  /\ IF execute THEN Enqueue(S) ELSE UNCHANGED <<status, outbox>>
  /\ UNCHANGED <<early, start, asking, queue, worker, history>>

StartGroup(g) ==
  /\ starts < MaxStarts
  /\ starts' = starts + 1
  /\ MembersOf(g) # {}
  /\ \A j \in MembersOf(g) : Unlocked(j)
  /\ Enqueue(MembersOf(g))
  /\ UNCHANGED <<member, early, start, asking, queue, worker, lost, reported, unknown>>

\* Cancel looks for a running job...
CancelFinds(j) ==
  /\ status[j] = "running"
  /\ asking' = asking \cup {j}
  /\ UNCHANGED <<rows, start, mail, worker, history>>

\* ...and asks its worker, which sets the status if it knows the job, over
\* whatever has been recorded since.  When the worker answers 404 the resolver
\* only changes the job it is about to return.
CancelAsks(j) ==
  /\ j \in asking
  /\ Unlocked(j)
  /\ asking' = asking \ {j}
  /\ IF j \in known
     THEN status' = [status EXCEPT ![j] = "cancelled"] /\ UNCHANGED unknown
     ELSE unknown' = unknown \cup {j} /\ UNCHANGED status
  /\ UNCHANGED <<member, early, start, mail, worker, lost, reported, starts>>

-----------------------------------------------------------------------------
(* The worker.                                                             *)

\* Faulty variant: a message is taken by a worker that is busy.
TakeMore(w, j) ==
  /\ queue[j] > 0
  /\ queue' = [queue EXCEPT ![j] = @ - 1]
  /\ job' = [job EXCEPT ![w] = j]
  /\ UNCHANGED <<rows, start, asking, outbox, phase, seen, known, history>>

\* A goroutine with nothing to do takes a message off the queue.
Take(w, j) ==
  /\ phase[w] = "idle"
  /\ queue[j] > 0
  /\ queue' = [queue EXCEPT ![j] = @ - 1]
  /\ job' = [job EXCEPT ![w] = j]
  /\ phase' = [phase EXCEPT ![w] = "taken"]
  /\ UNCHANGED <<rows, start, asking, outbox, seen, known, history>>

\* GetJob reads the committed row, once.
GetJob(w) ==
  /\ phase[w] = "taken"
  /\ phase' = [phase EXCEPT ![w] = "read"]
  /\ seen' = [seen EXCEPT ![w] = member[job[w]]]
  /\ UNCHANGED <<rows, start, asking, mail, job, known, history>>

\* Faulty variant: the row is written before the start request commits.
BuildUnlocked(w) ==
  /\ phase[w] = "read"
  /\ phase' = [phase EXCEPT ![w] = "building"]
  /\ status' = [status EXCEPT ![job[w]] = "running"]
  /\ known' = known \cup {job[w]}
  /\ UNCHANGED <<member, early, start, asking, mail, job, seen, history>>

\* SetRunner and SetStatus("running") wait for the row.
Build(w) ==
  /\ phase[w] = "read"
  /\ Unlocked(job[w])
  /\ phase' = [phase EXCEPT ![w] = "building"]
  /\ status' = [status EXCEPT ![job[w]] = "running"]
  /\ known' = known \cup {job[w]}
  /\ UNCHANGED <<member, early, start, asking, mail, job, seen, history>>

\* Faulty variant: the triggers of the group are processed before the outcome is
\* recorded.
EndAfterTriggers(w) ==
  /\ phase[w] = "building"
  /\ Unlocked(job[w])
  /\ \E s \in Final :
       /\ status' = [status EXCEPT ![job[w]] = s]
       /\ known' = IF s = "success" THEN known \ {job[w]} ELSE known
  /\ reported' = reported \cup
       {g \in Groups : seen[w] = g /\ \A j \in MembersOf(g) : status[j] \in Final}
  /\ job' = [job EXCEPT ![w] = NoJob]
  /\ phase' = [phase EXCEPT ![w] = "idle"]
  /\ seen' = [seen EXCEPT ![w] = NoGroup]
  /\ UNCHANGED <<member, early, start, asking, mail, lost, unknown, starts>>

\* The outcome is recorded, a success takes the job off the map, and the
\* triggers of the group are processed if this was the last of its jobs.
End(w) ==
  /\ phase[w] = "building"
  /\ Unlocked(job[w])
  /\ \E s \in Final :
       /\ status' = [status EXCEPT ![job[w]] = s]
       /\ known' = IF s = "success" THEN known \ {job[w]} ELSE known
  /\ reported' = reported \cup
       {g \in Groups : seen[w] = g /\ \A j \in MembersOf(g) : status'[j] \in Final}
  /\ job' = [job EXCEPT ![w] = NoJob]
  /\ phase' = [phase EXCEPT ![w] = "idle"]
  /\ seen' = [seen EXCEPT ![w] = NoGroup]
  /\ UNCHANGED <<member, early, start, asking, mail, lost, unknown, starts>>

\* The worker process dies with its builds, and is started again.
Crash ==
  /\ MayCrash
  /\ job' = [w \in Slots |-> NoJob]
  /\ phase' = [w \in Slots |-> "idle"]
  /\ seen' = [w \in Slots |-> NoGroup]
  /\ known' = {}
  /\ lost' = lost \cup {j \in Jobs : \E w \in Slots : job[w] = j}
  /\ UNCHANGED <<rows, start, asking, mail, reported, unknown, starts>>

Next ==
  \/ \E j \in Jobs : \/ \E execute \in BOOLEAN : Submit(j, execute)
                     \/ Send(j) \/ StartUpdates(j) \/ StartSends(j)
                     \/ StartCommits(j) \/ StartRollsBack(j)
                     \/ CancelFinds(j) \/ CancelAsks(j)
                     \/ \E w \in Slots : Take(w, j)
  \/ \E S \in (SUBSET Jobs) \ {{}} : SendFails(S)
  \/ \E g \in Groups : \/ \E S \in (SUBSET Jobs) \ {{}}, execute \in BOOLEAN :
                             CreateGroup(g, S, execute)
                       \/ StartGroup(g)
  \/ \E w \in Slots : GetJob(w) \/ Build(w) \/ End(w)
  \/ Crash

Spec == Init /\ [][Next]_vars

-----------------------------------------------------------------------------
(* Properties.                                                             *)

TypeOK ==
  /\ status \in [Jobs -> Statuses]
  /\ member \in [Jobs -> Groups \cup {NoGroup}]
  /\ early \subseteq Jobs
  /\ start \in [Jobs -> {"none", "updated", "sent"}]
  /\ outbox \in [Jobs -> Nat]
  /\ queue \in [Jobs -> Nat]
  /\ job \in [Slots -> Jobs \cup {NoJob}]
  /\ phase \in [Slots -> {"idle", "taken", "read", "building"}]
  /\ seen \in [Slots -> Groups \cup {NoGroup}]
  /\ {known, asking, lost} \subseteq SUBSET Jobs
  /\ reported \subseteq Groups
  /\ unknown \subseteq Jobs
  /\ starts \in 0 .. MaxStarts
  /\ \A w \in Slots : phase[w] = "idle" <=> job[w] = NoJob

\* A job the table shows as queued is on its way: a message for it is about to
\* be sent, or in Redis, or in the hands of a worker that has still to mark it
\* as running; if not, one was lost.  Start sends the message before it
\* commits; that the worker is not faster than the commit is owed to the lock
\* on the row.
QueuedIsOnItsWay ==
  \A j \in Jobs : status[j] = "queued" =>
    \/ outbox[j] + queue[j] > 0
    \/ \E w \in Slots : job[w] = j /\ phase[w] \in {"taken", "read"}
    \/ j \in lost

\* A build knows of the group of its job, unless a message was sent while the
\* row stayed pending, which only submit does, and a start request that fails:
\* a job that is started later, alone or with its group, cannot be put into a
\* group any more once a worker can get at its message.
GroupIsSeen ==
  \A w \in Slots :
    phase[w] \in {"read", "building"} /\ job[w] \notin early => seen[w] = member[job[w]]

\* A message for a job is about to be sent, or in Redis, or with a worker.
InHand(j) == outbox[j] + queue[j] > 0 \/ \E w \in Slots : job[w] = j

\* When all jobs of a group are over, and no message or worker is left that would
\* look at them again, the triggers of the group have been processed, in whatever
\* order its jobs were started, cancelled, ended and started again; unless a
\* message of one of them was lost, or sent while the job stayed pending, so that
\* it may have been read before the group was there (see CompletionIsReported).
QuietGroupIsReported ==
  \A g \in Groups :
    /\ MembersOf(g) # {}
    /\ \A j \in MembersOf(g) : status[j] \in Final /\ ~InHand(j) /\ j \notin early \cup lost
    => g \in reported

\* "Triggers run upon the completion of all of the jobs in a job group."
CompletionIsReported ==
  \A g \in Groups :
    /\ MembersOf(g) # {}
    /\ \A j \in MembersOf(g) : status[j] \in Final
    /\ \A w \in Slots : phase[w] = "idle"
    => g \in reported

\* "Go ahead and set it to cancelled, so that it does not block anything."
UnknownIsCancelled == \A j \in unknown : status[j] # "running"
=============================================================================
