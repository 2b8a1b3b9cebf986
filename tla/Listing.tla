------------------------------ MODULE Listing -------------------------------
(***************************************************************************)
(* A client of the GraphQL API that walks through a list page by page,     *)
(* passing back the cursor it was given, while other requests insert and   *)
(* remove rows.  The four lists differ in what may take a row away, and in *)
(* the order of their query: newest first, but for webhook subscriptions.  *)
(***************************************************************************)
EXTENDS Naturals, FiniteSets

CONSTANTS
  Lists,   \* the lists that may be walked
  Count,   \* results on a page, cur.Count
  MaxId    \* bound on the ids handed out

Kinds == {"jobs", "secrets", "deliveries", "subscriptions"}

ASSUME ListingConstants ==
  /\ Lists \subseteq Kinds
  /\ Count \in Nat \ {0}
  /\ MaxId \in Nat

VARIABLES
  list,      \* the list being walked
  issued,    \* the last id its sequence has handed out
  open,      \* ids of rows inserted by transactions that have not committed
  rows,      \* ids of the rows the query finds, but for the cursor
  private,   \* ids of rows its filter leaves out
  walk,      \* no request made yet, more pages to come, null cursor received
  next,      \* the id in the cursor
  stayed,    \* rows found since before the first request until now
  returned,  \* ids of the rows returned so far
  repeated   \* those returned more than once

table  == <<issued, open, rows, private>>
client == <<walk, next, returned, repeated>>
vars   == <<list, table, client, stayed>>

Init ==
  /\ list \in Lists
  /\ issued = 0
  /\ open = {}
  /\ rows = {}
  /\ private = {}
  /\ walk = "start"
  /\ next = 0
  /\ stayed = {}
  /\ returned = {}
  /\ repeated = {}

-----------------------------------------------------------------------------
(* Other requests.                                                         *)

\* Faulty variant: the sequence is not advanced.
InsertUncounted ==
  /\ issued < MaxId
  /\ open' = open \cup {issued + 1}
  /\ UNCHANGED <<list, issued, rows, private, client, stayed>>

\* The sequence hands out an id; the row is seen when its transaction commits,
\* which may be after those of later ids.
Insert ==
  /\ issued < MaxId
  /\ issued' = issued + 1
  /\ open' = open \cup {issued'}
  /\ UNCHANGED <<list, rows, private, client, stayed>>

Commit(i) ==
  /\ i \in open
  /\ open' = open \ {i}
  /\ rows' = rows \cup {i}
  /\ UNCHANGED <<list, issued, private, client, stayed>>

Rollback(i) ==
  /\ i \in open
  /\ open' = open \ {i}
  /\ UNCHANGED <<list, issued, rows, private, client, stayed>>

\* Rows that are gone, or that the filter no longer lets through.
Lose(gone) ==
  /\ rows' = rows \ gone
  /\ stayed' = stayed \ gone

\* The owner of a job takes it out of the sight of others, or shows it again.
SetVisibility(i) ==
  /\ list = "jobs"
  /\ \/ i \in rows /\ Lose({i}) /\ private' = private \cup {i}
     \/ /\ i \in private
        /\ private' = private \ {i}
        /\ rows' = rows \cup {i}
        /\ UNCHANGED stayed
  /\ UNCHANGED <<list, issued, open, client>>

SecretDelete(i) ==
  /\ list = "secrets"
  /\ i \in rows
  /\ Lose({i})
  /\ UNCHANGED <<list, issued, open, private, client>>

\* The subscription goes, and the list of its deliveries with it.
DeleteUserWebhook(i) ==
  /\ i \in rows
  /\ \/ list = "subscriptions" /\ Lose({i})
     \/ list = "deliveries" /\ Lose(rows)
  /\ UNCHANGED <<list, issued, open, private, client>>

-----------------------------------------------------------------------------
(* The walk.                                                               *)

\* Faulty variant: the row the cursor points at is left out.
MatchingBelow == {i \in rows : walk = "more" => i < next}
\* Faulty variant: the cursor is not looked at.
MatchingAll == rows

Matching == {i \in rows : walk = "more" => i <= next}

\* LIMIT Count + 1.
Limited(page) ==
  /\ page \in SUBSET Matching
  /\ Cardinality(page) = Count + 1 \/ (Cardinality(page) <= Count /\ page = Matching)

Return(page) ==
  /\ returned' = returned \cup page
  /\ repeated' = repeated \cup (page \cap returned)
  /\ stayed' = IF walk = "start" THEN rows ELSE stayed

\* Faulty variant: a cursor that no row matches is returned.
FinalPageOpen(page) ==
  /\ Cardinality(page) <= Count
  /\ walk' = "more"
  /\ Return(page)
  /\ next' = 0

\* No row too many: the cursor returned is null.
FinalPage(page) ==
  /\ Cardinality(page) <= Count
  /\ walk' = "over"
  /\ Return(page)
  /\ UNCHANGED next

\* Faulty variant: the row that is one too many is returned as well.
FullPageAndMore(page, last) ==
  /\ Cardinality(page) > Count
  /\ walk' = "more"
  /\ next' = last
  /\ Return(page)

\* The last row is one too many: it is not returned, and its id is the cursor.
FullPage(page, last) ==
  /\ Cardinality(page) > Count
  /\ walk' = "more"
  /\ next' = last
  /\ Return(page \ {last})

\* ORDER BY id DESC
NewestFirst ==
  /\ walk # "over"
  /\ \E page \in SUBSET Matching :
       /\ Limited(page)
       /\ \A i \in page, k \in Matching \ page : k < i
       /\ \/ FinalPage(page)
          \/ \E last \in page : (\A i \in page : last <= i) /\ FullPage(page, last)
  /\ UNCHANGED <<list, table>>

\* ORDER BY id
OldestFirst ==
  /\ walk # "over"
  /\ \E page \in SUBSET Matching :
       /\ Limited(page)
       /\ \A i \in page, k \in Matching \ page : i < k
       /\ \/ FinalPage(page)
          \/ \E last \in page : (\A i \in page : i <= last) /\ FullPage(page, last)
  /\ UNCHANGED <<list, table>>

ListJobs          == list = "jobs" /\ NewestFirst
ListSecrets       == list = "secrets" /\ NewestFirst
ListDeliveries    == list = "deliveries" /\ NewestFirst
ListSubscriptions == list = "subscriptions" /\ OldestFirst

Request == ListJobs \/ ListSecrets \/ ListDeliveries \/ ListSubscriptions

Next ==
  \/ Request
  \/ Insert
  \/ \E i \in 1 .. MaxId : \/ Commit(i) \/ Rollback(i) \/ SetVisibility(i)
                           \/ SecretDelete(i) \/ DeleteUserWebhook(i)

Spec == Init /\ [][Next]_vars

\* The client asks for the next page until there is none.
FairSpec == Spec /\ WF_vars(Request)

-----------------------------------------------------------------------------
(* Properties.                                                             *)

TypeOK ==
  /\ list \in Lists
  /\ issued \in 0 .. MaxId
  /\ open \in SUBSET (1 .. issued)
  /\ rows \in SUBSET (1 .. issued)
  /\ private \in SUBSET (1 .. issued)
  /\ walk \in {"start", "more", "over"}
  /\ next \in 0 .. issued
  /\ stayed \in SUBSET rows
  /\ returned \in SUBSET (1 .. issued)
  /\ repeated \in SUBSET returned

Sorted == list # "subscriptions"

\* A walk through a list sorted newest first returns no row twice, whatever is
\* inserted, committed late, hidden, shown again or deleted between two pages.
ReturnedOnce == Sorted => repeated = {}

\* A row that was there before the first request and has not left the list
\* has been returned when the client is told that there are no more results.
NothingMissed == Sorted /\ walk = "over" => stayed \subseteq returned

\* A page of a list sorted newest first that is not the last has as many rows as
\* were asked for, all of them new to the client, and its cursor is below the one
\* it was asked for with: only so many pages can follow, whatever is inserted.
PagesAdvance ==
  [][Sorted /\ Request /\ walk' = "more" =>
       /\ Cardinality(returned' \ returned) = Count
       /\ walk = "more" => next' < next]_vars

\* A client that keeps asking gets to the end, however fast others insert.
WalkEnds == Sorted => <>(walk = "over")

\* "If there are additional results available, the cursor object may be passed
\* back into the same endpoint to retrieve another page", and webhook
\* subscriptions have an end as well.
SubscriptionsEnd == list = "subscriptions" => <>(walk = "over")
=============================================================================
