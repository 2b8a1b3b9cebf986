---------------------------- MODULE ListingProofs ---------------------------
(***************************************************************************)
(* Proofs about Listing for pages of any size and any number of rows.      *)
(***************************************************************************)
EXTENDS Listing, FiniteSetTheorems, TLAPS

\* What other requests may do to the table.
Other ==
  \/ Insert
  \/ \E i \in 1 .. MaxId : \/ Commit(i) \/ Rollback(i) \/ SetVisibility(i)
                           \/ SecretDelete(i) \/ DeleteUserWebhook(i)

LEMMA StepTypes ==
  ASSUME [Next]_vars
  PROVE  \/ NewestFirst
         \/ list = "subscriptions" /\ OldestFirst
         \/ Other
         \/ UNCHANGED vars
  BY DEF Next, Request, ListJobs, ListSecrets, ListDeliveries, ListSubscriptions, Other

-----------------------------------------------------------------------------
(* Type correctness.                                                       *)

LEMMA OtherType ==
  ASSUME TypeOK, Other
  PROVE  TypeOK'
<1> USE ListingConstants DEF TypeOK, client
<1>1. CASE Insert BY <1>1 DEF Insert
<1>2. ASSUME NEW i \in 1 .. MaxId, Commit(i) PROVE TypeOK' BY <1>2 DEF Commit
<1>3. ASSUME NEW i \in 1 .. MaxId, Rollback(i) PROVE TypeOK' BY <1>3 DEF Rollback
<1>4. ASSUME NEW i \in 1 .. MaxId, SetVisibility(i) PROVE TypeOK'
  BY <1>4 DEF SetVisibility, Lose
<1>5. ASSUME NEW i \in 1 .. MaxId, SecretDelete(i) PROVE TypeOK'
  BY <1>5 DEF SecretDelete, Lose
<1>6. ASSUME NEW i \in 1 .. MaxId, DeleteUserWebhook(i) PROVE TypeOK'
  BY <1>6 DEF DeleteUserWebhook, Lose
<1> QED BY <1>1, <1>2, <1>3, <1>4, <1>5, <1>6 DEF Other

LEMMA PageType ==
  ASSUME TypeOK, NewestFirst \/ OldestFirst
  PROVE  TypeOK'
<1>1. PICK page \in SUBSET Matching :
        FinalPage(page) \/ \E last \in page : FullPage(page, last)
  BY DEF NewestFirst, OldestFirst
<1>2. page \subseteq rows
  BY DEF Matching
<1>3. UNCHANGED <<list, table>>
  BY DEF NewestFirst, OldestFirst
<1> USE <1>2, <1>3 DEF TypeOK, table, Return
<1>4. CASE FinalPage(page) BY <1>4 DEF FinalPage
<1>5. ASSUME NEW last \in page, FullPage(page, last) PROVE TypeOK' BY <1>5 DEF FullPage
<1> QED BY <1>1, <1>4, <1>5

LEMMA NextType == TypeOK /\ [Next]_vars => TypeOK'
<1>1. TypeOK /\ UNCHANGED vars => TypeOK'
  BY DEF TypeOK, vars, table, client
<1> QED BY <1>1, StepTypes, OtherType, PageType

\* Every variable keeps its type: ids are those that were handed out, and what
\* is returned or pointed at by a cursor was in the table.
THEOREM TypeCorrect == Spec => []TypeOK
<1>1. Init => TypeOK
  BY ListingConstants DEF Init, TypeOK
<1> QED BY <1>1, NextType, PTL DEF Spec

-----------------------------------------------------------------------------
(* Where a walk newest first has got to: every row returned has an id above *)
(* the cursor, and every row that stayed has been returned or is still at  *)
(* the cursor or below it.                                                 *)

Progress ==
  Sorted =>
    /\ repeated = {}
    /\ walk = "start" => returned = {} /\ stayed = {}
    /\ walk = "more" => /\ \A i \in returned : next < i
                        /\ \A i \in stayed : i <= next \/ i \in returned
    /\ walk = "over" => stayed \subseteq returned

WalkInv == TypeOK /\ Progress

LEMMA OtherProgress ==
  ASSUME WalkInv, Other
  PROVE  Progress'
<1>1. UNCHANGED <<list, client>> /\ stayed' \subseteq stayed
  BY DEF Other, Insert, Commit, Rollback, SetVisibility, SecretDelete, DeleteUserWebhook, Lose
<1> QED BY <1>1 DEF WalkInv, Progress, Sorted, client

LEMMA PageProgress ==
  ASSUME WalkInv, NewestFirst, Sorted
  PROVE  Progress'
<1>1. PICK page \in SUBSET Matching :
        /\ Limited(page)
        /\ \A i \in page, k \in Matching \ page : k < i
        /\ \/ FinalPage(page)
           \/ \E last \in page : (\A i \in page : last <= i) /\ FullPage(page, last)
  BY DEF NewestFirst
<1>2. walk # "over" /\ UNCHANGED <<list, table>>
  BY DEF NewestFirst
<1>3. page \cap returned = {}
  BY <1>2 DEF WalkInv, TypeOK, Progress, Matching
<1>4. \A i \in stayed' : i \in Matching \/ i \in returned
  BY <1>1, <1>2 DEF WalkInv, TypeOK, Progress, Matching, FinalPage, FullPage, Return
<1>5. repeated' = {} /\ Sorted'
  BY <1>1, <1>2, <1>3 DEF WalkInv, Progress, Sorted, FinalPage, FullPage, Return
<1>6. CASE FinalPage(page)
  <2>1. page = Matching
    BY <1>1, <1>6, ListingConstants DEF Limited, FinalPage
  <2> QED BY <1>4, <1>5, <1>6, <2>1 DEF FinalPage, Return, Progress
<1>7. ASSUME NEW last \in page, \A i \in page : last <= i, FullPage(page, last)
      PROVE  Progress'
  <2>1. Matching \subseteq rows /\ rows \subseteq Nat /\ last \in Nat
    BY DEF WalkInv, TypeOK, Matching
  <2>2. \A i \in returned : last < i
    BY <1>2, <2>1 DEF WalkInv, TypeOK, Progress, Matching
  <2>0. next' = last /\ returned' = returned \cup (page \ {last})
    BY <1>7 DEF FullPage, Return
  <2>3. \A i \in returned' : next' < i
    <3>1. \A i \in page \ {last} : last < i
      <4> TAKE i \in page \ {last}
      <4>1. i \in Nat /\ last <= i /\ i # last
        BY <1>7, <2>1
      <4> QED BY <2>1, <4>1
    <3> QED BY <2>0, <2>2, <3>1
  <2>4. \A i \in stayed' : i <= next' \/ i \in returned'
    <3>1. \A i \in Matching \ page : i < last
      BY <1>1
    <3>2. \A i \in Matching : i <= last \/ i \in page \ {last}
      BY <2>1, <3>1
    <3> QED BY <1>4, <2>0, <3>2
  <2> QED BY <1>5, <1>7, <2>3, <2>4 DEF FullPage, Progress
<1> QED BY <1>1, <1>6, <1>7

LEMMA NextWalkInv == WalkInv /\ [Next]_vars => WalkInv'
<1> SUFFICES ASSUME WalkInv, [Next]_vars PROVE Progress'
  BY NextType DEF WalkInv
<1>1. CASE NewestFirst
  <2>1. ~Sorted => ~Sorted'
    BY <1>1 DEF NewestFirst, Sorted
  <2> QED BY <1>1, <2>1, PageProgress DEF Progress
<1>2. CASE list = "subscriptions" /\ OldestFirst
  BY <1>2 DEF OldestFirst, Progress, Sorted
<1>3. CASE UNCHANGED vars
  BY <1>3 DEF WalkInv, Progress, Sorted, vars, client
<1> QED BY <1>1, <1>2, <1>3, OtherProgress, StepTypes

LEMMA InitWalkInv == Init => WalkInv
  BY ListingConstants DEF Init, WalkInv, TypeOK, Progress

\* No list sorted newest first shows a row on two pages, whatever the size of
\* the pages and whatever happens between two requests.
THEOREM OncePerWalk == Spec => []ReturnedOnce
<1>1. WalkInv => ReturnedOnce BY DEF WalkInv, Progress, ReturnedOnce
<1> QED BY <1>1, InitWalkInv, NextWalkInv, PTL DEF Spec

\* When a client is told that there are no more results, it has been given
\* every row that was in the list all the time.
THEOREM WholeListWalked == Spec => []NothingMissed
<1>1. WalkInv => NothingMissed BY DEF WalkInv, Progress, NothingMissed
<1> QED BY <1>1, InitWalkInv, NextWalkInv, PTL DEF Spec
-----------------------------------------------------------------------------
(* How far a page takes a walk.                                            *)

LEMMA IdsFinite ==
  ASSUME TypeOK, NEW page \in SUBSET rows
  PROVE  IsFiniteSet(page) /\ Cardinality(page) \in Nat
<1>1. issued \in Nat /\ page \subseteq 1 .. issued
  BY ListingConstants DEF TypeOK
<1>2. IsFiniteSet(1 .. issued)
  BY <1>1, FS_Interval
<1> QED BY <1>1, <1>2, FS_Subset, FS_CardinalityType

\* A page with a row too many has another row beside the last.
LEMMA FullPageHas ==
  ASSUME TypeOK, NEW page \in SUBSET rows, NEW last \in page, Limited(page),
         FullPage(page, last)
  PROVE  /\ Cardinality(page \ {last}) = Count
         /\ page \ {last} # {}
<1>1. Count \in Nat \ {0} /\ Cardinality(page) = Count + 1
  BY ListingConstants, IdsFinite DEF Limited, FullPage
<1>2. Cardinality(page \ {last}) = Cardinality(page) - 1
  BY IdsFinite, FS_RemoveElement
<1>3. Cardinality({}) = 0
  BY FS_EmptySet
<1> QED BY <1>1, <1>2, <1>3

LEMMA PageAdvances ==
  ASSUME WalkInv, Sorted, NewestFirst, walk' = "more"
  PROVE  /\ Cardinality(returned' \ returned) = Count
         /\ walk = "more" => next' < next
<1>1. PICK page \in SUBSET Matching :
        /\ Limited(page)
        /\ \/ FinalPage(page)
           \/ \E last \in page : (\A i \in page : last <= i) /\ FullPage(page, last)
  BY DEF NewestFirst
<1>2. PICK last \in page : (\A i \in page : last <= i) /\ FullPage(page, last)
  BY <1>1 DEF FinalPage
<1>3. page \subseteq rows /\ rows \subseteq Nat /\ next \in Nat
  BY ListingConstants DEF WalkInv, TypeOK, Matching
<1>4. Cardinality(page \ {last}) = Count /\ page \ {last} # {}
  BY <1>1, <1>2, <1>3, FullPageHas DEF WalkInv
<1>5. page \cap returned = {}
  <2>1. returned \subseteq Nat /\ walk # "over"
    BY ListingConstants DEF WalkInv, TypeOK, NewestFirst
  <2>2. walk = "start" => returned = {}
    BY DEF WalkInv, Progress
  <2>3. ASSUME walk = "more", NEW i \in page PROVE i \notin returned
    BY <1>3, <2>1, <2>3 DEF WalkInv, Progress, Matching
  <2> QED BY <2>1, <2>2, <2>3 DEF WalkInv, TypeOK
<1>6. next' = last /\ returned' = returned \cup (page \ {last})
  BY <1>2 DEF FullPage, Return
<1>7. Cardinality(returned' \ returned) = Count
  <2>1. returned' \ returned = page \ {last}
    BY <1>5, <1>6
  <2> QED BY <1>4, <2>1
<1>8. ASSUME walk = "more" PROVE next' < next
  <2>1. PICK i \in page : i # last
    BY <1>4
  <2>2. i \in Nat /\ last \in Nat /\ last <= i /\ i <= next
    BY <1>2, <1>3, <1>8, <2>1 DEF Matching
  <2> QED BY <1>3, <1>6, <2>1, <2>2
<1> QED BY <1>7, <1>8

\* Every page but the last is full of rows the client has not seen, and moves
\* the cursor down: with weak fairness of its requests, this is why a walk ends.
THEOREM PagesMoveDown == Spec => PagesAdvance
<1>1. WalkInv /\ [Next]_vars =>
        [Sorted /\ Request /\ walk' = "more" =>
           /\ Cardinality(returned' \ returned) = Count
           /\ walk = "more" => next' < next]_vars
  BY PageAdvances DEF Request, ListJobs, ListSecrets, ListDeliveries, ListSubscriptions, Sorted
<1> QED BY <1>1, InitWalkInv, NextWalkInv, PTL DEF Spec, PagesAdvance
=============================================================================
