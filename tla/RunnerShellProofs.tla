------------------------- MODULE RunnerShellProofs --------------------------
(***************************************************************************)
(* Proofs about runner-shell composed with the worker, for any number of   *)
(* sessions, jobs and deliveries.                                          *)
(***************************************************************************)
EXTENDS RunnerShell, LifecycleProofs, FiniteSetTheorems

-----------------------------------------------------------------------------
(* Sessions are users of the worker.                                       *)

\* A session asks the worker for nothing that its HTTP handlers do not do for
\* anybody.
LEMMA SessionAsks ==
  ASSUME NEW s \in Sessions,
         \/ Connect(s) \/ Follow(s) \/ Claim(s) \/ CountIn(s) \/ Login(s)
         \/ Logout(s) \/ CountOut(s) \/ Terminate(s) \/ Die(s)
  PROVE  UNCHANGED vars \/ HttpClaim(Wants[s]) \/ HttpTerminate(Wants[s])
  BY DEF Connect, Follow, Claim, CountIn, Login, Logout, CountOut, Terminate, Die

LEMMA ShellNextIsNext == [ShellNext]_shellVars => [Next]_vars
<1> SUFFICES ASSUME [ShellNext]_shellVars PROVE [Next]_vars
  OBVIOUS
<1>1. CASE UNCHANGED shellVars
  BY <1>1 DEF shellVars
<1>2. CASE Worker
  BY <1>2 DEF Worker, Next
<1>3. ASSUME NEW s \in Sessions,
             \/ Connect(s) \/ Follow(s) \/ Claim(s) \/ CountIn(s) \/ Login(s)
             \/ Logout(s) \/ CountOut(s) \/ Terminate(s) \/ Die(s)
      PROVE  [Next]_vars
  <2>1. Wants[s] \in Jobs
    BY ShellConstants
  <2> QED BY <1>3, <2>1, SessionAsks DEF Next
<1> QED BY <1>1, <1>2, <1>3 DEF ShellNext

\* Whatever sessions do, the worker is the one of RunBuild: what is proved of
\* it, that reported successes are recorded and triggers processed once among
\* it, is true of the composition.
THEOREM ShellIsRunBuild == ShellSpec => Spec
<1>1. ShellInit => Init
  BY DEF ShellInit
<1> QED BY <1>1, ShellNextIsNext, PTL DEF ShellSpec, Spec

\* Nor can sessions make the status of a job do anything the life cycle forbids,
\* whoever terminates which build: a build that is terminated ends as one that is
\* cancelled, or as a success.
THEOREM ShellImplementsLifecycle ==
  ASSUME DeliveredOnce
  PROVE  ShellSpec => ImplementsLifecycle
  BY ShellIsRunBuild, WorkerImplementsLifecycle

-----------------------------------------------------------------------------
(* Counting.                                                               *)

\* The same sessions, where f says in which places they are.
Within(f, j, P) == {s \in Sessions : Wants[s] = j /\ f[s] \in P}

LEMMA WithinFinite ==
  ASSUME NEW f, NEW j, NEW P
  PROVE  IsFiniteSet(Within(f, j, P)) /\ Cardinality(Within(f, j, P)) \in Nat
<1>1. Within(f, j, P) \subseteq Sessions
  BY DEF Within
<1> QED BY <1>1, ShellConstants, FS_Subset, FS_CardinalityType

\* A session that comes to or leaves some places, or neither.
LEMMA WithinMoves ==
  ASSUME NEW f, NEW g, NEW s \in Sessions, \A t \in Sessions : t # s => g[t] = f[t],
         NEW j, NEW P
  PROVE  /\ Wants[s] # j \/ (f[s] \in P <=> g[s] \in P) => Within(g, j, P) = Within(f, j, P)
         /\ Wants[s] = j /\ f[s] \notin P /\ g[s] \in P =>
              Cardinality(Within(g, j, P)) = Cardinality(Within(f, j, P)) + 1
         /\ Wants[s] = j /\ f[s] \in P /\ g[s] \notin P =>
              Cardinality(Within(g, j, P)) = Cardinality(Within(f, j, P)) - 1
<1>2. Wants[s] # j \/ (f[s] \in P <=> g[s] \in P) => Within(g, j, P) = Within(f, j, P)
  BY DEF Within
<1>3. Wants[s] = j /\ f[s] \notin P /\ g[s] \in P =>
        Cardinality(Within(g, j, P)) = Cardinality(Within(f, j, P)) + 1
  <2> SUFFICES ASSUME Wants[s] = j, f[s] \notin P, g[s] \in P
               PROVE  Cardinality(Within(g, j, P)) = Cardinality(Within(f, j, P)) + 1
    OBVIOUS
  <2>1. Within(g, j, P) = Within(f, j, P) \cup {s} /\ s \notin Within(f, j, P)
    BY DEF Within
  <2> QED BY <2>1, WithinFinite, FS_AddElement
<1>4. Wants[s] = j /\ f[s] \in P /\ g[s] \notin P =>
        Cardinality(Within(g, j, P)) = Cardinality(Within(f, j, P)) - 1
  <2> SUFFICES ASSUME Wants[s] = j, f[s] \in P, g[s] \notin P
               PROVE  Cardinality(Within(g, j, P)) = Cardinality(Within(f, j, P)) - 1
    OBVIOUS
  <2>1. Within(g, j, P) = Within(f, j, P) \ {s} /\ s \in Within(f, j, P)
    BY DEF Within
  <2> QED BY <2>1, WithinFinite, FS_RemoveElement
<1> QED BY <1>2, <1>3, <1>4

\* What becomes of the number of those in places P when session s goes to q.
MovesTo(s, q, j, P) ==
  /\ Cardinality(Within(session, j, P)) \in Nat
  /\ Cardinality(Within(session', j, P)) \in Nat
  /\ Wants[s] # j \/ (session[s] \in P <=> q \in P) =>
       Within(session', j, P) = Within(session, j, P)
  /\ Wants[s] = j /\ session[s] \notin P /\ q \in P =>
       Cardinality(Within(session', j, P)) = Cardinality(Within(session, j, P)) + 1
  /\ Wants[s] = j /\ session[s] \in P /\ q \notin P =>
       Cardinality(Within(session', j, P)) = Cardinality(Within(session, j, P)) - 1

LEMMA CountMoves ==
  ASSUME session \in [Sessions -> Places], NEW s \in Sessions, NEW q,
         session' = [session EXCEPT ![s] = q], NEW j, NEW P
  PROVE  MovesTo(s, q, j, P)
<1>1. session'[s] = q /\ \A t \in Sessions : t # s => session'[t] = session[t]
  OBVIOUS
<1>2. /\ Cardinality(Within(session, j, P)) \in Nat
      /\ Cardinality(Within(session', j, P)) \in Nat
  BY WithinFinite
<1> DEFINE g == session'
<1> HIDE DEF g
<1>3. /\ Wants[s] # j \/ (session[s] \in P <=> g[s] \in P) =>
           Within(g, j, P) = Within(session, j, P)
      /\ Wants[s] = j /\ session[s] \notin P /\ g[s] \in P =>
           Cardinality(Within(g, j, P)) = Cardinality(Within(session, j, P)) + 1
      /\ Wants[s] = j /\ session[s] \in P /\ g[s] \notin P =>
           Cardinality(Within(g, j, P)) = Cardinality(Within(session, j, P)) - 1
  <2>1. \A t \in Sessions : t # s => g[t] = session[t]
    BY <1>1 DEF g
  <2> QED BY <2>1, WithinMoves
<1> QED BY <1>1, <1>2, <1>3 DEF g, MovesTo

\* The counter is between the sessions that are counted and those together
\* with the ones that died without being counted out.
CountInv ==
  /\ session \in [Sessions -> Places]
  /\ room \in [Sessions -> Runs \cup {NoRun}]
  /\ counter \in [Jobs -> Nat]
  /\ loggedIn \in SUBSET Sessions
  /\ \A j \in Jobs :
       /\ Cardinality(Within(session, j, Counted)) <= counter[j]
       /\ counter[j] <= Cardinality(Within(session, j, Counted \cup {"dead"}))

\* A session that is neither counted in nor out, though it may die.
LEMMA QuietCount ==
  ASSUME CountInv, NEW s \in Sessions, NEW q \in Places,
         session' = [session EXCEPT ![s] = q], UNCHANGED counter,
         room' \in [Sessions -> Runs \cup {NoRun}], loggedIn' \in SUBSET Sessions,
         \/ (session[s] \in Counted <=> q \in Counted)
         \/ session[s] \in Counted /\ q = "dead",
         session[s] # "dead"
  PROVE  CountInv'
<1>1. ASSUME NEW j \in Jobs
      PROVE  /\ Cardinality(Within(session', j, Counted)) <= counter[j]
             /\ counter[j] <= Cardinality(Within(session', j, Counted \cup {"dead"}))
  <2> DEFINE C == Counted
             D == Counted \cup {"dead"}
  <2>1. /\ session \in [Sessions -> Places]
        /\ counter[j] \in Nat
        /\ Cardinality(Within(session, j, C)) <= counter[j]
        /\ counter[j] <= Cardinality(Within(session, j, D))
    BY DEF CountInv
  <2>2. /\ session[s] \in D => session[s] \in C
        /\ q \in C => session[s] \in C
        /\ session[s] \in C => q \in D
    BY DEF Counted
  <2> HIDE DEF C, D
  <2>3. MovesTo(s, q, j, C) /\ MovesTo(s, q, j, D)
    BY <2>1, CountMoves, Zenon
  <2>4. Cardinality(Within(session', j, C)) <= Cardinality(Within(session, j, C))
    BY <2>2, <2>3 DEF MovesTo
  <2>5. Cardinality(Within(session, j, D)) <= Cardinality(Within(session', j, D))
    BY <2>2, <2>3 DEF MovesTo
  <2>6. /\ Cardinality(Within(session, j, C)) \in Nat /\ Cardinality(Within(session', j, C)) \in Nat
        /\ Cardinality(Within(session, j, D)) \in Nat /\ Cardinality(Within(session', j, D)) \in Nat
    BY <2>3 DEF MovesTo
  <2> QED BY <2>1, <2>4, <2>5, <2>6 DEF C, D
<1>2. session' \in [Sessions -> Places]
  BY DEF CountInv
<1> QED BY <1>1, <1>2 DEF CountInv

LEMMA CountInType ==
  ASSUME CountInv, NEW s \in Sessions, CountIn(s)
  PROVE  CountInv'
<1>1. Wants[s] \in Jobs
  BY ShellConstants
<1>2. session[s] = "count" /\ session' = [session EXCEPT ![s] = "ssh"]
  BY DEF CountIn, Move
<1>3. ASSUME NEW j \in Jobs
      PROVE  /\ Cardinality(Within(session', j, Counted)) <= counter'[j]
             /\ counter'[j] <= Cardinality(Within(session', j, Counted \cup {"dead"}))
  <2> DEFINE C == Counted
             D == Counted \cup {"dead"}
  <2>1. /\ session \in [Sessions -> Places]
        /\ counter[j] \in Nat
        /\ Cardinality(Within(session, j, C)) <= counter[j]
        /\ counter[j] <= Cardinality(Within(session, j, D))
        /\ counter'[j] = IF j = Wants[s] THEN counter[j] + 1 ELSE counter[j]
    BY DEF CountInv, CountIn
  <2>2. session[s] \notin C /\ session[s] \notin D /\ "ssh" \in C /\ "ssh" \in D
    BY <1>2 DEF Counted
  <2> HIDE DEF C, D
  <2>3. MovesTo(s, "ssh", j, C) /\ MovesTo(s, "ssh", j, D)
    BY <1>2, <2>1, CountMoves, Zenon
  <2>4. Cardinality(Within(session', j, C)) =
          IF j = Wants[s] THEN Cardinality(Within(session, j, C)) + 1
                          ELSE Cardinality(Within(session, j, C))
    BY <2>2, <2>3 DEF MovesTo
  <2>5. Cardinality(Within(session', j, D)) =
          IF j = Wants[s] THEN Cardinality(Within(session, j, D)) + 1
                          ELSE Cardinality(Within(session, j, D))
    BY <2>2, <2>3 DEF MovesTo
  <2>6. Cardinality(Within(session, j, C)) \in Nat /\ Cardinality(Within(session, j, D)) \in Nat
    BY <2>3 DEF MovesTo
  <2> QED BY <2>1, <2>4, <2>5, <2>6 DEF C, D
<1>4. /\ session' \in [Sessions -> Places]
      /\ counter' \in [Jobs -> Nat]
      /\ UNCHANGED <<room, loggedIn>>
  BY <1>1, <1>2 DEF CountInv, CountIn, Places
<1> QED BY <1>3, <1>4 DEF CountInv

LEMMA CountOutType ==
  ASSUME CountInv, NEW s \in Sessions, CountOut(s)
  PROVE  CountInv' /\ counter[Wants[s]] \in Nat \ {0}
<1>1. Wants[s] \in Jobs
  BY ShellConstants
<1> DEFINE q == IF counter[Wants[s]] = 1 THEN "last" ELSE "gone"
<1>2. session[s] = "left" /\ session' = [session EXCEPT ![s] = q]
  BY DEF CountOut, Move
<1>3. q \in {"last", "gone"}
  OBVIOUS
<1> HIDE DEF q
<1>4. ASSUME NEW j \in Jobs
      PROVE  /\ Cardinality(Within(session', j, Counted)) <= counter'[j]
             /\ counter'[j] <= Cardinality(Within(session', j, Counted \cup {"dead"}))
             /\ j = Wants[s] => counter[j] \in Nat \ {0}
  <2> DEFINE C == Counted
             D == Counted \cup {"dead"}
  <2>1. /\ session \in [Sessions -> Places]
        /\ counter[j] \in Nat
        /\ Cardinality(Within(session, j, C)) <= counter[j]
        /\ counter[j] <= Cardinality(Within(session, j, D))
        /\ counter'[j] = IF j = Wants[s] THEN counter[j] - 1 ELSE counter[j]
    BY DEF CountInv, CountOut
  <2>2. session[s] \in C /\ session[s] \in D /\ q \notin C /\ q \notin D
    BY <1>2, <1>3 DEF Counted
  <2> HIDE DEF C, D
  <2>3. MovesTo(s, q, j, C) /\ MovesTo(s, q, j, D)
    BY <1>2, <2>1, CountMoves, Zenon
  <2>4. Cardinality(Within(session', j, C)) =
          IF j = Wants[s] THEN Cardinality(Within(session, j, C)) - 1
                          ELSE Cardinality(Within(session, j, C))
    BY <2>2, <2>3 DEF MovesTo
  <2>5. Cardinality(Within(session', j, D)) =
          IF j = Wants[s] THEN Cardinality(Within(session, j, D)) - 1
                          ELSE Cardinality(Within(session, j, D))
    BY <2>2, <2>3 DEF MovesTo
  <2>6. /\ Cardinality(Within(session, j, C)) \in Nat /\ Cardinality(Within(session', j, C)) \in Nat
        /\ Cardinality(Within(session, j, D)) \in Nat
    BY <2>3 DEF MovesTo
  <2> QED BY <2>1, <2>4, <2>5, <2>6 DEF C, D
<1>5. /\ session' \in [Sessions -> Places]
      /\ counter' \in [Jobs -> Nat]
      /\ UNCHANGED <<room, loggedIn>>
  <2>1. counter[Wants[s]] - 1 \in Nat
    BY <1>1, <1>4
  <2>2. counter' = [counter EXCEPT ![Wants[s]] = counter[Wants[s]] - 1]
    BY DEF CountOut
  <2> QED BY <1>1, <1>2, <1>3, <2>1, <2>2 DEF CountInv, CountOut, Places
<1> QED BY <1>1, <1>4, <1>5 DEF CountInv

LEMMA InitCountInv == ShellInit => CountInv
<1> SUFFICES ASSUME ShellInit, NEW j \in Jobs
             PROVE  /\ Within(session, j, Counted) = {}
                    /\ Within(session, j, Counted \cup {"dead"}) = {}
  BY FS_EmptySet DEF ShellInit, CountInv, Places
<1> QED BY DEF ShellInit, Within, Counted

\* What a session does, one step of it.
SessionStep(s) ==
  \/ Connect(s) \/ Follow(s) \/ Claim(s) \/ CountIn(s) \/ Login(s)
  \/ Logout(s) \/ CountOut(s) \/ Terminate(s) \/ Die(s)

LEMMA NextCountInv == TypeOK /\ CountInv /\ [ShellNext]_shellVars => CountInv'
<1> SUFFICES ASSUME TypeOK, CountInv, [ShellNext]_shellVars PROVE CountInv'
  OBVIOUS
<1>1. CASE UNCHANGED shell
  BY <1>1 DEF shell, CountInv, Within
<1>2. ASSUME NEW s \in Sessions, SessionStep(s) PROVE CountInv'
  <2> USE DEF CountInv, Move, Places, Counted
  <2>1. CASE Connect(s)
    <3>1. jobs[Wants[s]] \in Runs \cup {NoRun}
      BY ShellConstants DEF TypeOK
    <3>2. \E q \in {"gone", "tail", "claim"} : session' = [session EXCEPT ![s] = q]
      BY <2>1 DEF Connect
    <3>3. room' \in [Sessions -> Runs \cup {NoRun}] /\ session[s] = "start"
      BY <2>1, <3>1 DEF Connect
    <3> QED BY <2>1, <3>2, <3>3, QuietCount DEF Connect
  <2>2. CASE Follow(s)
    <3>1. session[s] = "tail" /\ session' = [session EXCEPT ![s] = "claim"]
      BY <2>2 DEF Follow
    <3> QED BY <2>2, <3>1, QuietCount DEF Follow
  <2>3. CASE Claim(s)
    <3>1. session[s] = "claim" /\ session' = [session EXCEPT ![s] = "count"]
      BY <2>3 DEF Claim
    <3> QED BY <2>3, <3>1, QuietCount DEF Claim
  <2>4. CASE Login(s)
    <3>1. /\ session[s] = "ssh" /\ loggedIn' \in SUBSET Sessions
          /\ \E q \in {"inside", "left"} : session' = [session EXCEPT ![s] = q]
      BY <2>4 DEF Login
    <3> QED BY <2>4, <3>1, QuietCount DEF Login
  <2>5. CASE Logout(s)
    <3>1. session[s] = "inside" /\ session' = [session EXCEPT ![s] = "left"]
      BY <2>5 DEF Logout
    <3> QED BY <2>5, <3>1, QuietCount DEF Logout
  <2>6. CASE Terminate(s)
    <3>1. session[s] = "last" /\ session' = [session EXCEPT ![s] = "gone"]
      BY <2>6 DEF Terminate
    <3> QED BY <2>6, <3>1, QuietCount DEF Terminate
  <2>7. CASE Die(s)
    <3>1. CASE session[s] \in Counted \cup {"last"}
      <4>1. session' = [session EXCEPT ![s] = "dead"]
        BY <2>7, <3>1 DEF Die
      <4> QED BY <2>7, <3>1, <4>1, QuietCount DEF Die
    <3>2. CASE session[s] \notin Counted \cup {"last"}
      <4>1. session' = [session EXCEPT ![s] = "gone"]
        BY <2>7, <3>2 DEF Die
      <4> QED BY <2>7, <3>2, <4>1, QuietCount DEF Die
    <3> QED BY <3>1, <3>2
  <2> QED BY <1>2, <2>1, <2>2, <2>3, <2>4, <2>5, <2>6, <2>7, CountInType, CountOutType, Zenon
          DEF SessionStep
<1> QED BY <1>1, <1>2 DEF ShellNext, Worker, SessionStep, shellVars, shell

LEMMA CountInvariant == ShellSpec => []CountInv
<1>1. TypeInv => TypeOK
  BY DEF TypeInv
<1> QED BY <1>1, InitCountInv, NextCountInv, ShellIsRunBuild, MapInvariant, PTL DEF ShellSpec

\* Whatever order sessions come, log in, leave and die in, the counter of a
\* job never falls below the sessions that are counted in: none of them can
\* find it at zero, and terminate the build, while another is logged in.
THEOREM CounterCoversSessions == ShellSpec => []ShellTypeOK
<1>1. CountInv => ShellTypeOK
  BY DEF CountInv, ShellTypeOK, Of, Within
<1> QED BY <1>1, CountInvariant, PTL

-----------------------------------------------------------------------------
(* What the worker does to a build between the looks of its sessions.      *)

Active(r) == Alive(r) /\ pc[r] \in Building \cup Recovering

\* A build that has been inserted stays so, one that has ended does not come
\* back, claims are kept, and only its own goroutine puts it into the map.
Ages(r) ==
  /\ pc[r] \notin Young => pc'[r] \notin Young
  /\ err[r] # "nil" => err'[r] # "nil"
  /\ claimed[r] => claimed'[r]
  /\ Active(r)' => Active(r) \/ pc[r] = "insert"
  /\ jobs'[JobOf[r]] = r => jobs[JobOf[r]] = r \/ pc[r] = "insert"

LEMMA OwnAges ==
  ASSUME LifeInv, NEW r \in Runs,
         Deliver(r) \/ Insert(r) \/ Delete(r) \/ Deadline(r) \/ Proceed(r)
  PROVE  /\ pc[r] \notin Young => pc'[r] \notin Young
         /\ err[r] # "nil" => err'[r] # "nil"
         /\ Active(r)' => Active(r) \/ pc[r] = "insert"
<1>0. TypeOK /\ OutcomeInv(r)
  BY DEF LifeInv, SuccessInv, TypeInv
<1>1. err[r] # "nil" => err'[r] # "nil"
  <2>1. CASE Succeed(r)
    BY <1>0, <2>1 DEF Succeed, CancelContext, TypeOK
  <2>2. CASE Deadline(r)
    BY <1>0, <2>2 DEF Deadline, TypeOK
  <2>3. CASE Deliver(r) \/ Insert(r) \/ Delete(r)
    BY <2>3 DEF Deliver, Insert, Delete, requests
  <2>4. Proceed(r) => Succeed(r) \/ UNCHANGED err
    BY DEF Proceed, requests, Start, StartFails, Setup, Boot, Booted, Settle, Settled,
       BeginTask, EndTask, AllTasksDone, ShellEnds, Notify, Recover, Record, NotifyFailure,
       Standby, ClaimEnds, Cleanup
  <2> QED BY <2>1, <2>2, <2>3, <2>4
<1>2. /\ pc[r] \notin Young => pc'[r] \notin Young
      /\ pc'[r] \in Building \cup Recovering =>
           pc[r] \in {"insert", "notify"} \cup Building \cup Recovering
  <2> USE <1>0 DEF TypeOK, Step, Goto, Panic, Young, Building, Recovering
  <2>1. CASE Setup(r) \/ Boot(r) \/ Booted(r) \/ Settle(r) \/ Settled(r) \/ BeginTask(r) \/ EndTask(r)
    BY <2>1 DEF Setup, Boot, Booted, Settle, Settled, BeginTask, EndTask
  <2>2. CASE AllTasksDone(r) \/ ShellEnds(r) \/ Delete(r) \/ Deliver(r) \/ Insert(r)
    BY <2>2 DEF AllTasksDone, ShellEnds, Delete, Deliver, Insert
  <2>3. CASE Start(r) \/ StartFails(r) \/ Record(r) \/ NotifyFailure(r) \/ Recover(r)
    BY <2>3 DEF Start, StartFails, Record, NotifyFailure, Recover
  <2>4. CASE Standby(r) \/ ClaimEnds(r) \/ Cleanup(r) \/ Succeed(r) \/ Notify(r) \/ Deadline(r)
    BY <2>4 DEF Standby, ClaimEnds, Cleanup, Succeed, Notify, Deadline
  <2> QED BY <2>1, <2>2, <2>3, <2>4, Zenon DEF Proceed
<1> QED BY <1>0, <1>1, <1>2 DEF Active, Alive, OutcomeInv

LEMMA NextAges ==
  ASSUME LifeInv, [Next]_vars, NEW q \in Runs
  PROVE  Ages(q)
<1>0. TypeOK /\ TypeInv /\ MapNames
  BY DEF LifeInv, SuccessInv, TypeInv, MapInv
<1>1. ASSUME NEW r \in Runs,
             Deliver(r) \/ Proceed(r) \/ Insert(r) \/ Delete(r) \/ Deadline(r)
      PROVE  Ages(q)
  <2>1. UNCHANGED claimed
    BY <1>1 DEF Deliver, Insert, Delete, Deadline, Proceed, requests, Start, StartFails, Setup,
       Boot, Booted, Settle, Settled, BeginTask, EndTask, AllTasksDone, ShellEnds, Succeed,
       Notify, Recover, Record, NotifyFailure, Standby, ClaimEnds, Cleanup
  <2>2. UNCHANGED jobs \/ Insert(r) \/ Delete(r)
    BY <1>1 DEF Deliver, Deadline, Proceed, shared, Start, StartFails, Setup,
       Boot, Booted, Settle, Settled, BeginTask, EndTask, AllTasksDone, ShellEnds, Succeed,
       Notify, Recover, Record, NotifyFailure, Standby, ClaimEnds, Cleanup
  <2>3. jobs'[JobOf[q]] = q => jobs[JobOf[q]] = q \/ pc[q] = "insert"
    BY <1>0, <2>2, ConstantsOK DEF Insert, Delete, Step, TypeOK
  <2>4. CASE r = q
    BY <1>1, <2>1, <2>3, <2>4, OwnAges DEF Ages
  <2>5. CASE r # q
    <3>1. pc'[q] = pc[q] /\ err'[q] = err[q]
      BY <1>0, <1>1, <2>5, OthersSame, OthersErr DEF Same
    <3> QED BY <2>1, <2>3, <3>1 DEF Ages, Active, Alive
  <2> QED BY <2>4, <2>5
<1>2. ASSUME NEW j \in Jobs, HttpCancel(j) \/ HttpTerminate(j)
      PROVE  Ages(q)
  BY <1>0, <1>2 DEF HttpCancel, HttpTerminate, CancelContext, Ages, Active, Alive, TypeOK, shared
<1>3. ASSUME NEW j \in Jobs, HttpClaim(j)
      PROVE  Ages(q)
  BY <1>0, <1>3 DEF HttpClaim, Ages, Active, Alive, TypeOK, shared
<1>4. CASE HttpCancelWrites
  BY <1>4 DEF HttpCancelWrites, Ages, Active, Alive, requests
<1>5. CASE Crash
  <2>1. /\ pc[q] \notin Young => pc'[q] \notin Young
        /\ pc'[q] \notin Building \cup Recovering
    BY <1>0, <1>5 DEF Crash, InProgress, Young, Building, Recovering, TypeOK
  <2>2. jobs'[JobOf[q]] # q
    BY <1>5, ConstantsOK DEF Crash
  <2> QED BY <1>5, <2>1, <2>2 DEF Crash, Ages, Active, requests
<1>6. CASE UNCHANGED vars
  BY <1>6 DEF vars, Ages, Active, Alive, requests, shared
<1> QED BY <1>1, <1>2, <1>3, <1>4, <1>5, <1>6 DEF Next

\* A build of a job delivered once that may still want its VM is in the map.
Kept == \A r \in Runs : Sole(r) /\ Active(r) => jobs[JobOf[r]] = r

LEMMA NextKept == LifeInv /\ Kept /\ [Next]_vars => Kept'
<1> SUFFICES ASSUME LifeInv, Kept, [Next]_vars, NEW q \in Runs, Sole(q), Active(q)'
             PROVE  jobs'[JobOf[q]] = q
  BY DEF Kept, Sole
<1>0. TypeOK /\ Ages(q)
  BY NextAges DEF LifeInv, SuccessInv, TypeInv
<1>1. ASSUME NEW r \in Runs, Insert(r)
      PROVE  jobs'[JobOf[q]] = q
  <2>1. pc[r] = "insert" /\ pc'[r] = "setup" /\ \A t \in Runs : t # r => pc'[t] = pc[t]
    BY <1>0, <1>1 DEF Insert, Step, Goto, TypeOK
  <2>2. jobs' = [jobs EXCEPT ![JobOf[r]] = r]
    BY <1>1 DEF Insert
  <2>3. CASE r = q
    BY <1>0, <2>2, <2>3, ConstantsOK DEF TypeOK
  <2>4. CASE r # q
    <3>1. JobOf[r] # JobOf[q]
      BY <2>4 DEF Sole
    <3>2. "insert" \notin Building \cup Recovering
      BY DEF Building, Recovering
    <3>3. Active(q)
      BY <1>0, <2>1, <2>4, <3>2 DEF Ages, Active
    <3> QED BY <1>0, <2>2, <3>1, <3>3, ConstantsOK DEF Kept, TypeOK
  <2> QED BY <2>3, <2>4
<1>2. ASSUME NEW r \in Runs, Delete(r)
      PROVE  jobs'[JobOf[q]] = q
  <2>1. pc[r] = "delete" /\ pc'[r] = "succeed" /\ \A t \in Runs : t # r => pc'[t] = pc[t]
    BY <1>0, <1>2 DEF Delete, Step, Goto, TypeOK
  <2>2. jobs' = [jobs EXCEPT ![JobOf[r]] = NoRun]
    BY <1>2 DEF Delete
  <2>3. "insert" \notin Building \cup Recovering /\ "succeed" \notin Building \cup Recovering
    BY DEF Building, Recovering
  <2>4. r # q
    BY <2>1, <2>3 DEF Active
  <2>5. JobOf[r] # JobOf[q] /\ Active(q)
    BY <1>0, <2>1, <2>3, <2>4 DEF Ages, Active, Sole
  <2> QED BY <1>0, <2>2, <2>5, ConstantsOK DEF Kept, TypeOK
\* The other steps leave the map alone, and none takes a run from "insert" to
\* where it is active.
<1>3. ASSUME UNCHANGED jobs, pc[q] = "insert" => pc'[q] \notin Building \cup Recovering
      PROVE  jobs'[JobOf[q]] = q
  BY <1>0, <1>3 DEF Ages, Active, Kept
<1>4. ASSUME NEW r \in Runs, Deliver(r) \/ Deadline(r) \/ Proceed(r)
      PROVE  UNCHANGED jobs /\ (pc[q] = "insert" => pc'[q] \notin Building \cup Recovering)
  <2>1. UNCHANGED jobs
    BY <1>4 DEF Deliver, Deadline, Proceed, shared, Start, StartFails, Setup,
       Boot, Booted, Settle, Settled, BeginTask, EndTask, AllTasksDone, ShellEnds, Succeed,
       Notify, Recover, Record, NotifyFailure, Standby, ClaimEnds, Cleanup
  <2>2. pc[r] = "insert" => UNCHANGED pc
    BY <1>4 DEF Deliver, Deadline, Proceed, Start, StartFails, Setup, Step, Panic,
       Boot, Booted, Settle, Settled, BeginTask, EndTask, AllTasksDone, ShellEnds, Succeed,
       Notify, Recover, Record, NotifyFailure, Standby, ClaimEnds, Cleanup
  <2>3. r # q => pc'[q] = pc[q]
    BY <1>4, OthersSame DEF Same, LifeInv, SuccessInv
  <2> QED BY <2>1, <2>2, <2>3 DEF Building, Recovering
<1>5. CASE UNCHANGED pc /\ UNCHANGED jobs
  BY <1>3, <1>5 DEF Building, Recovering
<1>6. CASE Crash
  BY <1>0, <1>6 DEF Crash, InProgress, Building, Recovering, Active, TypeOK
<1>7. ASSUME NEW j \in Jobs, HttpCancel(j) \/ HttpTerminate(j) \/ HttpClaim(j)
      PROVE  UNCHANGED pc /\ UNCHANGED jobs
  BY <1>7 DEF HttpCancel, HttpTerminate, HttpClaim, shared
<1>8. HttpCancelWrites \/ UNCHANGED vars => UNCHANGED pc /\ UNCHANGED jobs
  BY DEF HttpCancelWrites, vars, shared
<1> QED BY <1>1, <1>2, <1>3, <1>4, <1>5, <1>6, <1>7, <1>8 DEF Next

-----------------------------------------------------------------------------
(* Sessions and builds.                                                    *)

\* A session knows the port of a build of its own job, that had been inserted.
Rooms == \A s \in Sessions : room[s] # NoRun =>
  JobOf[room[s]] = Wants[s] /\ pc[room[s]] \notin Young /\ session[s] # "start"

\* Whoever is about to log in, or is in, has claimed the build.
Claims == \A s \in Sessions, r \in Runs :
  session[s] \in {"count", "ssh", "inside"} /\ room[s] = r /\ Sole(r) /\ Active(r)
    => claimed[r]

Entered == \A s \in loggedIn : session[s] \in {"inside", "left", "last", "gone", "dead"}

ShellInv == LifeInv /\ CountInv /\ Kept /\ Rooms /\ Claims /\ Entered

LEMMA InitShellInv == ShellInit => ShellInv
<1> SUFFICES ASSUME ShellInit PROVE ShellInv
  OBVIOUS
<1>1. Init
  BY DEF ShellInit
<1>2. LifeInv
  BY <1>1, InitSuccessInv DEF Init, LifeInv, HandlerInv, OutcomeInv
<1>3. Kept
  BY <1>1 DEF Init, Kept, Active, Building, Recovering
<1>4. Rooms /\ Claims /\ Entered
  BY DEF ShellInit, Rooms, Claims, Entered
<1> QED BY <1>2, <1>3, <1>4, InitCountInv DEF ShellInv

LEMMA NextRooms == ShellInv /\ [ShellNext]_shellVars => Rooms'
<1> SUFFICES ASSUME ShellInv, [ShellNext]_shellVars, NEW s \in Sessions, room'[s] # NoRun
             PROVE  /\ JobOf[room'[s]] = Wants[s]
                    /\ pc'[room'[s]] \notin Young
                    /\ session'[s] # "start"
  BY DEF Rooms
<1>0. /\ LifeInv /\ CountInv /\ Rooms /\ MapNames /\ TypeOK /\ [Next]_vars
      /\ \A r \in Runs : RunInv(r)
  BY ShellNextIsNext DEF ShellInv, LifeInv, SuccessInv, MapInv, TypeInv
<1>1. CASE room'[s] = room[s]
  <2>1. room[s] \in Runs
    BY <1>0, <1>1 DEF CountInv
  <2>2. pc'[room[s]] \notin Young
    BY <1>0, <1>1, <2>1, NextAges DEF Ages, Rooms
  <2>3. session'[s] # "start"
    BY <1>0, <1>1 DEF ShellNext, Worker, shell, shellVars, Rooms, CountInv, Move, Connect, Follow,
       Claim, CountIn, Login, Logout, CountOut, Terminate, Die
  <2> QED BY <1>0, <1>1, <2>2, <2>3 DEF Rooms
<1>2. CASE room'[s] # room[s]
  <2>1. Connect(s)
    BY <1>0, <1>2 DEF ShellNext, Worker, shell, shellVars, CountInv, Connect, Follow,
       Claim, CountIn, Login, Logout, CountOut, Terminate, Die
  <2>2. Wants[s] \in Jobs
    BY ShellConstants
  <2>3. room'[s] = jobs[Wants[s]] /\ UNCHANGED pc /\ session'[s] # "start"
    BY <1>0, <1>2, <2>1 DEF Connect, Move, vars, CountInv
  <2>4. room'[s] \in Runs /\ JobOf[room'[s]] = Wants[s]
    BY <1>0, <2>2, <2>3 DEF MapNames, TypeOK
  <2>5. pc[room'[s]] \notin Young
    BY <1>0, <2>3, <2>4 DEF RunInv
  <2> QED BY <2>3, <2>4, <2>5
<1> QED BY <1>1, <1>2

LEMMA NextEntered == ShellInv /\ [ShellNext]_shellVars => Entered'
<1> SUFFICES ASSUME ShellInv, [ShellNext]_shellVars, NEW s \in loggedIn'
             PROVE  session'[s] \in {"inside", "left", "last", "gone", "dead"}
  BY DEF Entered
<1>0. CountInv /\ Entered
  BY DEF ShellInv
<1>1. CASE s \notin loggedIn
  <2>1. \E t \in Sessions : Login(t) /\ loggedIn' = loggedIn \cup {t} /\ Move(t, "ssh", "inside")
    BY <1>1 DEF ShellNext, Worker, shell, shellVars, Connect, Follow,
       Claim, CountIn, Login, Logout, CountOut, Terminate, Die
  <2> QED BY <1>0, <1>1, <2>1 DEF Move, CountInv
<1>2. CASE s \in loggedIn
  <2>1. s \in Sessions /\ session[s] \in {"inside", "left", "last", "gone", "dead"}
    BY <1>0, <1>2 DEF CountInv, Entered
  <2>2. CASE UNCHANGED session
    BY <2>1, <2>2
  <2>3. ASSUME NEW t \in Sessions, SessionStep(t)
        PROVE  session'[s] \in {"inside", "left", "last", "gone", "dead"}
    BY <1>0, <2>1, <2>3 DEF SessionStep, CountInv, Move, Connect, Follow,
       Claim, CountIn, Login, Logout, CountOut, Terminate, Die, Counted
  <2> QED BY <2>2, <2>3 DEF ShellNext, SessionStep, Worker, shell, shellVars
<1> QED BY <1>1, <1>2

LEMMA NextClaims == ShellInv /\ [ShellNext]_shellVars => Claims'
<1> SUFFICES ASSUME ShellInv, [ShellNext]_shellVars, NEW s \in Sessions, NEW r \in Runs,
                    session'[s] \in {"count", "ssh", "inside"}, room'[s] = r,
                    Sole(r), Active(r)'
             PROVE  claimed'[r]
  BY DEF Claims, Sole
<1>0. LifeInv /\ CountInv /\ Rooms /\ Kept /\ Claims /\ TypeOK /\ [Next]_vars /\ Ages(r)
  BY ShellNextIsNext, NextAges DEF ShellInv, LifeInv, SuccessInv, TypeInv
<1>1. room[s] = r /\ r # NoRun
  BY <1>0, ConstantsOK DEF ShellNext, Worker, shell, shellVars, CountInv, Move, Connect, Follow,
     Claim, CountIn, Login, Logout, CountOut, Terminate, Die
<1>2. Active(r)
  BY <1>0, <1>1 DEF Ages, Rooms, Young
<1>3. CASE session[s] \in {"count", "ssh", "inside"}
  BY <1>0, <1>1, <1>2, <1>3 DEF Claims, Ages
<1>4. CASE session[s] \notin {"count", "ssh", "inside"}
  <2>1. Claim(s)
    BY <1>0, <1>4 DEF ShellNext, Worker, shell, shellVars, CountInv, Move, Connect, Follow,
       Claim, CountIn, Login, Logout, CountOut, Terminate, Die
  <2>2. jobs[Wants[s]] = r
    BY <1>0, <1>1, <1>2 DEF Kept, Rooms
  <2>3. HttpClaim(Wants[s])
    BY <1>1, <2>1, <2>2 DEF Claim
  <2> QED BY <1>0, <2>2, <2>3 DEF HttpClaim, TypeOK
<1> QED BY <1>3, <1>4

LEMMA ShellInvariant == ShellSpec => []ShellInv
<1>1. ShellInv /\ [ShellNext]_shellVars => ShellInv'
  <2> SUFFICES ASSUME ShellInv, [ShellNext]_shellVars PROVE ShellInv'
    OBVIOUS
  <2>1. LifeInv' /\ Kept'
    BY ShellNextIsNext, NextLifeInv, NextKept DEF ShellInv
  <2>2. CountInv'
    BY NextCountInv DEF ShellInv, LifeInv, SuccessInv, TypeInv
  <2> QED BY <2>1, <2>2, NextRooms, NextEntered, NextClaims DEF ShellInv
<1> QED BY <1>1, InitShellInv, PTL DEF ShellSpec

\* A failed build is not torn down at the end of its standby under anybody who
\* has found its port and got as far as counting himself in: the claim came
\* first, and it cannot have missed the build, whose entry a failure leaves
\* where it is.  This holds of any number of sessions, builds and cancels.
THEOREM VisitorsAreNotEvicted == ShellSpec => SessionKeepsStandby
<1> DEFINE Kind(r) == Sole(r) /\ Alive(r) /\ pc[r] = "standby" /\ pc'[r] = "cleanup"
                         => \A s \in Of(JobOf[r], {"count", "ssh", "inside"}) : room[s] # r
<1>1. ShellInv /\ [ShellNext]_shellVars => \A r \in Runs : Kind(r)
  <2> SUFFICES ASSUME ShellInv, [ShellNext]_shellVars, NEW r \in Runs,
                      Sole(r), Alive(r), pc[r] = "standby", pc'[r] = "cleanup",
                      NEW s \in Sessions, session[s] \in {"count", "ssh", "inside"},
                      room[s] = r
               PROVE  FALSE
    BY DEF Of
  <2>0. TypeOK /\ TypeInv /\ [Next]_vars /\ Claims
    BY ShellNextIsNext DEF ShellInv, LifeInv, SuccessInv, TypeInv
  <2>1. claimed[r]
    BY <2>0, ConstantsOK DEF Claims, Active, Recovering
  <2>2. \E q \in Runs : Deliver(q) \/ Proceed(q) \/ Insert(q) \/ Delete(q) \/ Deadline(q)
    <3>1. ~Crash
      BY <2>0 DEF Crash, InProgress, Recovering
    <3> QED BY <2>0, <3>1 DEF Next, HttpCancelWrites, HttpCancel, HttpTerminate, HttpClaim, vars
  <2>3. Deliver(r) \/ Proceed(r) \/ Insert(r) \/ Delete(r) \/ Deadline(r)
    BY <2>0, <2>2, OthersSame DEF Same
  <2>4. Standby(r)
    BY <2>3 DEF Proceed, Deliver, Insert, Delete, Deadline, Start, StartFails, Setup, Boot, Booted,
       Settle, Settled, BeginTask, EndTask, AllTasksDone, ShellEnds, Succeed, Notify, Recover,
       Record, NotifyFailure, ClaimEnds, Cleanup, Step, Panic
  <2> QED BY <2>0, <2>1, <2>4 DEF Standby, Step, Goto, TypeOK
<1>2. (\A r \in Runs : Kind(r)) <=>
        \A r \in Runs :
          Sole(r) /\ Alive(r) /\ pc[r] = "standby" /\ pc'[r] = "cleanup"
            => \A s \in Of(JobOf[r], {"count", "ssh", "inside"}) : room[s] # r
  OBVIOUS
<1> QED BY <1>1, <1>2, ShellInvariant, PTL DEF ShellSpec, SessionKeepsStandby

-----------------------------------------------------------------------------
(* The end of the last session.                                            *)

LEMMA NextLogout ==
  ShellInv /\ LogoutEndsBuild /\ [ShellNext]_shellVars => LogoutEndsBuild'
<1> SUFFICES ASSUME ShellInv, LogoutEndsBuild, [ShellNext]_shellVars,
                    NEW r \in Runs, NEW s \in loggedIn',
                    Sole(r), room'[s] = r, jobs'[JobOf[r]] = r, Alive(r)'
             PROVE  \E t \in Sessions : Wants[t] = JobOf[r] /\
                       session'[t] \in Counted \cup {"last", "dead"}
  BY DEF LogoutEndsBuild, Of, Sole
<1>0. /\ LifeInv /\ CountInv /\ Rooms /\ Entered /\ TypeOK /\ [Next]_vars
      /\ CountInv' /\ Rooms' /\ Ages(r)
  BY ShellNextIsNext, NextAges, NextCountInv, NextRooms DEF ShellInv, LifeInv, SuccessInv, TypeInv
<1>1. s \in Sessions /\ r # NoRun /\ Wants[s] = JobOf[r]
  BY <1>0, ConstantsOK DEF CountInv, Rooms
<1>2. CASE s \notin loggedIn
  <2>1. \E t \in Sessions : Login(t) /\ loggedIn' = loggedIn \cup {t} /\ Move(t, "ssh", "inside")
    BY <1>2 DEF ShellNext, Worker, shell, shellVars, Connect, Follow,
       Claim, CountIn, Login, Logout, CountOut, Terminate, Die
  <2>2. session'[s] = "inside"
    BY <1>0, <1>2, <2>1 DEF Move, CountInv
  <2> QED BY <1>1, <2>2 DEF Counted
<1>3. CASE s \in loggedIn
  <2>1. room[s] = r
    BY <1>0, <1>1, <1>3 DEF ShellNext, Worker, shell, shellVars, CountInv, Move, Connect, Follow,
       Claim, CountIn, Login, Logout, CountOut, Terminate, Die, Entered
  <2>2. pc[r] \notin Young
    BY <1>0, <1>1, <2>1 DEF Rooms
  <2>3. jobs[JobOf[r]] = r /\ Alive(r)
    BY <1>0, <2>2 DEF Ages, Alive, Young
  <2>4. PICK t \in Sessions : Wants[t] = JobOf[r] /\ session[t] \in Counted \cup {"last", "dead"}
    BY <1>3, <2>1, <2>3 DEF LogoutEndsBuild, Of
  <2>5. CASE session'[t] \in Counted \cup {"last", "dead"}
    BY <2>4, <2>5
  <2>6. CASE session'[t] \notin Counted \cup {"last", "dead"}
    <3>1. CountOut(t) \/ Terminate(t)
      BY <1>0, <2>4, <2>6 DEF ShellNext, Worker, shell, shellVars, CountInv, Move, Connect, Follow,
         Claim, CountIn, Login, Logout, CountOut, Terminate, Die, Counted
    <3>2. ~Terminate(t)
      BY <1>0, <1>1, <2>3, <2>4 DEF Terminate, HttpTerminate, CancelContext, Alive, TypeOK
    <3>3. counter[JobOf[r]] \in Nat \ {0, 1} /\ counter'[JobOf[r]] = counter[JobOf[r]] - 1
      <4>1. counter[Wants[t]] \in Nat \ {0}
        BY <1>0, <3>1, <3>2, CountOutType
      <4>2. counter[Wants[t]] # 1
        BY <1>0, <2>4, <2>6, <3>1, <3>2 DEF CountOut, Move, CountInv
      <4>3. Wants[t] \in Jobs
        BY ShellConstants
      <4> QED BY <1>0, <2>4, <3>1, <3>2, <4>1, <4>2, <4>3 DEF CountOut, CountInv
    <3>4. Within(session', JobOf[r], Counted \cup {"dead"}) # {}
      <4>1. counter'[JobOf[r]] <= Cardinality(Within(session', JobOf[r], Counted \cup {"dead"}))
        BY <1>0, ConstantsOK DEF CountInv
      <4>2. Cardinality(Within(session', JobOf[r], Counted \cup {"dead"})) # 0
        BY <3>3, <4>1
      <4> QED BY <4>2, FS_EmptySet
    <3> QED BY <3>4 DEF Within
  <2> QED BY <2>5, <2>6
<1> QED BY <1>2, <1>3

\* However users come and go, as long as the sessions of a build somebody had
\* logged in to are over and none of them died, the build has been told to
\* end: the terminate request of the last one cannot be skipped by two that
\* leave together, nor overtaken by one that arrives.
THEOREM LastLogoutEnds == ShellSpec => []LogoutEndsBuild
<1>1. ShellInit => LogoutEndsBuild
  BY DEF ShellInit, LogoutEndsBuild
<1> QED BY <1>1, NextLogout, ShellInvariant, PTL DEF ShellSpec
=============================================================================
