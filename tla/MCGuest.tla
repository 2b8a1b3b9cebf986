------------------------------- MODULE MCGuest -------------------------------
(* Instances of Guest for TLC. *)
EXTENDS GuestTasks, TLC

CONSTANTS b1, b2, b3, j1, j2

\* A job that is delivered twice, and one that has no tasks, only a shell, and
\* wants more artifacts than are accepted.
Deliveries == (b1 :> j1) @@ (b2 :> j1) @@ (b3 :> j2)
TwoTasks   == (j1 :> 2) @@ (j2 :> 0)
OneOrTwo   == (j1 :> 1) @@ (j2 :> 2)

Twins == Permutations({b1, b2})
=============================================================================
