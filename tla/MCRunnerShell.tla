--------------------------- MODULE MCRunnerShell ----------------------------
(* Instances of RunnerShell for TLC: one build and two users of its VM. *)
EXTENDS RunnerShell, TLC

CONSTANTS j1, r1, s1, s2

Once     == r1 :> j1
BothWant == (s1 :> j1) @@ (s2 :> j1)
OneWants == s1 :> j1
=============================================================================
