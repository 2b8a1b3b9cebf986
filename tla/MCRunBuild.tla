----------------------------- MODULE MCRunBuild -----------------------------
(* Instances of RunBuild for TLC. *)
EXTENDS RunBuildLifecycle, TLC

CONSTANTS j1, r1, r2

\* One job, delivered twice.
Twice == (r1 :> j1) @@ (r2 :> j1)
\* A single run.
Once == r1 :> j1
=============================================================================
