----------------------------- MODULE MCJobGroup -----------------------------
(* Instances of JobGroup for TLC. *)
EXTENDS JobGroup, TLC

CONSTANTS j1, j2
=============================================================================
