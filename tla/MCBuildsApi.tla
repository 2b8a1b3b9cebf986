---------------------------- MODULE MCBuildsApi ----------------------------
(* Instances of BuildsApi for TLC. *)
EXTENDS BuildsApi, TLC

CONSTANTS j1, j2, w1, w2

\* Jobs, and the goroutines of the worker, are interchangeable.
Interchangeable == Permutations(Jobs) \cup Permutations(Slots)
=============================================================================
