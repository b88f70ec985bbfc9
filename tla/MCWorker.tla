------------------------------ MODULE MCWorker ------------------------------
(* Small instances of the job runner. *)
EXTENDS WorkerProperties, TLC

CONSTANTS j1, j2, g1, g2, cleanup

Symmetry == Permutations({j1, j2}) \cup Permutations({g1, g2})
=============================================================================
