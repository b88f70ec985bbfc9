------------------------------ MODULE MCCache ------------------------------
(* Small instances of the cache. *)
EXTENDS CacheCalls, TLC

CONSTANTS c1, c2, k1, k2, v1, v2

Symmetry == Permutations({c1, c2}) \cup Permutations({k1, k2})
                \cup Permutations({v1, v2})
=============================================================================
