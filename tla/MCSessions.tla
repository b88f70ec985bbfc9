----------------------------- MODULE MCSessions -----------------------------
(* A small instance of the sessions. *)
EXTENDS AuthSessions, TLC

CONSTANTS r1, r2, t1

MCSeconds == 0 .. (MaxTime + SessionTTL) \div TicksPerSecond

Symmetry == Permutations({r1, r2})
=============================================================================
