------------------------------ MODULE MCPages ------------------------------
(* A small instance of the template manager. *)
EXTENDS PageCache

CONSTANTS r1, r2, r3, p1, p2
=============================================================================
