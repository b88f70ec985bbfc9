------------------------------- MODULE MCApp -------------------------------
(* A small instance of a server process. *)
EXTENDS AppLifecycle

CONSTANTS r1, r2, cleanup, mail, g1, j1
=============================================================================
