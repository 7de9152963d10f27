---------------------------- MODULE MCDocSession ----------------------------
(* Small instances of DocSession for TLC.                                  *)
EXTENDS DocSession, TLC

MCOp == 1..(MaxEdit + MaxOpen)

Symmetry == Permutations(Socket) \cup Permutations(Handler)
=============================================================================
