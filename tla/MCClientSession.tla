--------------------------- MODULE MCClientSession ---------------------------
(* Small instances of ClientSession for TLC. *)
EXTENDS ClientSession, TLC

CONSTANTS u1, t1, t2, c1, c2

Interchangeable == Permutations(Tab) \cup Permutations(Call)
=============================================================================
