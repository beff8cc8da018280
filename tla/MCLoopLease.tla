----------------------------- MODULE MCLoopLease -----------------------------
(* Small instances of LoopLease for TLC. *)
EXTENDS LoopLease

CONSTANTS p1, p2, p3, p4

FourProcs == {p1, p2, p3, p4}
AllButOne == {p1, p2, p3}
=============================================================================
