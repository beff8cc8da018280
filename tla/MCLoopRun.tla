------------------------------ MODULE MCLoopRun ------------------------------
(* A small instance of LoopRun for TLC. *)
EXTENDS LoopRun

CONSTANTS p1, p2

TwoProcesses == {p1, p2}
=============================================================================
