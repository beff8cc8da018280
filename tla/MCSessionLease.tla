--------------------------- MODULE MCSessionLease ---------------------------
(* Small instances of SessionLease for TLC. *)
EXTENDS SessionLease

CONSTANTS p1, p2, p3, p4, s1

ThreeProcs == {p1, p2, p3}
FourProcs == {p1, p2, p3, p4}
OneSession == {s1}
FirstTwoMayCrash == {p1, p2}
=============================================================================
