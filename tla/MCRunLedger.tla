---------------------------- MODULE MCRunLedger ----------------------------
(* A small instance of RunLedger for TLC. *)
EXTENDS RunLedger, TLC

CONSTANTS s1, s2, r1, r2

TwoServers == {s1, s2}
TwoRuns == {r1, r2}
TwoOutcomes == {"succeeded", "cancelled"}
Symmetric == Permutations(TwoServers) \union Permutations(TwoRuns)
Partial == {"partial"}
=============================================================================
