--------------------------- MODULE MCGraphSignals ---------------------------
(* A small instance of GraphSignals for TLC. *)
EXTENDS GraphSignals

CONSTANTS w1, w2, a, s1, s2, s3

TwoWaits == {w1, w2}
ThreeSignals == {s1, s2, s3}
None == {}
Order == [n \in Wait |-> IF n = w1 THEN 1 ELSE 2]
SameName == [n \in Wait |-> a]
NameOfAll == [s \in Signal |-> a]

(* w1 expires at 1, w2 has a timer at 2. *)
FirstExpires == [n \in Wait |-> IF n = w1 THEN 1 ELSE MaxTime + 1]
SecondTimes == [n \in Wait |-> IF n = w1 THEN MaxTime + 1 ELSE 2]

AllButRestart == {"claim", "ack", "resume"}
=============================================================================
