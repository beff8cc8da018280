----------------------------- MODULE MCGraphRun -----------------------------
(* Small Graphs for GraphRun. *)
EXTENDS GraphRun

CONSTANTS n1, n2, n3, n4, n5, n6

Four == {n1, n2, n3, n4}
Six == {n1, n2, n3, n4, n5, n6}
First == {n1}
Third == {n3}
None == {}

Order == [n \in Node |-> IF n = n1 THEN 1 ELSE IF n = n2 THEN 2 ELSE IF n = n3 THEN 3
                         ELSE IF n = n4 THEN 4 ELSE IF n = n5 THEN 5 ELSE 6]
NoSets == [n \in Node |-> {}]
NoRetries == [n \in Node |-> 0]

(* Work, a gate and a subgraph side by side, and a wait behind the work     *)
(* and the subgraph.                                                       *)
WaitingKinds == [n \in Node |-> IF n = n2 THEN "gate" ELSE IF n = n3 THEN "subgraph"
                                ELSE IF n = n4 THEN "wait" ELSE "work"]
WaitingDepends == [n \in Node |-> IF n = n4 THEN {n1, n3} ELSE {}]

(* A diamond with n3 run whatever comes of n1; n5 takes n1 back, n6 n2.    *)
DiamondKinds == [n \in Node |-> IF n = n4 THEN "join"
                                ELSE IF n \in {n5, n6} THEN "compensation" ELSE "work"]
DiamondTargets == [n \in Node |-> IF n = n5 THEN {n1} ELSE IF n = n6 THEN {n2} ELSE {}]
DiamondDepends ==
    [n \in Node |-> IF n \in {n2, n3} THEN {n1} ELSE IF n = n4 THEN {n2, n3}
                    ELSE DiamondTargets[n]]
DiamondConditions == [n \in Node |-> IF n = n3 THEN {"passed", "failed"} ELSE {}]
DiamondRetries == [n \in Node |-> IF n \in {n1, n2, n6} THEN 1 ELSE 0]
=============================================================================
