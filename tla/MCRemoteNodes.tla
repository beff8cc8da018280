--------------------------- MODULE MCRemoteNodes ---------------------------
(* A small instance of RemoteNodes for TLC. *)
EXTENDS RemoteNodes

CONSTANTS n1, n2, e1

TwoNodes == {n1, n2}
OneExecutor == {e1}
Everywhere == [n \in Node |-> e1]
OneRetry == [n \in Node |-> IF n = n1 THEN 1 ELSE 0]
One == [e \in Executor |-> 1]
=============================================================================
