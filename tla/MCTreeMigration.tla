--------------------------- MODULE MCTreeMigration ---------------------------
(* A small instance of TreeMigration for TLC: a root and two subgraphs. *)
EXTENDS TreeMigration, TLC

CONSTANTS p1, p2, root, left, right

TwoProcesses == {p1, p2}
Tree == {root, left, right}
DeepestFirst == left :> 1 @@ right :> 2 @@ root :> 3
ByKey == left :> 1 @@ root :> 2 @@ right :> 3

(* The second target changes both subgraphs, the third only the right one. *)
Targets == {0, 1, 2}
Definitions == (0 :> (root :> 0 @@ left :> 0 @@ right :> 0))
            @@ (1 :> (root :> 1 @@ left :> 1 @@ right :> 1))
            @@ (2 :> (root :> 2 @@ left :> 0 @@ right :> 1))

Symmetry == Permutations(TwoProcesses)
=============================================================================
