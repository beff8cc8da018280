------------------------------ MODULE MCDispatch ------------------------------
(* Small instances of Dispatch for TLC.                                      *)
EXTENDS Dispatch, TLC
CONSTANTS c1, c2, c3

ThreeCalls == {c1, c2, c3}
OneIsolated == c1 :> "edit" @@ c2 :> "edit" @@ c3 :> "isolated"
AllEdit == [c \in ThreeCalls |-> "edit"]
=============================================================================
