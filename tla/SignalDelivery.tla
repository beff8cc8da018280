--------------------------- MODULE SignalDelivery ---------------------------
(***************************************************************************)
(* What the signal mailbox of a Graph promises to those who send signals   *)
(* and to the waits that take them: a signal that was accepted is never    *)
(* lost, and it is delivered to one wait, once.  The implementation is in  *)
(* module GraphSignals.                                                    *)
(***************************************************************************)
CONSTANTS Signal, Wait, Nobody

VARIABLES
    sent,      \* the signals accepted so far
    pool,      \* those not yet delivered
    outcome    \* [Wait -> Signal or Nobody]: what each wait was given

vars == <<sent, pool, outcome>>

Init ==
    /\ sent = {}
    /\ pool = {}
    /\ outcome = [n \in Wait |-> Nobody]

Send(s) ==
    /\ s \notin sent
    /\ sent' = sent \union {s}
    /\ pool' = pool \union {s}
    /\ UNCHANGED outcome

(* The only way out of the pool is into the result of a wait.              *)
Deliver(n, s) ==
    /\ s \in pool
    /\ outcome[n] = Nobody
    /\ pool' = pool \ {s}
    /\ outcome' = [outcome EXCEPT ![n] = s]
    /\ UNCHANGED sent

(* Waits are to be waited for again; what they were given stays taken.     *)
Repeat(again) ==
    /\ outcome' = [n \in Wait |-> IF n \in again THEN Nobody ELSE outcome[n]]
    /\ UNCHANGED <<sent, pool>>

Next ==
    \/ \E s \in Signal : Send(s)
    \/ \E n \in Wait, s \in Signal : Deliver(n, s)
    \/ \E again \in SUBSET Wait : Repeat(again)

Spec == Init /\ [][Next]_vars
=============================================================================
