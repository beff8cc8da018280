--------------------------- MODULE ExclusiveLease ---------------------------
(***************************************************************************)
(* What session-lease.ts promises its callers, without a file system: a    *)
(* named lease has one owner at a time, the workspace guard is owned only  *)
(* while no other process owns a session, and the leases of a process end  *)
(* with it.                                                                *)
(***************************************************************************)
CONSTANTS Proc, Sessions, Guard

Names == Sessions \union {Guard}

VARIABLES
    running,  \* the processes that run
    owns      \* [Proc -> SUBSET Names]

vars == <<running, owns>>

Init ==
    /\ running = Proc
    /\ owns = [p \in Proc |-> {}]

Others(p) == Proc \ {p}

Free(p, n) ==
    /\ \A q \in Others(p) : n \notin owns[q]
    /\ n = Guard => \A q \in Others(p) : owns[q] = {}
    /\ n # Guard => \A q \in Others(p) : Guard \notin owns[q]

Acquire(p, n) ==
    /\ p \in running
    /\ n \notin owns[p]
    /\ Free(p, n)
    /\ owns' = [owns EXCEPT ![p] = @ \union {n}]
    /\ UNCHANGED running

Release(p, n) ==
    /\ n \in owns[p]
    /\ owns' = [owns EXCEPT ![p] = @ \ {n}]
    /\ UNCHANGED running

Die(p) ==
    /\ p \in running
    /\ running' = running \ {p}
    /\ owns' = [owns EXCEPT ![p] = {}]

Next ==
    \E p \in Proc :
        \/ \E n \in Names : Acquire(p, n) \/ Release(p, n)
        \/ Die(p)

Spec == Init /\ [][Next]_vars
=============================================================================
