-------------------------- MODULE RemoteNodesProofs --------------------------
(***************************************************************************)
(* Theorems about remote nodes and their reservations (module RemoteNodes) *)
(* for any nodes, executors, capacities, retries and lengths of a          *)
(* reservation: types, capacity, accounting, and that a result in the      *)
(* journal is not computed again.                                          *)
(***************************************************************************)
EXTENDS RemoteNodes, FiniteSetTheorems, TLAPS

(* What the attempts know: the types of all but the document, where a      *)
(* handle is held, and which keys may be running.                          *)
Handle(n) ==
    /\ pc[n] # "waiting" => attempt[n] >= 1
    /\ attempt[n] <= MaxRetries[n] + 1
    /\ token[n] <= tokens[n]
    /\ pc[n] \notin {"launch", "execute", "finalize", "release"} => token[n] = 0
    /\ pc[n] \in {"launch", "execute"} => token[n] # 0

Keyed(n) ==
    /\ running[n] \subseteq 1..attempt[n]
    /\ pc[n] \in {"reserve", "launch", "down"} => attempt[n] \notin running[n]
    /\ pc[n] = "launch" => attempt[n] \notin journal[n]

Control ==
    /\ pc \in [Node -> Positions]
    /\ attempt \in [Node -> Nat]
    /\ token \in [Node -> Nat] /\ tokens \in [Node -> Nat]
    /\ due \in [Node -> 0..TTL]
    /\ outcome \in [Node -> Outcomes] /\ stopped \in [Node -> Stops]
    /\ running \in [Node -> SUBSET Keys] /\ orphans \in [Node -> SUBSET Keys]
    /\ journal \in [Node -> SUBSET Keys]
    /\ found \in [Node -> BOOLEAN]
    /\ crashes \in 0..MaxCrashes /\ stalls \in 0..MaxStalls /\ stops \in 0..MaxStops
    /\ \A n \in Node : Handle(n) /\ Keyed(n)

(* The document: every reservation has a token that was made for its node, *)
(* and an id of its own.                                                   *)
Distinct ==
    \A r, q \in reservations : r.node = q.node /\ (r.key = q.key \/ r.token = q.token) => r = q

Store ==
    /\ reservations \subseteq Reservation
    /\ IsFiniteSet(reservations)
    /\ \A r \in reservations : r.token \in 1..tokens[r.node]
    /\ Distinct
    /\ abandoned \subseteq [node : Node, token : Nat]
    /\ \A a \in abandoned : a.token <= tokens[a.node]

Fits ==
    /\ Cardinality(reservations) <= MaxReservations
    /\ \A e \in Executor : Cardinality(Slots(e)) <= Capacity[e]

-----------------------------------------------------------------------------
LEMMA KeyFacts ==
    /\ \A n \in Node : \A k \in 1..(MaxRetries[n] + 1) : k \in Keys
    /\ Keys \subseteq Nat \ {0}
BY LimitAssumption DEF Keys

LEMMA IntervalFacts == Interval \in Nat /\ Interval >= 1 /\ Interval < TTL
BY TimeAssumption DEF Interval

LEMMA ControlInit == Init => Control
BY LimitAssumption, TimeAssumption
DEF Init, Control, Handle, Keyed, Positions, Outcomes, Stops

USE DEF Goto, End, handle, remote, counts

LEMMA ControlReserving ==
    ASSUME Control, NEW n \in Node,
           \/ Begin(n) \/ Recover(n) \/ ReserveFound(n) \/ ReserveNew(n)
           \/ ReserveRefused(n) \/ ReserveBusy(n),
           Store
    PROVE  Control'
<1>1. CASE Begin(n)
  <2>1. attempt[n] \in Nat /\ MaxRetries[n] \in Nat /\ attempt[n] <= MaxRetries[n] /\ token[n] = 0
    BY <1>1, LimitAssumption DEF Begin, Control, Handle
  <2>2. running[n] \subseteq 1..(attempt[n] + 1) /\ attempt[n] + 1 \notin running[n]
    BY <2>1 DEF Control, Keyed
  <2>3. attempt' = [attempt EXCEPT ![n] = attempt[n] + 1] /\ pc' = [pc EXCEPT ![n] = "reserve"]
        /\ UNCHANGED <<token, tokens, due, outcome, stopped, running, orphans, journal, found, crashes, stalls, stops>>
    BY <1>1 DEF Begin
  <2>. QED  BY <2>1, <2>2, <2>3 DEF Control, Handle, Keyed, Positions
<1>2. CASE Recover(n)
  BY <1>2 DEF Recover, Control, Handle, Keyed, Positions
<1>3. CASE ReserveFound(n)
  <2>1. PICK r \in Found(n) : token' = [token EXCEPT ![n] = r.token]
    BY <1>3 DEF ReserveFound
  <2>2. r.token \in Nat /\ r.token >= 1 /\ r.token <= tokens[n]
    BY <2>1 DEF Found, Store, Reservation, Control
  <2>. QED  BY <1>3, <2>1, <2>2 DEF ReserveFound, Reserving, Control, Handle, Keyed, Positions
<1>4. CASE ReserveNew(n)
  BY <1>4 DEF ReserveNew, Reserving, Control, Handle, Keyed, Positions
<1>5. CASE ReserveRefused(n)
  BY <1>5 DEF ReserveRefused, Reserving, Control, Handle, Keyed, Positions, Outcomes
<1>6. CASE ReserveBusy(n)
  BY <1>6 DEF ReserveBusy, Reserving, Control, Handle, Keyed, Positions, Outcomes
<1>. QED  BY <1>1, <1>2, <1>3, <1>4, <1>5, <1>6

LEMMA ControlLaunching ==
    ASSUME Control, NEW n \in Node,
           \/ Launch(n) \/ \E o \in {"error", "fatal"} : LaunchFails(n, o)
           \/ \E k \in Keys : \E w \in BOOLEAN : Returns(n, k, w)
           \/ \E k \in Keys : \E o \in {"error", "fatal"} : Breaks(n, k, o)
           \/ \E k \in Keys : OrphanEnds(n, k)
    PROVE  Control'
<1>1. CASE Launch(n)
  <2>1. attempt[n] \in Keys /\ attempt[n] \in 1..attempt[n]
    BY <1>1, KeyFacts, LimitAssumption DEF Launch, Control, Handle
  <2>2. Interval \in 0..TTL
    BY IntervalFacts, TimeAssumption
  <2>. QED  BY <1>1, <2>1, <2>2 DEF Launch, Control, Handle, Keyed, Positions
<1>2. ASSUME NEW o \in {"error", "fatal"}, LaunchFails(n, o) PROVE Control'
  BY <1>2 DEF LaunchFails, Control, Handle, Keyed, Positions, Outcomes
<1>3. ASSUME NEW k \in Keys, NEW w \in BOOLEAN, Returns(n, k, w) PROVE Control'
  <2>1. pc[n] = "launch" => k # attempt[n]
    BY <1>3 DEF Returns, Control, Keyed
  <2>2. journal' \in [Node -> SUBSET Keys] /\ \A m \in Node \ {n} : journal'[m] = journal[m]
    BY <1>3 DEF Returns, Control
  <2>3. journal'[n] \subseteq journal[n] \union {k}
    BY <1>3 DEF Returns, Control
  <2>4. pc' \in [Node -> Positions] /\ \A m \in Node \ {n} : pc'[m] = pc[m]
    BY <1>3 DEF Returns, Control, Positions
  <2>5. pc'[n] = pc[n] \/ (pc[n] = "execute" /\ pc'[n] = "finalize")
    BY <1>3 DEF Returns, Control
  <2>6. running' = [running EXCEPT ![n] = @ \ {k}]
        /\ UNCHANGED <<attempt, token, tokens, due, outcome, stopped, orphans, found, crashes, stalls, stops>>
    BY <1>3 DEF Returns
  <2>. QED  BY <2>1, <2>2, <2>3, <2>4, <2>5, <2>6 DEF Control, Handle, Keyed
<1>4. ASSUME NEW k \in Keys, NEW o \in {"error", "fatal"}, Breaks(n, k, o) PROVE Control'
  <2>1. pc' \in [Node -> Positions] /\ outcome' \in [Node -> Outcomes]
        /\ \A m \in Node \ {n} : pc'[m] = pc[m]
    BY <1>4 DEF Breaks, Control, Positions, Outcomes
  <2>2. pc'[n] = pc[n] \/ (pc[n] = "execute" /\ pc'[n] = "release")
    BY <1>4 DEF Breaks, Control
  <2>3. running' = [running EXCEPT ![n] = @ \ {k}]
        /\ UNCHANGED <<attempt, token, tokens, due, stopped, orphans, journal, found, crashes, stalls, stops>>
    BY <1>4 DEF Breaks
  <2>. QED  BY <2>1, <2>2, <2>3 DEF Control, Handle, Keyed
<1>5. ASSUME NEW k \in Keys, OrphanEnds(n, k) PROVE Control'
  BY <1>5 DEF OrphanEnds, Control, Handle, Keyed
<1>. QED  BY <1>1, <1>2, <1>3, <1>4, <1>5

LEMMA ControlEnding ==
    ASSUME Control, NEW n \in Node,
           \/ Renew(n) \/ \E o \in {"error", "fatal"} : Lose(n, o)
           \/ \E o \in {"result", "error", "fatal"} : Finalize(n, o)
           \/ Release(n) \/ ReleaseBusy(n) \/ Settle(n)
           \/ \E why \in {"timeout", "cancel"} : Stop(n, why)
           \/ Crash(n) \/ Resume(n)
    PROVE  Control'
<1>0. Interval \in 0..TTL
  BY IntervalFacts, TimeAssumption
<1>1. CASE Renew(n)
  BY <1>0, <1>1 DEF Renew, Control, Handle, Keyed
<1>2. ASSUME NEW o \in {"error", "fatal"}, Lose(n, o) PROVE Control'
  <2>1. pc' \in [Node -> Positions] /\ outcome' \in [Node -> Outcomes]
        /\ \A m \in Node \ {n} : pc'[m] = pc[m]
    BY <1>2 DEF Lose, Control, Positions, Outcomes
  <2>2. pc'[n] = pc[n] \/ (pc[n] = "execute" /\ pc'[n] = "release")
    BY <1>2 DEF Lose, Control
  <2>3. due' = [due EXCEPT ![n] = Interval]
        /\ UNCHANGED <<attempt, token, tokens, stopped, running, orphans, journal, found, crashes, stalls, stops>>
    BY <1>2 DEF Lose
  <2>. QED  BY <1>0, <2>1, <2>2, <2>3 DEF Control, Handle, Keyed
<1>3. ASSUME NEW o \in {"result", "error", "fatal"}, Finalize(n, o) PROVE Control'
  BY <1>3 DEF Finalize, Control, Handle, Keyed, Positions, Outcomes
<1>4. CASE Release(n)
  BY <1>4, TimeAssumption DEF Release, Control, Handle, Keyed, Positions
<1>5. CASE ReleaseBusy(n)
  BY <1>5, TimeAssumption DEF ReleaseBusy, Control, Handle, Keyed, Positions, Outcomes
<1>6. CASE Settle(n)
  BY <1>6 DEF Settle, Control, Handle, Keyed, Positions, Outcomes, Stops
<1>7. ASSUME NEW why \in {"timeout", "cancel"}, Stop(n, why) PROVE Control'
  BY <1>7, LimitAssumption DEF Stop, Control, Handle, Keyed, Stops
<1>8. CASE Crash(n)
  <2>1. pc[n] # "waiting"
    BY <1>8 DEF Crash, Alive
  <2>2. orphans' \in [Node -> SUBSET Keys] /\ running' \in [Node -> SUBSET Keys]
    BY <1>8 DEF Crash, Control
  <2>. QED  BY <1>8, <2>1, <2>2, LimitAssumption, TimeAssumption
            DEF Crash, Control, Handle, Keyed, Positions, Outcomes, Stops
<1>9. CASE Resume(n)
  BY <1>9 DEF Resume, Control, Handle, Keyed, Positions
<1>. QED  BY <1>1, <1>2, <1>3, <1>4, <1>5, <1>6, <1>7, <1>8, <1>9

LEMMA ControlStep == Control /\ Store /\ [Next]_vars => Control'
<1> SUFFICES ASSUME Control, Store, [Next]_vars PROVE Control'
  OBVIOUS
<1>1. ASSUME NEW n \in Node, Runs(n) \/ Executes(n) \/ Crash(n) \/ Resume(n) PROVE Control'
  BY <1>1, ControlReserving, ControlLaunching, ControlEnding DEF Runs, Executes
<1>2. ASSUME NEW n \in Node, NEW why \in {"timeout", "cancel"}, Stop(n, why) PROVE Control'
  BY <1>2, ControlEnding
<1>3. ASSUME NEW r \in reservations, Reconcile(r) PROVE Control'
  BY <1>3 DEF Reconcile, Control, Handle, Keyed
<1>4. CASE Tick
  <2>1. due' \in [Node -> 0..TTL] /\ stalls' \in 0..MaxStalls
    BY <1>4, LimitAssumption, TimeAssumption DEF Tick, Control
  <2>. QED  BY <1>4, <2>1 DEF Tick, Control, Handle, Keyed
<1>5. CASE UNCHANGED vars
  BY <1>5 DEF vars, Control, Handle, Keyed
<1>. QED  BY <1>1, <1>2, <1>3, <1>4, <1>5 DEF Next, Done
-----------------------------------------------------------------------------
(* The document: every operation removes reservations, adds one that was   *)
(* not there, or moves times of expiry.                                    *)
LEMMA StoreSubset ==
    ASSUME Store, Fits, reservations' \subseteq reservations, tokens' = tokens,
           abandoned' \subseteq [node : Node, token : Nat],
           \A a \in abandoned' : a.token <= tokens[a.node]
    PROVE  Store' /\ Fits'
<1>1. IsFiniteSet(reservations') /\ Cardinality(reservations') <= Cardinality(reservations)
      /\ Cardinality(reservations') \in Nat /\ Cardinality(reservations) \in Nat
  BY FS_Subset, FS_CardinalityType DEF Store
<1>2. Store'
  BY <1>1 DEF Store, Distinct
<1>3. ASSUME NEW e \in Executor PROVE Cardinality(Slots(e)') <= Capacity[e]
  <2>1. Slots(e) \subseteq reservations /\ Slots(e)' \subseteq Slots(e)
    BY DEF Slots
  <2>2. IsFiniteSet(Slots(e)) /\ Cardinality(Slots(e)) \in Nat
    BY <2>1, FS_Subset, FS_CardinalityType DEF Store
  <2>3. Cardinality(Slots(e)') <= Cardinality(Slots(e)) /\ Cardinality(Slots(e)') \in Nat
    BY <2>1, <2>2, FS_Subset, FS_CardinalityType
  <2>. QED  BY <2>2, <2>3, ExecutorAssumption DEF Fits
<1>4. Cardinality(reservations') <= MaxReservations
  BY <1>1, LimitAssumption DEF Fits
<1>. QED  BY <1>2, <1>3, <1>4 DEF Fits

(* A set that a function maps onto another is at least as large.           *)
LEMMA Onto ==
    ASSUME NEW S, IsFiniteSet(S), NEW f \in [reservations -> Reservation], S \subseteq reservations,
           NEW N \in Nat, Cardinality(S) <= N
    PROVE  IsFiniteSet({f[r] : r \in S}) /\ Cardinality({f[r] : r \in S}) <= N
<1> DEFINE T == {f[r] : r \in S}
           g == [r \in S |-> f[r]]
<1>1. g \in Surjection(S, T)
  BY DEF Surjection
<1>2. IsFiniteSet(T) /\ Cardinality(T) <= Cardinality(S)
  <2> HIDE DEF T, g
  <2>. QED  BY <1>1, FS_Surjection
<1>3. Cardinality(T) \in Nat /\ Cardinality(S) \in Nat
  BY <1>2, FS_CardinalityType
<1>. QED  BY <1>2, <1>3

LEMMA StoreMoved ==
    ASSUME Store, Fits, NEW f \in [reservations -> Reservation], NEW S \in SUBSET reservations,
           \A r \in S : f[r].node = r.node /\ f[r].key = r.key /\ f[r].token = r.token,
           reservations' = {f[r] : r \in S}, tokens' = tokens,
           abandoned' \subseteq abandoned
    PROVE  Store' /\ Fits'
<1>1. IsFiniteSet(S) /\ Cardinality(S) <= MaxReservations
  <2>1. IsFiniteSet(S) /\ Cardinality(S) <= Cardinality(reservations)
        /\ Cardinality(S) \in Nat /\ Cardinality(reservations) \in Nat
    BY FS_Subset, FS_CardinalityType DEF Store
  <2>. QED  BY <2>1, LimitAssumption DEF Fits
<1>2. IsFiniteSet(reservations') /\ Cardinality(reservations') <= MaxReservations
  BY <1>1, Onto, LimitAssumption
<1>3. Distinct'
  BY DEF Distinct, Store
<1>4. Store'
  BY <1>2, <1>3 DEF Store
<1>5. ASSUME NEW e \in Executor PROVE Cardinality(Slots(e)') <= Capacity[e]
  <2> DEFINE P == {r \in S : ExecutorOf[r.node] = e}
  <2>1. Slots(e)' = {f[r] : r \in P}
    BY DEF Slots
  <2>2. P \subseteq Slots(e) /\ Slots(e) \subseteq reservations /\ P \subseteq reservations
    BY DEF Slots
  <2>3. Capacity[e] \in Nat
    BY ExecutorAssumption
  <2> HIDE DEF P
  <2>4. IsFiniteSet(P) /\ Cardinality(P) <= Capacity[e]
    <3>1. IsFiniteSet(Slots(e)) /\ Cardinality(Slots(e)) \in Nat
      BY <2>2, FS_Subset, FS_CardinalityType DEF Store
    <3>2. IsFiniteSet(P) /\ Cardinality(P) <= Cardinality(Slots(e)) /\ Cardinality(P) \in Nat
      BY <2>2, <3>1, FS_Subset, FS_CardinalityType
    <3>. QED  BY <2>3, <3>1, <3>2 DEF Fits
  <2>. QED  BY <2>1, <2>2, <2>3, <2>4, Onto
<1>. QED  BY <1>2, <1>4, <1>5 DEF Fits

(* One element more.                                                       *)
LEMMA OneMore ==
    ASSUME NEW S, IsFiniteSet(S), NEW x, x \notin S, NEW N \in Nat, Cardinality(S) < N
    PROVE  IsFiniteSet(S \union {x}) /\ Cardinality(S \union {x}) <= N
<1>1. IsFiniteSet(S \union {x}) /\ Cardinality(S \union {x}) = Cardinality(S) + 1
  BY FS_AddElement
<1>2. Cardinality(S) \in Nat
  BY FS_CardinalityType
<1>. QED  BY <1>1, <1>2

LEMMA StoreNew ==
    ASSUME Control, Store, Fits, NEW n \in Node, ReserveNew(n)
    PROVE  Store' /\ Fits'
<1> DEFINE new == [node |-> n, key |-> attempt[n], token |-> tokens[n] + 1, left |-> TTL]
<1>1. new \in Reservation /\ new.node = n /\ new.key = attempt[n] /\ new.token = tokens[n] + 1
  <2>1. attempt[n] \in Keys
    BY KeyFacts, LimitAssumption DEF ReserveNew, Reserving, Control, Handle
  <2>. QED  BY <2>1, TimeAssumption DEF Reservation, Control
<1>2. /\ reservations' = reservations \union {new}
      /\ tokens' = [tokens EXCEPT ![n] = tokens[n] + 1] /\ abandoned' = abandoned
  BY DEF ReserveNew
<1>3. Found(n) = {} /\ ~Full(n)
  BY DEF ReserveNew
<1> HIDE DEF new
<1>4. tokens[n] \in Nat /\ tokens \in [Node -> Nat]
  BY DEF Control
<1>5. \A r \in reservations : r.node = n => r.key # new.key /\ r.token # new.token
  BY <1>1, <1>3, <1>4 DEF Found, Store, Reservation
<1>6. new \notin reservations
  BY <1>1, <1>5
<1>7. IsFiniteSet(reservations') /\ Cardinality(reservations') <= MaxReservations
  <2>1. Cardinality(reservations) < MaxReservations
    <3>1. Cardinality(reservations) \in Nat
      BY FS_CardinalityType DEF Store
    <3>. QED  BY <1>3, <3>1, LimitAssumption DEF Full
  <2>2. IsFiniteSet(reservations) /\ MaxReservations \in Nat
    BY LimitAssumption DEF Store
  <2>. QED  BY <1>2, <1>6, <2>1, <2>2, OneMore
<1>8. Distinct'
  BY <1>1, <1>2, <1>5 DEF Distinct, Store
<1>9. \A r \in reservations' : r.token \in 1..tokens'[r.node]
  <2>1. ASSUME NEW r \in reservations PROVE r.token \in 1..tokens'[r.node]
    BY <1>2, <1>4 DEF Store, Reservation
  <2>. QED  BY <1>1, <1>2, <1>4, <2>1
<1>10. \A a \in abandoned' : a.token <= tokens'[a.node]
  BY <1>2, <1>4 DEF Store
<1>11. Store'
  BY <1>1, <1>2, <1>7, <1>8, <1>9, <1>10 DEF Store
<1>12. ASSUME NEW e \in Executor PROVE Cardinality(Slots(e)') <= Capacity[e]
  <2>1. Slots(e) \subseteq reservations /\ IsFiniteSet(Slots(e)) /\ Cardinality(Slots(e)) \in Nat
    <3>1. Slots(e) \subseteq reservations
      BY DEF Slots
    <3>. QED  BY <3>1, FS_Subset, FS_CardinalityType DEF Store
  <2>2. CASE e = ExecutorOf[n]
    <3>1. Slots(e)' = Slots(e) \union {new} /\ new \notin Slots(e)
      BY <1>1, <1>2, <1>6, <2>1, <2>2 DEF Slots
    <3>2. Cardinality(Slots(e)) < Capacity[e]
      BY <1>3, <2>1, <2>2, ExecutorAssumption DEF Full
    <3>3. Capacity[e] \in Nat
      BY ExecutorAssumption
    <3>. QED  BY <2>1, <3>1, <3>2, <3>3, OneMore
  <2>3. CASE e # ExecutorOf[n]
    <3>1. Slots(e)' = Slots(e)
      BY <1>1, <1>2, <2>3 DEF Slots
    <3>. QED  BY <3>1 DEF Fits
  <2>. QED  BY <2>2, <2>3
<1>. QED  BY <1>7, <1>11, <1>12 DEF Fits

(* The reservations of an operation that leaves the document alone.        *)
LEMMA StoreKept ==
    ASSUME Store, Fits, reservations' = reservations, tokens' = tokens,
           abandoned' \subseteq [node : Node, token : Nat],
           \A a \in abandoned' : a.token <= tokens[a.node]
    PROVE  Store' /\ Fits'
BY StoreSubset

LEMMA StoreRenew ==
    ASSUME Store, Fits, NEW n \in Node, Renew(n)
    PROVE  Store' /\ Fits'
<1>1. PICK r \in reservations :
         reservations' = (reservations \ {r}) \union {[r EXCEPT !.left = TTL]}
  BY DEF Renew
<1> DEFINE f == [q \in reservations |-> IF q = r THEN [r EXCEPT !.left = TTL] ELSE q]
<1>2. [r EXCEPT !.left = TTL] \in Reservation
      /\ [r EXCEPT !.left = TTL].node = r.node
      /\ [r EXCEPT !.left = TTL].key = r.key
      /\ [r EXCEPT !.left = TTL].token = r.token
  BY <1>1, TimeAssumption DEF Store, Reservation
<1>3. f \in [reservations -> Reservation]
  BY <1>2 DEF Store
<1>4. \A q \in reservations : f[q].node = q.node /\ f[q].key = q.key /\ f[q].token = q.token
  BY <1>2
<1>5. reservations' = {f[q] : q \in reservations}
  BY <1>1
<1>6. tokens' = tokens /\ abandoned' = abandoned
  BY DEF Renew
<1> HIDE DEF f
<1>. QED  BY <1>3, <1>4, <1>5, <1>6, StoreMoved

LEMMA StoreTick ==
    ASSUME Store, Fits, Tick
    PROVE  Store' /\ Fits'
<1> DEFINE S == {q \in reservations : q.left > 1}
           f == [q \in reservations |-> IF q.left > 1 THEN [q EXCEPT !.left = @ - 1] ELSE q]
<1>1. f \in [reservations -> Reservation]
  <2>1. ASSUME NEW q \in reservations, q.left > 1 PROVE [q EXCEPT !.left = @ - 1] \in Reservation
    BY <2>1, TimeAssumption DEF Store, Reservation
  <2>. QED  BY <2>1 DEF Store
<1>2. \A q \in S : f[q].node = q.node /\ f[q].key = q.key /\ f[q].token = q.token
  BY DEF Store, Reservation
<1>3. reservations' = {f[q] : q \in S}
  BY DEF Tick
<1>4. tokens' = tokens /\ abandoned' \subseteq abandoned /\ S \in SUBSET reservations
  BY DEF Tick
<1> HIDE DEF f, S
<1>. QED  BY <1>1, <1>2, <1>3, <1>4, StoreMoved

LEMMA StoreStep == Control /\ Store /\ Fits /\ [Next]_vars => Store' /\ Fits'
<1> SUFFICES ASSUME Control, Store, Fits, [Next]_vars PROVE Store' /\ Fits'
  OBVIOUS
<1>0. /\ abandoned \subseteq [node : Node, token : Nat]
      /\ \A a \in abandoned : a.token <= tokens[a.node]
  BY DEF Store
<1>1. ASSUME NEW n \in Node, ReserveFound(n) PROVE Store' /\ Fits'
  BY <1>0, <1>1, StoreKept DEF ReserveFound
<1>2. ASSUME NEW n \in Node, Release(n) PROVE Store' /\ Fits'
  BY <1>0, <1>2, StoreSubset DEF Release
<1>3. ASSUME NEW n \in Node, ReleaseBusy(n) \/ Crash(n) PROVE Store' /\ Fits'
  <2>1. reservations' = reservations /\ tokens' = tokens
    BY <1>3 DEF ReleaseBusy, Crash
  <2>2. abandoned' \subseteq abandoned \union {[node |-> n, token |-> token[n]]}
    BY <1>3 DEF ReleaseBusy, Crash
  <2>3. token[n] \in Nat /\ token[n] <= tokens[n]
    BY DEF Control, Handle
  <2>. QED  BY <1>0, <2>1, <2>2, <2>3, StoreKept
<1>4. ASSUME NEW n \in Node,
             \/ Begin(n) \/ Recover(n) \/ Launch(n) \/ Settle(n) \/ ReserveRefused(n)
             \/ ReserveBusy(n) \/ Resume(n)
             \/ \E o \in {"error", "fatal"} : LaunchFails(n, o) \/ Lose(n, o)
             \/ \E o \in {"result", "error", "fatal"} : Finalize(n, o)
             \/ Executes(n)
             \/ \E why \in {"timeout", "cancel"} : Stop(n, why)
      PROVE  Store' /\ Fits'
  <2>1. reservations' = reservations /\ tokens' = tokens /\ abandoned' = abandoned
    BY <1>4 DEF Begin, Recover, Launch, Settle, ReserveRefused, ReserveBusy, Resume, LaunchFails,
                Lose, Finalize, Executes, Returns, Breaks, OrphanEnds, Stop
  <2>. QED  BY <1>0, <2>1, StoreKept
<1>5. ASSUME NEW r \in reservations, Reconcile(r) PROVE Store' /\ Fits'
  BY <1>0, <1>5, StoreSubset DEF Reconcile
<1>6. CASE UNCHANGED vars
  BY <1>0, <1>6, StoreKept DEF vars
<1>7. ASSUME NEW n \in Node, Runs(n) \/ Executes(n) \/ Crash(n) \/ Resume(n) PROVE Store' /\ Fits'
  BY <1>1, <1>2, <1>3, <1>4, <1>7, StoreNew, StoreRenew DEF Runs
<1>. QED  BY <1>4, <1>5, <1>6, <1>7, StoreTick DEF Next, Done

LEMMA StoreInit == Init => Store /\ Fits
<1> SUFFICES ASSUME Init PROVE Store /\ Fits
  OBVIOUS
<1>1. IsFiniteSet({}) /\ Cardinality({}) = 0
  BY FS_EmptySet
<1>2. \A e \in Executor : Slots(e) = {}
  BY DEF Init, Slots
<1>3. Cardinality(reservations) = 0 /\ \A e \in Executor : Cardinality(Slots(e)) = 0
  BY <1>1, <1>2 DEF Init
<1>4. 0 <= MaxReservations /\ \A e \in Executor : 0 <= Capacity[e]
  BY LimitAssumption, ExecutorAssumption
<1>5. Fits
  BY <1>3, <1>4 DEF Fits
<1>. QED  BY <1>1, <1>5 DEF Init, Store, Distinct

(* Types: every reservation has an id and a token of its own, and the      *)
(* document keeps to its limit, whatever the nodes, retries and faults.    *)
THEOREM TypeCorrect == Spec => []TypeOK
<1>1. Init => Control /\ Store /\ Fits
  BY ControlInit, StoreInit
<1>2. Control /\ Store /\ Fits /\ [Next]_vars => (Control /\ Store /\ Fits)'
  BY ControlStep, StoreStep
<1>3. Control /\ Store /\ Fits => TypeOK
  <2> SUFFICES ASSUME Control, Store, Fits PROVE TypeOK
    OBVIOUS
  <2>1. attempt \in [Node -> Keys \union {0}]
    BY KeyFacts, LimitAssumption DEF Control, Handle
  <2>. QED  BY <2>1 DEF Control, Store, Fits, Distinct, TypeOK
<1>. QED  BY <1>1, <1>2, <1>3, PTL DEF Spec

(* A key whose result is in the journal is never launched again.           *)
THEOREM ResultsAreKept == Spec => NotRepeated
<1>1. Init => Control /\ Store /\ Fits
  BY ControlInit, StoreInit
<1>2. Control /\ Store /\ Fits /\ [Next]_vars => (Control /\ Store /\ Fits)'
  BY ControlStep, StoreStep
<1>3. Control => \A n \in Node : pc[n] = "launch" /\ pc'[n] = "execute" => attempt[n] \notin journal[n]
  BY DEF Control, Keyed
<1>. QED  BY <1>1, <1>2, <1>3, PTL DEF Spec, NotRepeated

-----------------------------------------------------------------------------
(* Accounting.                                                             *)
LEMMA AccountedStep == Control /\ Store /\ Accounted /\ [Next]_vars => Accounted'
<1> SUFFICES ASSUME Control, Store, Accounted, [Next]_vars PROVE Accounted'
  OBVIOUS
<1>0. \A r \in reservations : r.node \in Node /\ r.token # 0
  BY DEF Store, Reservation, Control
<1>1. ASSUME NEW n \in Node, Begin(n) PROVE Accounted'
  <2>1. token[n] = 0 /\ reservations' = reservations /\ token' = token /\ abandoned' = abandoned
        /\ \A m \in Node \ {n} : attempt'[m] = attempt[m]
    BY <1>1 DEF Begin, Control, Handle
  <2>. QED  BY <1>0, <2>1 DEF Accounted, IsOf, Abandoned
<1>2. ASSUME NEW n \in Node, ReserveFound(n) PROVE Accounted'
  <2>1. PICK r \in Found(n) : token' = [token EXCEPT ![n] = r.token]
                              /\ abandoned' = abandoned \ {[node |-> n, token |-> r.token]}
    BY <1>2 DEF ReserveFound
  <2>2. token[n] = 0 /\ reservations' = reservations /\ attempt' = attempt
    BY <1>2 DEF ReserveFound, Reserving, Control, Handle
  <2>3. r \in reservations /\ r.node = n /\ r.key = attempt[n]
    BY <2>1 DEF Found
  <2>4. token'[n] = r.token /\ \A m \in Node \ {n} : token'[m] = token[m]
    BY <2>1 DEF Control
  <2>5. ASSUME NEW q \in reservations PROVE IsOf(q, q.node)' \/ Abandoned(q)'
    <3>1. CASE q = r
      BY <2>2, <2>3, <2>4, <3>1 DEF IsOf
    <3>2. CASE q # r /\ q.node = n
      BY <1>0, <2>1, <2>2, <2>3, <3>2 DEF Accounted, IsOf, Abandoned, Store, Distinct
    <3>3. CASE q.node # n
      BY <1>0, <2>1, <2>2, <2>4, <3>3 DEF Accounted, IsOf, Abandoned
    <3>. QED  BY <3>1, <3>2, <3>3
  <2>. QED  BY <2>2, <2>5 DEF Accounted
<1>3. ASSUME NEW n \in Node, ReserveNew(n) PROVE Accounted'
  <2>1. token[n] = 0 /\ attempt' = attempt /\ abandoned' = abandoned
        /\ token'[n] = tokens[n] + 1 /\ \A m \in Node \ {n} : token'[m] = token[m]
    BY <1>3 DEF ReserveNew, Reserving, Control, Handle
  <2>2. reservations' = reservations \union
           {[node |-> n, key |-> attempt[n], token |-> tokens[n] + 1, left |-> TTL]}
    BY <1>3 DEF ReserveNew
  <2>3. ASSUME NEW r \in reservations PROVE IsOf(r, r.node)' \/ Abandoned(r)'
    BY <1>0, <2>1 DEF Accounted, IsOf, Abandoned
  <2>4. ASSUME NEW r, r = [node |-> n, key |-> attempt[n], token |-> tokens[n] + 1, left |-> TTL]
        PROVE  IsOf(r, r.node)'
    BY <2>1, <2>4 DEF IsOf
  <2>. QED  BY <2>2, <2>3, <2>4 DEF Accounted
<1>4. ASSUME NEW n \in Node, Release(n) PROVE Accounted'
  <2>1. reservations' = {r \in reservations : ~IsOf(r, n)} /\ attempt' = attempt /\ abandoned' = abandoned
        /\ \A m \in Node \ {n} : token'[m] = token[m]
    BY <1>4 DEF Release, Control
  <2>. QED  BY <1>0, <2>1 DEF Accounted, IsOf, Abandoned
<1>5. ASSUME NEW n \in Node, ReleaseBusy(n) \/ Crash(n) PROVE Accounted'
  <2>1. reservations' = reservations /\ attempt' = attempt /\ abandoned \subseteq abandoned'
        /\ \A m \in Node \ {n} : token'[m] = token[m]
    BY <1>5 DEF ReleaseBusy, Crash, Control
  <2>2. Reserves(n) => [node |-> n, token |-> token[n]] \in abandoned'
    BY <1>5 DEF ReleaseBusy, Crash
  <2>. QED  BY <1>0, <2>1, <2>2 DEF Accounted, IsOf, Abandoned, Reserves
<1>6. ASSUME NEW n \in Node, Renew(n) PROVE Accounted'
  <2>1. PICK r \in reservations : reservations' = (reservations \ {r}) \union {[r EXCEPT !.left = TTL]}
    BY <1>6 DEF Renew
  <2>2. attempt' = attempt /\ token' = token /\ abandoned' = abandoned
    BY <1>6 DEF Renew
  <2>3. [r EXCEPT !.left = TTL].node = r.node /\ [r EXCEPT !.left = TTL].key = r.key
        /\ [r EXCEPT !.left = TTL].token = r.token
    BY <2>1 DEF Store, Reservation
  <2>. QED  BY <2>1, <2>2, <2>3 DEF Accounted, IsOf, Abandoned
<1>7. CASE Tick
  <2>1. ASSUME NEW q \in reservations' PROVE IsOf(q, q.node)' \/ Abandoned(q)'
    <3>1. PICK r \in reservations : q = [r EXCEPT !.left = @ - 1]
      BY <1>7, <2>1 DEF Tick
    <3>2. q.node = r.node /\ q.key = r.key /\ q.token = r.token
      BY <3>1 DEF Store, Reservation
    <3>3. attempt' = attempt /\ token' = token
      BY <1>7 DEF Tick
    <3>4. Abandoned(r) => Abandoned(q)'
      <4>1. abandoned' = {a \in abandoned : \E p \in reservations' : a = [node |-> p.node, token |-> p.token]}
        BY <1>7 DEF Tick
      <4>. QED  BY <2>1, <3>2, <4>1 DEF Abandoned
    <3>. QED  BY <3>2, <3>3, <3>4 DEF Accounted, IsOf
  <2>. QED  BY <2>1 DEF Accounted
<1>8. ASSUME NEW r \in reservations, Reconcile(r) PROVE Accounted'
  BY <1>8 DEF Reconcile, Accounted, IsOf, Abandoned, Store, Distinct
<1>9. ASSUME NEW n \in Node,
             \/ Recover(n) \/ Launch(n) \/ Settle(n) \/ ReserveRefused(n)
             \/ ReserveBusy(n) \/ Resume(n)
             \/ \E o \in {"error", "fatal"} : LaunchFails(n, o) \/ Lose(n, o)
             \/ \E o \in {"result", "error", "fatal"} : Finalize(n, o)
             \/ Executes(n)
             \/ \E why \in {"timeout", "cancel"} : Stop(n, why)
      PROVE  Accounted'
  <2>1. reservations' = reservations /\ attempt' = attempt /\ token' = token /\ abandoned' = abandoned
    BY <1>9 DEF Recover, Launch, Settle, ReserveRefused, ReserveBusy, Resume, LaunchFails,
                Lose, Finalize, Executes, Returns, Breaks, OrphanEnds, Stop
  <2>. QED  BY <2>1 DEF Accounted, IsOf, Abandoned
<1>10. CASE UNCHANGED vars
  BY <1>10 DEF vars, Accounted, IsOf, Abandoned
<1>11. ASSUME NEW n \in Node, Runs(n) \/ Executes(n) \/ Crash(n) \/ Resume(n) PROVE Accounted'
  BY <1>1, <1>2, <1>3, <1>4, <1>5, <1>6, <1>9, <1>11 DEF Runs
<1>. QED  BY <1>7, <1>8, <1>9, <1>10, <1>11 DEF Next, Done

(* No capacity leaks: a reservation that no attempt holds was left by a    *)
(* process that died or by a release that found the lease busy.            *)
THEOREM NothingLeaks == Spec => []Accounted
<1>1. Init => Control /\ Store /\ Fits /\ Accounted
  BY ControlInit, StoreInit DEF Init, Accounted
<1>2. Control /\ Store /\ Fits /\ Accounted /\ [Next]_vars => (Control /\ Store /\ Fits /\ Accounted)'
  BY ControlStep, StoreStep, AccountedStep
<1>. QED  BY <1>1, <1>2, PTL DEF Spec

-----------------------------------------------------------------------------
(* The reservation of an attempt under way outlives its renewal timer, as  *)
(* long as no timer was late and nobody removed one that was in use.       *)
Outlives(n, t) == \E r \in reservations : IsOf(r, n) /\ r.left > t

Secure(n) ==
    /\ token[n] # 0 => [node |-> n, token |-> token[n]] \notin abandoned
    /\ pc[n] = "launch" /\ ~found[n] => Outlives(n, Interval)
    /\ pc[n] = "execute" /\ ~found[n] => Outlives(n, due[n])

Punctual == stalls = 0 /\ ~Mistaken => \A n \in Node : Secure(n)

(* What a step leaves alone stays secure.                                  *)
LEMMA SecureKept ==
    ASSUME NEW m \in Node, Secure(m),
           pc'[m] = pc[m], attempt'[m] = attempt[m], token'[m] = token[m], due'[m] = due[m],
           found'[m] = found[m],
           \A r \in reservations : IsOf(r, m) => r \in reservations',
           \A a \in abandoned' : a.node = m => a \in abandoned
    PROVE  Secure(m)'
<1>1. \A r : IsOf(r, m) <=> IsOf(r, m)'
  BY DEF IsOf
<1>2. \A t : Outlives(m, t) => \E r \in reservations' : IsOf(r, m)' /\ r.left > t
  BY <1>1 DEF Outlives
<1>3. token'[m] # 0 => [node |-> m, token |-> token'[m]] \notin abandoned'
  BY DEF Secure
<1>4. pc'[m] = "launch" /\ ~found'[m] => \E r \in reservations' : IsOf(r, m)' /\ r.left > Interval
  BY <1>2 DEF Secure
<1>5. pc'[m] = "execute" /\ ~found'[m] => \E r \in reservations' : IsOf(r, m)' /\ r.left > due'[m]
  BY <1>2 DEF Secure
<1>. QED  BY <1>3, <1>4, <1>5 DEF Secure, Outlives, Interval

(* An attempt that is neither to be launched nor awaits its executor.      *)
LEMMA SecureIdle ==
    ASSUME NEW m \in Node, Secure(m), pc'[m] \notin {"launch", "execute"},
           token'[m] = 0 \/ token'[m] = token[m],
           \A a \in abandoned' : a.node = m => a \in abandoned \/ token'[m] = 0
    PROVE  Secure(m)'
BY DEF Secure

LEMMA SecureReserving ==
    ASSUME Control, Store, NEW n \in Node, Secure(n),
           Begin(n) \/ Recover(n) \/ ReserveFound(n) \/ ReserveNew(n) \/ ReserveRefused(n)
           \/ ReserveBusy(n)
    PROVE  Secure(n)'
<1>1. CASE ReserveFound(n)
  <2>1. PICK r \in Found(n) : token' = [token EXCEPT ![n] = r.token]
                              /\ abandoned' = abandoned \ {[node |-> n, token |-> r.token]}
    BY <1>1 DEF ReserveFound
  <2>2. token'[n] = r.token /\ [node |-> n, token |-> r.token] \notin abandoned'
    BY <2>1 DEF Control
  <2>3. pc'[n] = "launch" /\ found'[n]
    BY <1>1 DEF ReserveFound, Control
  <2>. QED  BY <2>2, <2>3 DEF Secure
<1>2. CASE ReserveNew(n)
  <2>1. token'[n] = tokens[n] + 1 /\ attempt'[n] = attempt[n]
        /\ abandoned' = abandoned /\ pc'[n] = "launch"
    BY <1>2 DEF ReserveNew, Control
  <2>2. [node |-> n, token |-> tokens[n] + 1] \notin abandoned
    <3>1. tokens[n] \in Nat
      BY DEF Control
    <3>. QED  BY <3>1 DEF Store
  <2>3. PICK r \in reservations' :
           r.node = n /\ r.key = attempt[n] /\ r.token = tokens[n] + 1 /\ r.left = TTL
    <3> DEFINE new == [node |-> n, key |-> attempt[n], token |-> tokens[n] + 1, left |-> TTL]
    <3>1. new \in reservations'
      BY <1>2 DEF ReserveNew
    <3>. QED  BY <3>1
  <2>4. IsOf(r, n)' /\ r.left > Interval
    BY <2>1, <2>3, IntervalFacts, TimeAssumption DEF IsOf
  <2>. QED  BY <2>1, <2>2, <2>3, <2>4 DEF Secure, Outlives, Interval
<1>3. CASE Begin(n) \/ Recover(n) \/ ReserveRefused(n) \/ ReserveBusy(n)
  <2>1. pc'[n] \notin {"launch", "execute"} /\ token' = token /\ abandoned' = abandoned
    BY <1>3 DEF Begin, Recover, ReserveRefused, ReserveBusy, Control
  <2>. QED  BY <2>1, SecureIdle
<1>. QED  BY <1>1, <1>2, <1>3

LEMMA SecureRunning ==
    ASSUME Control, Store, NEW n \in Node, Secure(n),
           \/ Launch(n) \/ Renew(n) \/ Executes(n)
           \/ \E o \in {"error", "fatal"} : Lose(n, o)
           \/ \E why \in {"timeout", "cancel"} : Stop(n, why)
    PROVE  Secure(n)'
<1>1. CASE Launch(n)
  <2>1. pc[n] = "launch" /\ pc'[n] = "execute" /\ due'[n] = Interval
    BY <1>1 DEF Launch, Control
  <2>2. UNCHANGED <<reservations, attempt, token, found, abandoned>>
    BY <1>1 DEF Launch
  <2>3. \A r : IsOf(r, n) <=> IsOf(r, n)'
    BY <2>2 DEF IsOf
  <2>. QED  BY <2>1, <2>2, <2>3 DEF Secure, Outlives
<1>2. CASE Renew(n)
  <2>1. PICK r \in reservations :
           IsOf(r, n) /\ reservations' = (reservations \ {r}) \union {[r EXCEPT !.left = TTL]}
    BY <1>2 DEF Renew
  <2>2. UNCHANGED <<pc, attempt, token, found, abandoned>> /\ due'[n] = Interval /\ pc[n] # "launch"
    BY <1>2 DEF Renew, Armed, Control
  <2> DEFINE q == [r EXCEPT !.left = TTL]
  <2>3. q.node = r.node /\ q.key = r.key /\ q.token = r.token /\ q.left = TTL
    BY <2>1 DEF Store, Reservation
  <2>4. q \in reservations'
    BY <2>1
  <2> HIDE DEF q
  <2>5. IsOf(q, n)' /\ q.left > due'[n]
    BY <2>1, <2>2, <2>3, IntervalFacts, TimeAssumption DEF IsOf
  <2>. QED  BY <2>2, <2>4, <2>5 DEF Secure, Outlives
<1>3. ASSUME NEW o \in {"error", "fatal"}, Lose(n, o) PROVE Secure(n)'
  <2>1. pc'[n] \notin {"launch", "execute"} /\ token' = token /\ abandoned' = abandoned
    BY <1>3 DEF Lose, Armed, Control
  <2>. QED  BY <2>1, SecureIdle
<1>4. ASSUME NEW why \in {"timeout", "cancel"}, Stop(n, why) PROVE Secure(n)'
  BY <1>4, SecureKept DEF Stop
<1>5. CASE Executes(n)
  <2>1. UNCHANGED <<reservations, attempt, token, due, found, abandoned>>
    BY <1>5 DEF Executes, Returns, Breaks, OrphanEnds
  <2>2. pc'[n] = pc[n] \/ pc'[n] \in {"finalize", "release"}
    BY <1>5 DEF Executes, Returns, Breaks, OrphanEnds, Control
  <2>3. CASE pc'[n] = pc[n]
    BY <2>1, <2>3, SecureKept
  <2>4. CASE pc'[n] \in {"finalize", "release"}
    BY <2>1, <2>4, SecureIdle
  <2>. QED  BY <2>2, <2>3, <2>4
<1>. QED  BY <1>1, <1>2, <1>3, <1>4, <1>5

LEMMA SecureEnding ==
    ASSUME Control, NEW n \in Node, Secure(n),
           \/ Release(n) \/ ReleaseBusy(n) \/ Settle(n) \/ Crash(n) \/ Resume(n)
           \/ \E o \in {"error", "fatal"} : LaunchFails(n, o)
           \/ \E o \in {"result", "error", "fatal"} : Finalize(n, o)
    PROVE  Secure(n)'
<1>1. CASE Release(n) \/ ReleaseBusy(n) \/ Crash(n)
  <2>1. pc'[n] \notin {"launch", "execute"} /\ token'[n] = 0
    BY <1>1 DEF Release, ReleaseBusy, Crash, Control
  <2>. QED  BY <2>1 DEF Secure
<1>2. CASE \/ Settle(n) \/ Resume(n) \/ \E o \in {"error", "fatal"} : LaunchFails(n, o)
           \/ \E o \in {"result", "error", "fatal"} : Finalize(n, o)
  <2>1. pc'[n] \notin {"launch", "execute"} /\ token' = token /\ abandoned' = abandoned
    BY <1>2 DEF Settle, Resume, LaunchFails, Finalize, Control
  <2>. QED  BY <2>1, SecureIdle
<1>. QED  BY <1>1, <1>2

(* A step of one node's process leaves the others secure.                  *)
LEMMA SecureOthers ==
    ASSUME Control, Store, NEW n \in Node, NEW m \in Node \ {n}, Secure(m),
           \/ Runs(n) \/ Executes(n) \/ Crash(n) \/ Resume(n)
           \/ \E why \in {"timeout", "cancel"} : Stop(n, why)
    PROVE  Secure(m)'
<1>1. /\ pc'[m] = pc[m] /\ attempt'[m] = attempt[m] /\ token'[m] = token[m]
      /\ due'[m] = due[m] /\ found'[m] = found[m]
  <2>1. CASE Runs(n)
    BY <2>1 DEF Runs, Begin, Recover, Launch, Renew, Release, Settle, ReserveFound, ReserveNew,
       ReserveRefused, ReserveBusy, ReleaseBusy, LaunchFails, Lose, Finalize, Control
  <2>2. CASE Executes(n)
    BY <2>2 DEF Executes, Returns, Breaks, OrphanEnds, Control
  <2>3. CASE Crash(n) \/ Resume(n) \/ \E why \in {"timeout", "cancel"} : Stop(n, why)
    BY <2>3 DEF Crash, Resume, Stop, Control
  <2>. QED  BY <2>1, <2>2, <2>3
<1>2. \A r \in reservations : IsOf(r, m) => r \in reservations'
  <2>1. CASE Runs(n)
    BY <2>1 DEF Runs, Begin, Recover, Launch, Renew, Release, Settle, ReserveFound, ReserveNew,
       ReserveRefused, ReserveBusy, ReleaseBusy, LaunchFails, Lose, Finalize, IsOf
  <2>2. CASE \/ Executes(n) \/ Crash(n) \/ Resume(n)
             \/ \E why \in {"timeout", "cancel"} : Stop(n, why)
    BY <2>2 DEF Executes, Returns, Breaks, OrphanEnds, Crash, Resume, Stop
  <2>. QED  BY <2>1, <2>2
<1>3. \A a \in abandoned' : a.node = m => a \in abandoned
  <2>1. CASE Runs(n)
    BY <2>1 DEF Runs, Begin, Recover, Launch, Renew, Release, Settle, ReserveFound, ReserveNew,
       ReserveRefused, ReserveBusy, ReleaseBusy, LaunchFails, Lose, Finalize
  <2>2. CASE \/ Executes(n) \/ Crash(n) \/ Resume(n)
             \/ \E why \in {"timeout", "cancel"} : Stop(n, why)
    BY <2>2 DEF Executes, Returns, Breaks, OrphanEnds, Crash, Resume, Stop
  <2>. QED  BY <2>1, <2>2
<1>. QED  BY <1>1, <1>2, <1>3, SecureKept

LEMMA SecureTick ==
    ASSUME Control, Store, Tick, stalls = 0, stalls' = 0, NEW m \in Node, Secure(m)
    PROVE  Secure(m)'
<1>1. ~Stalled(m)
  BY DEF Tick
<1>2. UNCHANGED <<pc, attempt, token, found>> /\ abandoned' \subseteq abandoned
      /\ due'[m] = IF due[m] = 0 THEN 0 ELSE due[m] - 1
  BY DEF Tick
<1>3. ASSUME NEW t \in Nat, Outlives(m, t + 1)
      PROVE  \E r \in reservations' : IsOf(r, m)' /\ r.left > t
  <2>1. PICK r \in reservations : IsOf(r, m) /\ r.left > t + 1
    BY <1>3 DEF Outlives
  <2> DEFINE q == [r EXCEPT !.left = @ - 1]
  <2>2. r.left \in Nat /\ q.node = r.node /\ q.key = r.key /\ q.token = r.token /\ q.left = r.left - 1
    BY TimeAssumption DEF Store, Reservation
  <2>3. q \in reservations'
    <3>1. r \in {p \in reservations : p.left > 1}
      BY <2>1, <2>2
    <3>2. reservations' = {[p EXCEPT !.left = @ - 1] : p \in {p \in reservations : p.left > 1}}
      BY DEF Tick
    <3>. QED  BY <3>1, <3>2
  <2> HIDE DEF q
  <2>4. IsOf(q, m)' /\ q.left > t
    BY <1>2, <2>1, <2>2 DEF IsOf
  <2>. QED  BY <2>3, <2>4
<1>4. ASSUME pc[m] = "launch" PROVE Outlives(m, Interval + 1)
  BY <1>1, <1>4 DEF Stalled, Outlives
<1>5. ASSUME pc[m] = "execute", ~found[m]
      PROVE  due'[m] \in Nat /\ Outlives(m, due'[m] + 1)
  <2>1. due[m] \in Nat /\ due[m] # 0
    BY <1>1, <1>5, TimeAssumption DEF Stalled, Armed, Control, Handle
  <2>2. due'[m] = due[m] - 1 /\ due'[m] + 1 = due[m]
    BY <1>2, <2>1
  <2>. QED  BY <1>5, <2>1, <2>2 DEF Secure
<1>6. pc'[m] = "launch" => \E r \in reservations' : IsOf(r, m)' /\ r.left > Interval
  BY <1>2, <1>3, <1>4, IntervalFacts
<1>7. pc'[m] = "execute" /\ ~found'[m] => \E r \in reservations' : IsOf(r, m)' /\ r.left > due'[m]
  BY <1>2, <1>3, <1>5
<1>8. token'[m] # 0 => [node |-> m, token |-> token'[m]] \notin abandoned'
  BY <1>2 DEF Secure
<1>. QED  BY <1>6, <1>7, <1>8 DEF Secure, Outlives, Interval

LEMMA PunctualStep == Control /\ Store /\ Punctual /\ [Next]_vars => Punctual'
<1> SUFFICES ASSUME Control, Store, Punctual, [Next]_vars, stalls' = 0, ~Mistaken,
                    NEW m \in Node
             PROVE  Secure(m)'
  BY DEF Punctual
<1>0. stalls = 0 /\ Secure(m)
  <2>1. stalls' = stalls \/ stalls' = stalls + 1
    <3>1. ASSUME NEW n \in Node, Runs(n) PROVE stalls' = stalls
      BY <3>1 DEF Runs, Begin, Recover, Launch, Renew, Release, Settle, ReserveFound, ReserveNew,
         ReserveRefused, ReserveBusy, ReleaseBusy, LaunchFails, Lose, Finalize
    <3>2. ASSUME NEW n \in Node, \/ Executes(n) \/ Crash(n) \/ Resume(n)
                                \/ \E why \in {"timeout", "cancel"} : Stop(n, why)
          PROVE  stalls' = stalls
      BY <3>2 DEF Executes, Returns, Breaks, OrphanEnds, Crash, Resume, Stop
    <3>3. Tick => stalls' = stalls \/ stalls' = stalls + 1
      BY DEF Tick
    <3>4. (\E r \in reservations : Reconcile(r)) \/ Done \/ UNCHANGED vars => stalls' = stalls
      BY DEF Reconcile, Done, vars
    <3>. QED  BY <3>1, <3>2, <3>3, <3>4 DEF Next
  <2>2. stalls \in Nat
    BY LimitAssumption DEF Control
  <2>. QED  BY <2>1, <2>2 DEF Punctual
<1>1. ASSUME NEW n \in Node,
             \/ Runs(n) \/ Executes(n) \/ Crash(n) \/ Resume(n)
             \/ \E why \in {"timeout", "cancel"} : Stop(n, why)
      PROVE  Secure(m)'
  <2>1. CASE n # m
    BY <1>0, <1>1, <2>1, SecureOthers
  <2>2. CASE n = m
    BY <1>0, <1>1, <2>2, SecureReserving, SecureRunning, SecureEnding DEF Runs
  <2>. QED  BY <2>1, <2>2
<1>2. ASSUME NEW r \in reservations, Reconcile(r) PROVE Secure(m)'
  <2>1. [node |-> r.node, token |-> r.token] \in abandoned
    BY <1>2 DEF Reconcile, Abandoned
  <2>2. ~IsOf(r, m)
    BY <1>0, <2>1 DEF IsOf, Secure, Store, Reservation
  <2>. QED  BY <1>0, <1>2, <2>2, SecureKept DEF Reconcile
<1>3. CASE Tick
  BY <1>0, <1>3, SecureTick
<1>4. CASE UNCHANGED vars
  BY <1>0, <1>4, SecureKept DEF vars
<1>. QED  BY <1>1, <1>2, <1>3, <1>4 DEF Next, Done

(* Capacity holds for what runs: no executor's reservations exceed it, and *)
(* while no timer was late and nobody removed a reservation in use, every  *)
(* attempt that awaits its executor has one in force.                      *)
THEOREM CapacityHolds == Spec => []SlotsHeld
<1>1. Init => Control /\ Store /\ Fits /\ Punctual
  <2>1. Init => Punctual
    BY DEF Init, Punctual, Secure
  <2>. QED  BY <2>1, ControlInit, StoreInit
<1>2. Control /\ Store /\ Fits /\ Punctual /\ [Next]_vars => (Control /\ Store /\ Fits /\ Punctual)'
  BY ControlStep, StoreStep, PunctualStep
<1>3. Control /\ Fits /\ Punctual => SlotsHeld
  <2>1. Punctual /\ stalls = 0 /\ ~Mistaken =>
           \A n \in Node : pc[n] = "execute" /\ ~found[n] => Reserves(n)
    BY DEF Punctual, Secure, Outlives, Reserves
  <2>. QED  BY <2>1 DEF Fits, SlotsHeld
<1>. QED  BY <1>1, <1>2, <1>3, PTL DEF Spec
=============================================================================
