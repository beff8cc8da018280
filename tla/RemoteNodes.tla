----------------------------- MODULE RemoteNodes -----------------------------
(***************************************************************************)
(* Remote nodes of Engineering Graphs and the capacity they share: the     *)
(* remote branch of executeNode (graph-engineering.ts), the reservations   *)
(* of graph-capacity.ts and the result journal of graph-remote-runner.ts.  *)
(*                                                                         *)
(* Every node runs in a process of its own, as nodes of different Graphs   *)
(* may.  An operation on the reservations is one step, since it runs       *)
(* under the session lease graph-executor-capacity (module SessionLease);  *)
(* that lease does not wait, so each operation may also find it busy.      *)
(* Times are what is left of them, so that time needs no bound; every      *)
(* operation ignores a reservation that has expired, and the model drops   *)
(* it at once (activeReservations, renew).                                 *)
(***************************************************************************)
EXTENDS Naturals, FiniteSets

CONSTANTS
    Node,        \* remote nodes
    Executor,    \* executor ids
    ExecutorOf,  \* [Node -> Executor]
    Capacity,    \* [Executor -> Nat]: workspaceCapacity of the adapters
    Fenced,      \* the executors that refuse a second run of one key
    MaxReservations, \* MAX_RESERVATIONS
    MaxRetries,  \* [Node -> Nat]: maxRetries of the node
    TTL,         \* how long a reservation lasts, in ticks
    MaxCrashes,  \* bound: process deaths
    MaxStalls,   \* bound: ticks for which a timer that is due does not fire
    MaxStops,    \* bound: timeouts of nodes and aborts of their Graphs
    Mistaken     \* may an operator name a reservation that is in use?

ASSUME ExecutorAssumption ==
    /\ ExecutorOf \in [Node -> Executor]
    /\ Capacity \in [Executor -> Nat \ {0}]
    /\ Fenced \subseteq Executor
ASSUME LimitAssumption ==
    /\ {MaxReservations, MaxCrashes, MaxStalls, MaxStops} \subseteq Nat
    /\ MaxRetries \in [Node -> Nat]
ASSUME TimeAssumption == TTL \in Nat /\ TTL >= 3
ASSUME MistakenAssumption == Mistaken \in BOOLEAN

VARIABLES
    reservations, \* the document graph-executor-capacity.json
    pc,           \* [Node -> Positions]
    attempt,      \* [Node -> Nat]: attempts begun, which names their key
    token,        \* [Node -> Nat]: the handle's fencing token, 0 for none
    tokens,       \* [Node -> Nat]: tokens made for the node
    due,          \* [Node -> Nat]: what is left until the renewal timer fires
    outcome,      \* [Node -> Outcomes]: of the attempt
    stopped,      \* [Node -> Stops]: has its signal been aborted?
    running,      \* [Node -> SUBSET Nat]: keys that run for the node's process
    orphans,      \* [Node -> SUBSET Nat]: keys left by a process that died
    journal,      \* [Node -> SUBSET Nat]: keys with a committed result
    found,        \* [Node -> BOOLEAN]: history, the attempt's reservation is one
                  \* that was left by a process that died
    abandoned,    \* history: reservations whose process died, or found the
                  \* lease busy when it released them
    crashes, stalls, stops

handle == <<token, tokens, due>>
remote == <<running, orphans, journal>>
counts == <<crashes, stalls, stops>>
vars == <<reservations, pc, attempt, handle, outcome, stopped, remote, found, abandoned, counts>>

Positions == {"waiting", "reserve", "launch", "execute", "finalize",
              "release", "settle", "passed", "failed", "down"}
Outcomes == {"none", "result", "error", "fatal"}
Stops == {"no", "timeout", "cancel"}
Keys == UNION {1..(MaxRetries[n] + 1) : n \in Node}

(* WorkspaceGraphExecutorReservation; node and key are the reservation id. *)
Reservation == [node : Node, key : Keys, token : Nat, left : 1..TTL]

-----------------------------------------------------------------------------
(* The reservations of one executor.                                       *)
Slots(e) == {r \in reservations : ExecutorOf[r.node] = e}

(* The reservation of the node's handle: this id with this token.          *)
IsOf(r, n) == r.node = n /\ r.key = attempt[n] /\ r.token = token[n]
Reserves(n) == \E r \in reservations : IsOf(r, n)

(* A reservation, by the node and the token that name it in histories.     *)
Abandoned(r) == [node |-> r.node, token |-> r.token] \in abandoned

(* setInterval(renewWorkspaceReservation, ttl / 3).                        *)
Interval == TTL \div 3
Armed(n) == token[n] # 0 /\ pc[n] \in {"execute", "finalize"}

Alive(n) == pc[n] \notin {"waiting", "passed", "failed", "down"}

Goto(n, p) == pc' = [pc EXCEPT ![n] = p]
End(n, o) == outcome' = [outcome EXCEPT ![n] = o]

-----------------------------------------------------------------------------
Init ==
    /\ reservations = {}
    /\ pc = [n \in Node |-> "waiting"]
    /\ attempt = [n \in Node |-> 0]
    /\ token = [n \in Node |-> 0]
    /\ tokens = [n \in Node |-> 0]
    /\ due = [n \in Node |-> 0]
    /\ outcome = [n \in Node |-> "none"]
    /\ stopped = [n \in Node |-> "no"]
    /\ running = [n \in Node |-> {}]
    /\ orphans = [n \in Node |-> {}]
    /\ journal = [n \in Node |-> {}]
    /\ found = [n \in Node |-> FALSE]
    /\ abandoned = {}
    /\ crashes = 0 /\ stalls = 0 /\ stops = 0

(* startNode: the next attempt, with a key of its own.                     *)
Begin(n) ==
    /\ pc[n] = "waiting" /\ attempt[n] <= MaxRetries[n]
    /\ attempt' = [attempt EXCEPT ![n] = @ + 1]
    /\ Goto(n, "reserve")
    /\ UNCHANGED <<reservations, handle, outcome, stopped, remote, found, abandoned, counts>>

ReservingAnew(n) == pc[n] = "reserve"      \* mutant: the journal is not asked

(* adapter.recover: a result that the journal has under the key.           *)
Recover(n) ==
    /\ pc[n] = "reserve" /\ attempt[n] \in journal[n]
    /\ Goto(n, "finalize")
    /\ UNCHANGED <<reservations, attempt, handle, outcome, stopped, remote, found, abandoned, counts>>

-----------------------------------------------------------------------------
(* acquireWorkspaceGraphExecutorCapacity, when there is none.              *)
Reserving(n) == pc[n] = "reserve" /\ attempt[n] \notin journal[n]

Found(n) == {r \in reservations : r.node = n /\ r.key = attempt[n]}
Full(n) ==
    \/ Cardinality(reservations) >= MaxReservations
    \/ Cardinality(Slots(ExecutorOf[n])) >= Capacity[ExecutorOf[n]]

ReserveFound(n) ==
    /\ Reserving(n)
    /\ \E r \in Found(n) :
          /\ token' = [token EXCEPT ![n] = r.token]
          /\ abandoned' = abandoned \ {[node |-> n, token |-> r.token]}
    /\ found' = [found EXCEPT ![n] = TRUE]
    /\ Goto(n, "launch")
    /\ UNCHANGED <<reservations, attempt, tokens, due, outcome, stopped, remote, counts>>

ReserveNewLate(n) ==                       \* mutant: when the executor is full
    /\ Reserving(n) /\ Found(n) = {}
    /\ Cardinality(Slots(ExecutorOf[n])) <= Capacity[ExecutorOf[n]]
    /\ tokens' = [tokens EXCEPT ![n] = @ + 1]
    /\ token' = [token EXCEPT ![n] = tokens[n] + 1]
    /\ reservations' = reservations \union
          {[node |-> n, key |-> attempt[n], token |-> tokens[n] + 1, left |-> TTL]}
    /\ Goto(n, "launch")
    /\ UNCHANGED <<attempt, due, outcome, stopped, remote, found, abandoned, counts>>

ReserveNew(n) ==
    /\ Reserving(n) /\ Found(n) = {} /\ ~Full(n)
    /\ tokens' = [tokens EXCEPT ![n] = @ + 1]
    /\ token' = [token EXCEPT ![n] = tokens[n] + 1]
    /\ reservations' = reservations \union
          {[node |-> n, key |-> attempt[n], token |-> tokens[n] + 1, left |-> TTL]}
    /\ Goto(n, "launch")
    /\ UNCHANGED <<attempt, due, outcome, stopped, remote, found, abandoned, counts>>

(* The executor is exhausted, which fails the attempt.                     *)
ReserveRefused(n) ==
    /\ Reserving(n) /\ Found(n) = {} /\ Full(n)
    /\ Goto(n, "settle") /\ End(n, "error")
    /\ UNCHANGED <<reservations, attempt, handle, stopped, remote, found, abandoned, counts>>

ReserveBusy(n) ==
    /\ Reserving(n)
    /\ Goto(n, "settle") /\ End(n, "error")
    /\ UNCHANGED <<reservations, attempt, handle, stopped, remote, found, abandoned, counts>>

LaunchFailsUnreleased(n, o) ==             \* mutant: thrown before the release
    /\ pc[n] = "launch"
    /\ token' = [token EXCEPT ![n] = 0]
    /\ Goto(n, "settle") /\ End(n, o)
    /\ UNCHANGED <<reservations, attempt, tokens, due, stopped, remote, found, abandoned, counts>>

(* Nothing is launched when the signal is aborted or a fenced executor     *)
(* still runs the key, or when adapter.reserve throws or is malformed.     *)
LaunchFails(n, o) ==
    /\ pc[n] = "launch"
    /\ Goto(n, "release") /\ End(n, o)
    /\ UNCHANGED <<reservations, attempt, handle, stopped, remote, found, abandoned, counts>>

Launch(n) ==
    /\ pc[n] = "launch" /\ stopped[n] = "no"
    /\ ~(ExecutorOf[n] \in Fenced /\ attempt[n] \in orphans[n])
    /\ running' = [running EXCEPT ![n] = @ \union {attempt[n]}]
    /\ due' = [due EXCEPT ![n] = Interval]
    /\ Goto(n, "execute")
    /\ UNCHANGED <<reservations, attempt, token, tokens, outcome, stopped, orphans, journal, found, abandoned, counts>>

-----------------------------------------------------------------------------
(* The run ends and its process reads a result, which it puts in the       *)
(* journal unless that fails, even if nobody waits for it any more.        *)
Returns(n, k, written) ==
    /\ k \in running[n]
    /\ running' = [running EXCEPT ![n] = @ \ {k}]
    /\ journal' = IF written THEN [journal EXCEPT ![n] = @ \union {k}] ELSE journal
    /\ IF pc[n] = "execute" /\ k = attempt[n] THEN Goto(n, "finalize") ELSE UNCHANGED pc
    /\ UNCHANGED <<reservations, attempt, handle, outcome, stopped, orphans, found, abandoned, counts>>

(* It fails, or reports no usage while a budget is in force.               *)
Breaks(n, k, o) ==
    /\ k \in running[n]
    /\ running' = [running EXCEPT ![n] = @ \ {k}]
    /\ IF pc[n] = "execute" /\ k = attempt[n]
       THEN Goto(n, "release") /\ End(n, o)
       ELSE UNCHANGED <<pc, outcome>>
    /\ UNCHANGED <<reservations, attempt, handle, stopped, orphans, journal, found, abandoned, counts>>

OrphanEnds(n, k) ==
    /\ k \in orphans[n]
    /\ orphans' = [orphans EXCEPT ![n] = @ \ {k}]
    /\ UNCHANGED <<reservations, pc, attempt, handle, outcome, stopped, running, journal, found, abandoned, counts>>

(* renewWorkspaceReservation.                                              *)
Renew(n) ==
    /\ Armed(n) /\ due[n] = 0
    /\ \E r \in reservations :
          IsOf(r, n) /\ reservations' = (reservations \ {r}) \union {[r EXCEPT !.left = TTL]}
    /\ due' = [due EXCEPT ![n] = Interval]
    /\ UNCHANGED <<pc, attempt, token, tokens, outcome, stopped, remote, found, abandoned, counts>>

(* The renewal fails: the reservation is gone, or the lease is busy.  That *)
(* ends the race with adapter.execute, and after the race does nothing but *)
(* ask the executor to cancel.                                             *)
Lose(n, o) ==
    /\ Armed(n) /\ due[n] = 0
    /\ o = "fatal" => ~Reserves(n)
    /\ due' = [due EXCEPT ![n] = Interval]
    /\ IF pc[n] = "execute"
       THEN Goto(n, "release") /\ End(n, o)
       ELSE UNCHANGED <<pc, outcome>>
    /\ UNCHANGED <<reservations, attempt, token, tokens, stopped, remote, found, abandoned, counts>>

(* finalizeRemoteResult: provenance, usage and artifacts are verified.     *)
Finalize(n, o) ==
    /\ pc[n] = "finalize"
    /\ Goto(n, "release") /\ End(n, o)
    /\ UNCHANGED <<reservations, attempt, handle, stopped, remote, found, abandoned, counts>>

-----------------------------------------------------------------------------
(* workspaceReservation?.release() removes the reservation with its token; *)
(* it is not tried again when the lease is busy, and what it throws then   *)
(* takes the place of the attempt's outcome.                               *)
Release(n) ==
    /\ pc[n] = "release"
    /\ reservations' = {r \in reservations : ~IsOf(r, n)}
    /\ token' = [token EXCEPT ![n] = 0]
    /\ due' = [due EXCEPT ![n] = 0]
    /\ Goto(n, "settle")
    /\ UNCHANGED <<attempt, tokens, outcome, stopped, remote, found, abandoned, counts>>

ReleaseBusy(n) ==
    /\ pc[n] = "release" /\ token[n] # 0
    /\ token' = [token EXCEPT ![n] = 0]
    /\ due' = [due EXCEPT ![n] = 0]
    /\ abandoned' = abandoned \union {[node |-> n, token |-> token[n]]}
    /\ Goto(n, "settle") /\ End(n, "error")
    /\ UNCHANGED <<reservations, attempt, tokens, stopped, remote, found, counts>>

(* withGraphTimeout and startNode: an attempt that timed out failed,       *)
(* whatever it returned; an error is retried unless the Graph is aborted.  *)
Passes(n) == outcome[n] = "result" /\ stopped[n] # "timeout"
Retries(n) ==
    /\ ~Passes(n) /\ stopped[n] # "cancel" /\ attempt[n] <= MaxRetries[n]
    /\ outcome[n] # "fatal" \/ stopped[n] = "timeout"

Settle(n) ==
    /\ pc[n] = "settle"
    /\ Goto(n, IF Passes(n) THEN "passed" ELSE IF Retries(n) THEN "waiting" ELSE "failed")
    /\ End(n, "none")
    /\ stopped' = [stopped EXCEPT ![n] = "no"]
    /\ found' = [found EXCEPT ![n] = FALSE]
    /\ UNCHANGED <<reservations, attempt, handle, remote, abandoned, counts>>

-----------------------------------------------------------------------------
(* The node's timeout, or an abort of the Graph.                           *)
Stop(n, why) ==
    /\ pc[n] \in {"launch", "execute", "finalize"} /\ stopped[n] = "no"
    /\ stops < MaxStops /\ stops' = stops + 1
    /\ stopped' = [stopped EXCEPT ![n] = why]
    /\ UNCHANGED <<reservations, pc, attempt, handle, outcome, remote, found, abandoned, crashes, stalls>>

(* The process dies before the checkpoint that settles the attempt.  What  *)
(* it launched may go on.                                                  *)
Crash(n) ==
    /\ Alive(n) /\ crashes < MaxCrashes
    /\ crashes' = crashes + 1
    /\ abandoned' = IF Reserves(n)
                    THEN abandoned \union {[node |-> n, token |-> token[n]]}
                    ELSE abandoned
    /\ orphans' = [orphans EXCEPT ![n] = @ \union running[n]]
    /\ running' = [running EXCEPT ![n] = {}]
    /\ token' = [token EXCEPT ![n] = 0]
    /\ due' = [due EXCEPT ![n] = 0]
    /\ stopped' = [stopped EXCEPT ![n] = "no"]
    /\ found' = [found EXCEPT ![n] = FALSE]
    /\ Goto(n, "down") /\ End(n, "none")
    /\ UNCHANGED <<reservations, attempt, tokens, journal, stalls, stops>>

(* A resume takes the interrupted attempt up under its key.                *)
Resume(n) ==
    /\ pc[n] = "down"
    /\ Goto(n, "reserve")
    /\ UNCHANGED <<reservations, attempt, handle, outcome, stopped, remote, found, abandoned, counts>>

(* reconcileWorkspaceGraphExecutorCapacity, for one orphan or none.        *)
Reconcile(r) ==
    /\ Mistaken \/ Abandoned(r)
    /\ reservations' = reservations \ {r}
    /\ abandoned' = abandoned \ {[node |-> r.node, token |-> r.token]}
    /\ UNCHANGED <<pc, attempt, handle, outcome, stopped, remote, found, counts>>

(* Time passes.  A tick is a stall when it passes a timer that is due, or  *)
(* when a launch takes so long that the first renewal would be too late.   *)
Stalled(n) ==
    \/ Armed(n) /\ due[n] = 0
    \/ pc[n] = "launch" /\ ~\E r \in reservations : IsOf(r, n) /\ r.left > Interval + 1

Tick ==
    /\ IF \E n \in Node : Stalled(n)
       THEN stalls < MaxStalls /\ stalls' = stalls + 1
       ELSE UNCHANGED stalls
    /\ reservations # {} \/ \E n \in Node : due[n] > 0
    /\ reservations' = {[r EXCEPT !.left = @ - 1] : r \in {q \in reservations : q.left > 1}}
    /\ abandoned' = {a \in abandoned : \E r \in reservations' : a = [node |-> r.node, token |-> r.token]}
    /\ due' = [n \in Node |-> IF due[n] = 0 THEN 0 ELSE due[n] - 1]
    /\ UNCHANGED <<pc, attempt, token, tokens, outcome, stopped, remote, found, crashes, stops>>

-----------------------------------------------------------------------------
(* What the node's process does by itself.                                 *)
Runs(n) ==
    \/ Begin(n) \/ Recover(n) \/ Launch(n) \/ Renew(n) \/ Release(n) \/ Settle(n)
    \/ ReserveFound(n) \/ ReserveNew(n) \/ ReserveRefused(n) \/ ReserveBusy(n)
    \/ ReleaseBusy(n)
    \/ \E o \in {"error", "fatal"} : LaunchFails(n, o) \/ Lose(n, o)
    \/ \E o \in {"result", "error", "fatal"} : Finalize(n, o)

Executes(n) ==
    \E k \in Keys :
        \/ \E written \in BOOLEAN : Returns(n, k, written)
        \/ \E o \in {"error", "fatal"} : Breaks(n, k, o)
        \/ OrphanEnds(n, k)

Done ==
    /\ \A n \in Node : pc[n] \in {"passed", "failed"}
    /\ UNCHANGED vars

Next ==
    \/ \E n \in Node : Runs(n) \/ Executes(n) \/ Crash(n) \/ Resume(n)
    \/ \E n \in Node : \E why \in {"timeout", "cancel"} : Stop(n, why)
    \/ \E r \in reservations : Reconcile(r)
    \/ Tick
    \/ Done

Spec == Init /\ [][Next]_vars

-----------------------------------------------------------------------------
(* The type invariant: no two reservations share an id or a token, and the *)
(* document fits its limit (validReservation, readDocument).               *)
TypeOK ==
    /\ reservations \subseteq Reservation
    /\ \A r, q \in reservations : r.node = q.node /\ (r.key = q.key \/ r.token = q.token) => r = q
    /\ Cardinality(reservations) <= MaxReservations
    /\ pc \in [Node -> Positions]
    /\ attempt \in [Node -> Keys \union {0}]
    /\ token \in [Node -> Nat] /\ tokens \in [Node -> Nat]
    /\ due \in [Node -> 0..TTL]
    /\ outcome \in [Node -> Outcomes] /\ stopped \in [Node -> Stops]
    /\ running \in [Node -> SUBSET Keys] /\ orphans \in [Node -> SUBSET Keys]
    /\ journal \in [Node -> SUBSET Keys]
    /\ found \in [Node -> BOOLEAN]
    /\ abandoned \subseteq [node : Node, token : Nat]
    /\ crashes \in 0..MaxCrashes /\ stalls \in 0..MaxStalls /\ stops \in 0..MaxStops

(* The workspace capacity holds for what really runs: the reservations in  *)
(* force never exceed an executor's capacity, and while no timer was late, *)
(* every attempt that awaits its executor holds one of them, under its own *)
(* token (graph-capacity.ts:112, graph-engineering.ts:772).  An attempt    *)
(* that found the reservation of a dead process is excepted, for that one  *)
(* keeps the old time of expiry (graph-capacity.ts:107).                   *)
SlotsHeld ==
    /\ \A e \in Executor : Cardinality(Slots(e)) <= Capacity[e]
    /\ stalls = 0 /\ ~Mistaken =>
          \A n \in Node : pc[n] = "execute" /\ ~found[n] => Reserves(n)

(* A key whose result is in the journal is never launched again, whatever  *)
(* dies between the result and the checkpoint (graph-remote-runner.ts:12). *)
NotRepeated ==
    [][\A n \in Node : pc[n] = "launch" /\ pc'[n] = "execute" => attempt[n] \notin journal[n]]_vars

(* No capacity leaks: whatever way an attempt ends, a reservation that no  *)
(* attempt holds was left by a process that died, or its one release found *)
(* the lease busy (graph-engineering.ts:711, 735, 810).                    *)
Accounted == \A r \in reservations : IsOf(r, r.node) \/ Abandoned(r)
==============================================================================
