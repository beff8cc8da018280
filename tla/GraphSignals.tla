---------------------------- MODULE GraphSignals ----------------------------
(***************************************************************************)
(* The signal mailbox of an Engineering Graph                              *)
(* (packages/core/src/agent/graph-signal-store.ts), those who send signals *)
(* to it, and the wait nodes of the scheduler (graph-engineering.ts) that  *)
(* take them: claim, checkpoint, acknowledge.                              *)
(*                                                                         *)
(* Mailbox and checkpoint are two files.  Each operation on the mailbox    *)
(* runs under a lease of its own (withSignalLease) and is one step; the    *)
(* process may die between any two steps.  The lease of the Graph lets one *)
(* scheduler at a time run it (module SessionLease).  The waits here do    *)
(* not depend on each other and nothing else is in the Graph: what comes   *)
(* before a wait and runs beside it is in module GraphRun, whose Answer    *)
(* and WaitWaits leave open what this module settles.                      *)
(***************************************************************************)
EXTENDS Naturals, FiniteSets

CONSTANTS
    Wait,          \* the wait nodes
    Position,      \* [Wait -> Nat]: their order in the definition
    WaitsFor,      \* [Wait -> Name or NoName]: waitFor.signal
    NotBefore,     \* [Wait -> Nat]: waitFor.notBefore
    ExpiresAt,     \* [Wait -> Nat]: waitFor.expiresAt
    Signal,        \* the ids of signals
    SignalName,    \* [Signal -> Name]
    Large,         \* the signals whose payload makes the wait's output
                   \* longer than MAX_GRAPH_OUTPUT_BYTES
    Nobody,
    NoEntry,
    NoCheckpoint,
    MaxSignals,    \* MAX_SIGNALS (256 in the code)
    MaxTime,       \* bound: the clock; a time beyond it never comes
    MaxFaults,     \* bound: crashes and failed calls
    MaxRestarts,   \* bound: restarts
    Fallible,      \* the mailbox calls that may fail (a busy lease, an I/O
                   \* error): "claim", "ack", "resume", "restart"
    MayRerun       \* may waits be run again (--rerun)?

ASSUME WaitAssumption ==
    /\ Position \in [Wait -> Nat]
    /\ \A m, n \in Wait : Position[m] = Position[n] => m = n
    /\ NotBefore \in [Wait -> Nat]
    /\ ExpiresAt \in [Wait -> Nat]
ASSUME SignalAssumption ==
    /\ IsFiniteSet(Signal)
    /\ Large \subseteq Signal
    /\ Nobody \notin Wait \union Signal
    /\ MaxSignals \in Nat /\ MaxTime \in Nat /\ MaxFaults \in Nat /\ MaxRestarts \in Nat
    /\ MayRerun \in BOOLEAN

(* place: where the signal stands in the file, which is in order of        *)
(* arrival.                                                                *)
Entry == [claimedBy : Wait \union {Nobody}, createdAt : Nat, place : Nat]

Results == [status : {"none", "passed", "failed", "waiting"}, signal : Signal \union {Nobody}]
Checkpoints == [status : {"running", "paused", "ended"}, results : [Wait -> Results]]

ASSUME NullAssumption == NoEntry \notin Entry /\ NoCheckpoint \notin Checkpoints

VARIABLES
    mailbox,   \* [Signal -> Entry or NoEntry]: <graphId>.signals.json
    minted,    \* the ids of the signals enqueued so far
    admitted,  \* the signals whose sender has passed the check
    disk,      \* the checkpoint: its status, and the results of the waits
    pc,        \* what the scheduler is about to do; "off": no owner
    todo,      \* the committed waits a reconciliation has yet to acknowledge
    node,      \* the wait in hand
    hand,      \* the signal claimed for it
    readAt,    \* the time read before the claim
    clock,
    faults, restarts   \* counters for the bounds

owner == <<pc, todo, node, hand, readAt>>
vars == <<mailbox, minted, admitted, disk, owner, clock, faults, restarts>>

-----------------------------------------------------------------------------
NoResult == [status |-> "none", signal |-> Nobody]
Result(status, s) == [status |-> status, signal |-> s]

InBox == {s \in Signal : mailbox[s] # NoEntry}

(* The signals in the mailbox that node n may take, claimed by who.        *)
Timely(n, who) ==
    {s \in InBox : /\ SignalName[s] = WaitsFor[n]
                   /\ mailbox[s].claimedBy = who
                   /\ mailbox[s].createdAt <= ExpiresAt[n]}

(* engineeringGraphSignalAvailable.                                        *)
Available(n) == Timely(n, n) \union Timely(n, Nobody) # {}

UsableOnce(n) == Timely(n, Nobody)    \* mutant: a claim is not used again

(* A claim this node made before a crash is used again; else a signal that *)
(* nobody has claimed is.                                                  *)
Usable(n) == IF Timely(n, n) # {} THEN Timely(n, n) ELSE Timely(n, Nobody)

(* acknowledgeEngineeringGraphSignal.                                      *)
Acknowledged(n, s) ==
    [t \in Signal |-> IF t = s /\ mailbox[t] # NoEntry /\ mailbox[t].claimedBy = n
                      THEN NoEntry ELSE mailbox[t]]

(* The signal a committed result names.  A result longer than the bound on *)
(* outputs is replaced by a preview and names none.                        *)
NamesSignal(result) == result.status = "passed" /\ result.signal \notin Large \union {Nobody}

Pending == {n \in Wait : disk.results[n] = NoResult}

Off == /\ pc' = "off"
       /\ todo' = {} /\ node' = Nobody /\ hand' = Nobody /\ readAt' = 0

Init ==
    /\ mailbox = [s \in Signal |-> NoEntry]
    /\ minted = {} /\ admitted = {}
    /\ disk = NoCheckpoint
    /\ pc = "off" /\ todo = {} /\ node = Nobody /\ hand = Nobody /\ readAt = 0
    /\ clock = 0
    /\ faults = 0 /\ restarts = 0

-----------------------------------------------------------------------------
(* Senders.                                                                *)

(* checkGraphSignalTarget: the checkpoint says that some wait is for this  *)
(* signal and that the Graph runs or waits.                                *)
Admit(s) ==
    /\ s \notin minted \union admitted
    /\ disk # NoCheckpoint
    /\ \E n \in Wait : WaitsFor[n] = SignalName[s]
    /\ disk.status \in {"running", "paused"}
    /\ admitted' = admitted \union {s}
    /\ UNCHANGED <<mailbox, minted, disk, owner, clock, faults, restarts>>

(* enqueueEngineeringGraphSignal, later: a full mailbox refuses.           *)
Enqueue(s) ==
    /\ s \in admitted
    /\ admitted' = admitted \ {s}
    /\ IF Cardinality(InBox) < MaxSignals
       THEN /\ mailbox' = [mailbox EXCEPT ![s] =
                 [claimedBy |-> Nobody, createdAt |-> clock, place |-> Cardinality(minted)]]
            /\ minted' = minted \union {s}
       ELSE UNCHANGED <<mailbox, minted>>
    /\ UNCHANGED <<disk, owner, clock, faults, restarts>>

-----------------------------------------------------------------------------
(* The scheduler.                                                          *)
Fails(call) == call \in Fallible /\ faults < MaxFaults /\ faults' = faults + 1

Start ==
    /\ pc = "off" /\ disk = NoCheckpoint
    /\ disk' = [status |-> "running", results |-> [n \in Wait |-> NoResult]]
    /\ pc' = "pick"
    /\ UNCHANGED <<mailbox, minted, admitted, todo, node, hand, readAt, clock, faults, restarts>>

(* restart: the claims of the previous generation are retired, and only    *)
(* then its checkpoint is replaced.                                        *)
Restart ==
    /\ pc = "off" /\ disk # NoCheckpoint /\ restarts < MaxRestarts
    /\ restarts' = restarts + 1
    /\ pc' = "retire"
    /\ todo' = {n \in Wait : NamesSignal(disk.results[n])}
    /\ UNCHANGED <<mailbox, minted, admitted, disk, node, hand, readAt, clock, faults>>

(* resume, by hand, by the sender of a signal, or by the recovery scan.    *)
(* The waits in again are to be run again.  The first checkpoint precedes  *)
(* the reconciliation, which goes through the results that are left.       *)
Resume(again) ==
    /\ pc = "off" /\ disk # NoCheckpoint
    /\ again # {} => MayRerun
    /\ disk' = [status |-> "running",
                results |-> [n \in Wait |->
                    IF n \in again \/ disk.results[n].status = "waiting"
                    THEN NoResult ELSE disk.results[n]]]
    /\ pc' = "reconcile"
    /\ todo' = {n \in Wait : NamesSignal(disk'.results[n])}
    /\ UNCHANGED <<mailbox, minted, admitted, node, hand, readAt, clock, faults, restarts>>

(* acknowledgeCommittedWaitSignals, one result at a time.  A failure does  *)
(* not stop it, and is not fatal to its callers.                           *)
Reconcile(n) ==
    /\ pc \in {"retire", "reconcile"}
    /\ n \in todo
    /\ todo' = todo \ {n}
    /\ \/ mailbox' = Acknowledged(n, disk.results[n].signal) /\ UNCHANGED faults
       \/ Fails(IF pc = "retire" THEN "restart" ELSE "resume") /\ UNCHANGED mailbox
    /\ UNCHANGED <<minted, admitted, disk, pc, node, hand, readAt, clock, restarts>>

Reconciled ==
    /\ pc \in {"retire", "reconcile"}
    /\ todo = {}
    /\ pc' = "pick"
    /\ disk' = IF pc = "retire"
               THEN [status |-> "running", results |-> [n \in Wait |-> NoResult]]
               ELSE disk
    /\ UNCHANGED <<mailbox, minted, admitted, todo, node, hand, readAt, clock, faults, restarts>>

(* The pending waits are resolved in the order of the definition.          *)
Pick(n) ==
    /\ pc = "pick"
    /\ n \in Pending
    /\ \A m \in Pending : Position[n] <= Position[m]
    /\ node' = n
    /\ readAt' = clock
    /\ pc' = "claim"
    /\ UNCHANGED <<mailbox, minted, admitted, disk, todo, hand, clock, faults, restarts>>

Finish ==
    /\ pc = "pick"
    /\ Pending = {}
    /\ disk' = [status |-> "ended", results |-> disk.results]
    /\ Off
    /\ UNCHANGED <<mailbox, minted, admitted, clock, faults, restarts>>

(* Mutant: a claim takes the signal out of the mailbox.                    *)
ClaimTakes(s) ==
    /\ pc = "claim"
    /\ s \in Timely(node, Nobody)
    /\ mailbox' = [mailbox EXCEPT ![s] = NoEntry]
    /\ hand' = s
    /\ pc' = "decide"
    /\ UNCHANGED <<minted, admitted, disk, todo, node, readAt, clock, faults, restarts>>

(* claimEngineeringGraphSignal takes the first signal that is usable.      *)
Claim(s) ==
    /\ pc = "claim"
    /\ s \in Usable(node)
    /\ \A t \in Usable(node) : mailbox[s].place <= mailbox[t].place
    /\ mailbox' = [mailbox EXCEPT ![s] =
         [claimedBy |-> node, createdAt |-> mailbox[s].createdAt, place |-> mailbox[s].place]]
    /\ hand' = s
    /\ pc' = "decide"
    /\ UNCHANGED <<minted, admitted, disk, todo, node, readAt, clock, faults, restarts>>

NothingToClaim ==
    /\ pc = "claim"
    /\ Usable(node) = {}
    /\ pc' = "decide"
    /\ UNCHANGED <<mailbox, minted, admitted, disk, todo, node, hand, readAt, clock, faults, restarts>>

ClaimFails ==
    /\ pc = "claim"
    /\ Fails("claim")
    /\ Off
    /\ UNCHANGED <<mailbox, minted, admitted, disk, clock, restarts>>

(* The result of the wait in hand, and the checkpoint of it.               *)
Commit(status) ==
    disk' = [status |-> "running",
             results |-> [disk.results EXCEPT ![node] = Result(status, hand)]]

(* A signal or the timer: the wait has passed.                             *)
Resolve ==
    /\ pc = "decide"
    /\ hand # Nobody \/ readAt >= NotBefore[node]
    /\ Commit("passed")
    /\ pc' = IF hand # Nobody THEN "ack" ELSE "pick"
    /\ UNCHANGED <<mailbox, minted, admitted, todo, node, hand, readAt, clock, faults, restarts>>

ExpireNow ==                      \* mutant: the clock is read after the claim
    /\ pc = "decide"
    /\ hand = Nobody /\ readAt < NotBefore[node] /\ clock >= ExpiresAt[node]
    /\ Commit("failed")
    /\ pc' = "pick"
    /\ UNCHANGED <<mailbox, minted, admitted, todo, node, hand, readAt, clock, faults, restarts>>

Expire ==
    /\ pc = "decide"
    /\ hand = Nobody /\ readAt < NotBefore[node] /\ readAt >= ExpiresAt[node]
    /\ Commit("failed")
    /\ pc' = "pick"
    /\ UNCHANGED <<mailbox, minted, admitted, todo, node, hand, readAt, clock, faults, restarts>>

(* The Graph pauses until a recovery scan or a sender resumes it.          *)
Pause ==
    /\ pc = "decide"
    /\ hand = Nobody /\ readAt < NotBefore[node] /\ readAt < ExpiresAt[node]
    /\ disk' = [status |-> "paused",
                results |-> [disk.results EXCEPT ![node] = Result("waiting", Nobody)]]
    /\ Off
    /\ UNCHANGED <<mailbox, minted, admitted, clock, faults, restarts>>

(* The acknowledgement follows the checkpoint; its failure is a warning.   *)
Acknowledge ==
    /\ pc = "ack"
    /\ \/ mailbox' = Acknowledged(node, hand) /\ UNCHANGED faults
       \/ Fails("ack") /\ UNCHANGED mailbox
    /\ hand' = Nobody
    /\ pc' = "pick"
    /\ UNCHANGED <<minted, admitted, disk, todo, node, readAt, clock, restarts>>

-----------------------------------------------------------------------------
Crash ==
    /\ pc # "off" /\ faults < MaxFaults
    /\ faults' = faults + 1
    /\ Off
    /\ UNCHANGED <<mailbox, minted, admitted, disk, clock, restarts>>

Tick ==
    /\ clock < MaxTime
    /\ clock' = clock + 1
    /\ UNCHANGED <<mailbox, minted, admitted, disk, owner, faults, restarts>>

Step ==
    \/ \E n \in Wait : Reconcile(n) \/ Pick(n)
    \/ Reconciled \/ Finish
    \/ (\E s \in Signal : Claim(s)) \/ NothingToClaim \/ ClaimFails
    \/ Resolve \/ Expire \/ Pause \/ Acknowledge

Next ==
    \/ \E s \in Signal : Admit(s) \/ Enqueue(s)
    \/ Start \/ Restart
    \/ \E again \in SUBSET Wait : Resume(again)
    \/ Step
    \/ Crash \/ Tick

Spec == Init /\ [][Next]_vars

(* recoverableEngineeringGraphStates: the Graphs an idle process resumes.  *)
Waiting(n) == disk # NoCheckpoint /\ disk.results[n].status = "waiting"
Due(n) == NotBefore[n] <= clock \/ ExpiresAt[n] <= clock \/ Available(n)

Recoverable ==
    /\ disk # NoCheckpoint
    /\ \/ disk.status = "running"
       \/ disk.status = "paused" /\ \E n \in Wait : Waiting(n) /\ Due(n)

(* The scheduler's steps are synchronous or await a bounded call, and the  *)
(* recovery scan is periodic.                                              *)
FairSpec == Spec /\ WF_vars(Step) /\ WF_vars(Recoverable /\ Resume({}))

-----------------------------------------------------------------------------
(* Every variable has its type. *)
TypeOK ==
    /\ mailbox \in [Signal -> Entry \union {NoEntry}]
    /\ minted \subseteq Signal /\ admitted \subseteq Signal
    /\ disk \in Checkpoints \union {NoCheckpoint}
    /\ pc \in {"off", "retire", "reconcile", "pick", "claim", "decide", "ack"}
    /\ todo \subseteq Wait
    /\ node \in Wait \union {Nobody} /\ hand \in Signal \union {Nobody}
    /\ readAt \in Nat /\ clock \in Nat
    /\ faults \in Nat /\ restarts \in Nat
    /\ Cardinality(InBox) <= MaxSignals

Outcome ==
    [n \in Wait |-> IF disk # NoCheckpoint /\ disk.results[n].status = "passed"
                    THEN disk.results[n].signal ELSE Nobody]

(* "Retain a claim through the authoritative workflow checkpoint, then     *)
(* acknowledge": over crashes, failed calls, resumes and restarts a signal *)
(* that was accepted is in the mailbox until the result of a wait has it,  *)
(* and no second result, of this run or a later one, ever gets it.         *)
Delivery == INSTANCE SignalDelivery
    WITH sent <- minted, outcome <- Outcome,
         pool <- InBox \ {Outcome[n] : n \in Wait}

DeliveredOnce == Delivery!Spec

(* A wait does not expire while a signal sent before its deadline is in    *)
(* the mailbox, and no signal sent after the deadline lets it pass.        *)
DeadlineKept ==
    [][\A n \in Wait :
         disk # NoCheckpoint /\ disk'.results[n] # disk.results[n] =>
           /\ disk'.results[n].status = "failed" =>
                \A s \in Timely(n, n) \union Timely(n, Nobody) :
                    mailbox[s].createdAt >= ExpiresAt[n]
           /\ disk'.results[n].status = "passed" /\ disk'.results[n].signal # Nobody =>
                mailbox[disk'.results[n].signal].createdAt <= ExpiresAt[n]]_vars

(* "A signal in the durable mailbox makes its wait-paused graph eligible   *)
(* for idle recovery": a wait whose signal, timer or deadline has come     *)
(* does not wait for ever, whenever the signal came and whatever crashed   *)
(* or failed.  (A restart puts the waits before it first again.)           *)
Settled(n) == disk # NoCheckpoint /\ disk.results[n].status \in {"passed", "failed"}

Wakes ==
    \A n \in Wait, r \in 0 .. MaxRestarts :
        (Waiting(n) /\ Due(n) /\ restarts = r) ~> (Settled(n) \/ ~Due(n) \/ restarts # r)
=============================================================================
