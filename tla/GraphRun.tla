------------------------------ MODULE GraphRun ------------------------------
(***************************************************************************)
(* The Engineering Graph scheduler of                                      *)
(* packages/core/src/agent/graph-engineering.ts (runEngineeringGraph) and  *)
(* the checkpoint it writes (graph-state.ts).                              *)
(*                                                                         *)
(* The scheduler is single-threaded: only while it awaits (Awaiting) do    *)
(* node attempts progress.  Every event it emits rewrites the checkpoint,  *)
(* so an action here makes at most one checkpoint and the process may die  *)
(* between any two.  The session lease lets one scheduler at a time own a  *)
(* Graph (module SessionLease), so runs follow one another.                *)
(*                                                                         *)
(* The model is of Graphs without budgets, deadlines, maps, routes,        *)
(* managed worktrees and fan-in.                                           *)
(***************************************************************************)
EXTENDS Naturals, FiniteSets, Sequences, FiniteSetsExt

CONSTANTS
    Node,           \* the nodes of the definition
    Position,       \* [Node -> Nat]: their order in it, and of their names
    Kind,           \* [Node -> Kinds]
    DependsOn,      \* [Node -> SUBSET Node]
    Condition,      \* [Node -> SUBSET Statuses]: holds when a dependency has
                    \* one of these; {} for a node without a condition
    Compensates,    \* [Node -> SUBSET Node]
    StopNodes,      \* the nodes whose failure policy is "stop"
    Quorum,         \* the passes a join requires
    MaxRetries,     \* [Node -> Nat]
    MaxConcurrency,
    NoCheckpoint,
    WholeGraph,     \* the target of a command that names no node
    MaxRuns,        \* bound: invocations of runEngineeringGraph
    MaxCrashes,     \* bound: process deaths
    MaxCommands,    \* bound: durable control commands
    Operations,     \* those that operators give
    Cancellable,    \* bound: the nodes that operators cancel
    MayAbort,       \* may the embedder abort a run?
    MayRerun        \* may the Graph be restarted, or a node run again?

Kinds == {"work", "subgraph", "join", "gate", "wait", "compensation"}

ASSUME GraphAssumption ==
    /\ IsFiniteSet(Node)
    /\ Position \in [Node -> Nat]
    /\ \A m, n \in Node : Position[m] = Position[n] => m = n
    /\ Kind \in [Node -> Kinds]
    /\ DependsOn \in [Node -> SUBSET Node]
    /\ Compensates \in [Node -> SUBSET Node]
    /\ \A n \in Node :
         /\ \A d \in DependsOn[n] : Kind[d] = "compensation" => Kind[n] = "compensation"
         /\ Kind[n] = "compensation" => /\ Compensates[n] # {}
                                        /\ Compensates[n] \subseteq DependsOn[n]
                                        /\ \A t \in Compensates[n] : Kind[t] # "compensation"
    /\ StopNodes \subseteq Node
    /\ MaxRetries \in [Node -> Nat]
    /\ MaxConcurrency \in Nat \ {0}
    /\ Operations \subseteq {"pause", "resume", "cancel"}
    /\ Cancellable \subseteq Node
(* "Graph contains a dependency cycle" is thrown before a Graph can start. *)
ASSUME AcyclicAssumption ==
    \A S \in SUBSET Node : S # {} => \E n \in S : DependsOn[n] \intersect S = {}
ASSUME BoundAssumption == {MaxRuns, MaxCrashes, MaxCommands} \subseteq Nat

VARIABLES
    disk,           \* .seekforge/graphs/<graphId>.json
    pc,             \* what the scheduler is about to do; "off": no owner
    status, reason, done, results, finished, active,   \* the state object
    pending, compensationPending,
    recovered,      \* recoveredAttempts
    job,            \* inFlight, and where each node's promise is
    mailbox, controlPaused, pausedNodes, cancelledNodes,
    aborted,        \* runController.signal
    after, asked,   \* what follows a settleInFlight, and for which node
    launching,      \* the selected nodes not yet started
    main,           \* mainStatus; "none" before it is known
    keys,           \* [Node -> Nat]: idempotency keys made for each node
    interrupted,    \* [Node -> key]: of an attempt a crash interrupted
    children,       \* the subgraph nodes whose child Graph has a checkpoint
    runs, crashes, commands   \* counters for the bounds

state == <<status, reason, done, results, finished, active>>
control == <<mailbox, controlPaused, pausedNodes, cancelledNodes>>
flow == <<after, asked, launching, main>>
rest == <<children, runs, crashes, commands>>
vars == <<disk, pc, state, pending, compensationPending, recovered, job, control,
          aborted, flow, keys, interrupted, rest>>

-----------------------------------------------------------------------------
(* A result is its status, and whether its error is "Graph cancelled".     *)
Waiting == {"waiting_approval", "waiting_signal"}
Cancelled == {"failed: cancelled", "skipped: cancelled"}
Failed == {"failed", "failed: cancelled"}
Results == {"none", "passed", "failed", "skipped"} \union Waiting \union Cancelled
Statuses == {"passed", "failed", "skipped"}

StatusOf(result) ==
    IF result \in Failed THEN "failed"
    ELSE IF result = "skipped: cancelled" THEN "skipped" ELSE result

NoAttempt == [attempt |-> 0, key |-> 0, phase |-> "none"]
Attempt(a, k, phase) == [attempt |-> a, key |-> k, phase |-> phase]

(* A node's promise: its attempt runs, waits for a retry, or has settled.  *)
NoJob == [phase |-> "none", attempt |-> 0, key |-> 0, result |-> "none", at |-> 0]
Job(phase, a, k) == [phase |-> phase, attempt |-> a, key |-> k, result |-> "none", at |-> 0]
SettledJob(n, result, time) ==
    [phase |-> "settled", attempt |-> job[n].attempt, key |-> job[n].key,
     result |-> result, at |-> time]

Checkpoint(st, why, completed, res, times, attempts) ==
    [status |-> st, reason |-> why, done |-> completed,
     results |-> res, finished |-> times, active |-> attempts]

(* persist(), called by every emit().                                      *)
Persist == disk' = Checkpoint(status', reason', done', results', finished', active')

InFlight == {n \in Node : job[n].phase # "none"}
Has(result) == \E n \in Node : results[n] = result
DependenciesPassed(n) ==          \* mutant: waits for a pass, not for a result
    \A d \in DependsOn[n] : results[d] = "passed"

DependenciesDone(n) == \A d \in DependsOn[n] : results[d] # "none"

StopAfterFailure == \E n \in StopNodes : results[n] \in Failed

(* The clock, in completions.  Two may fall on one millisecond.  Only the  *)
(* order of compensation reads it.                                         *)
Times ==
    IF \A n \in Node : Kind[n] # "compensation" THEN {0}
    ELSE LET last == Max({finished[n] : n \in Node} \union {job[n].at : n \in Node})
         IN {last, last + 1} \ {0}

-----------------------------------------------------------------------------
(* parseState(): what loadEngineeringGraphState accepts.                   *)
OneRecordPerNode(c) ==
    \A n \in Node : c.active[n].phase # "none" => c.results[n] = "none"

RetryCanFollowStrictly(c) ==      \* mutant: off by one against the scheduler
    \A n \in Node :
        c.active[n].phase = "waiting_retry" => c.active[n].attempt < MaxRetries[n]

RetryCanFollow(c) ==
    \A n \in Node :
        /\ c.active[n].attempt <= MaxRetries[n] + 1
        /\ c.active[n].phase = "waiting_retry" => c.active[n].attempt <= MaxRetries[n]

DependenciesFirst(c) ==
    \A n \in Node : c.results[n] # "none" => \A d \in DependsOn[n] : c.results[d] # "none"

ReasonMatches(c) ==
    LET approval == \E n \in Node : c.results[n] = "waiting_approval"
        signal == \E n \in Node : c.results[n] = "waiting_signal"
    IN IF c.status = "paused"
       THEN \/ c.reason = "approval" /\ approval /\ ~signal
            \/ c.reason = "wait" /\ signal /\ ~approval
            \/ c.reason = "control" /\ ~signal /\ ~approval
       ELSE c.reason = "none" /\ ~signal /\ ~approval

TerminalIsComplete(c) ==
    /\ c.done = (c.status \in {"passed", "failed", "cancelled"})
    /\ c.done => \A n \in Node : c.results[n] # "none"
    /\ c.status = "passed" => \A n \in Node : c.results[n] \notin Failed

OnlyRunningHasAttempts(c) ==
    c.status # "running" => \A n \in Node : c.active[n].phase = "none"

Loadable(c) ==
    /\ OneRecordPerNode(c)
    /\ RetryCanFollow(c)
    /\ DependenciesFirst(c)
    /\ ReasonMatches(c)
    /\ TerminalIsComplete(c)
    /\ OnlyRunningHasAttempts(c)

-----------------------------------------------------------------------------
NoResults == [n \in Node |-> "none"]
NoAttempts == [n \in Node |-> NoAttempt]
NoTimes == [n \in Node |-> 0]

(* Nobody owns the Graph: what the process had in memory is gone.          *)
Off ==
    /\ pc' = "off"
    /\ status' = "running" /\ reason' = "none" /\ done' = FALSE
    /\ results' = NoResults /\ finished' = NoTimes /\ active' = NoAttempts
    /\ pending' = {} /\ compensationPending' = {}
    /\ recovered' = NoAttempts
    /\ job' = [n \in Node |-> NoJob]
    /\ mailbox' = <<>> /\ controlPaused' = FALSE
    /\ pausedNodes' = {} /\ cancelledNodes' = {}
    /\ aborted' = FALSE
    /\ after' = "none" /\ asked' = WholeGraph /\ launching' = {} /\ main' = "none"

Init ==
    /\ disk = NoCheckpoint
    /\ pc = "off"
    /\ status = "running" /\ reason = "none" /\ done = FALSE
    /\ results = NoResults /\ finished = NoTimes /\ active = NoAttempts
    /\ pending = {} /\ compensationPending = {}
    /\ recovered = NoAttempts
    /\ job = [n \in Node |-> NoJob]
    /\ mailbox = <<>> /\ controlPaused = FALSE
    /\ pausedNodes = {} /\ cancelledNodes = {}
    /\ aborted = FALSE
    /\ after = "none" /\ asked = WholeGraph /\ launching = {} /\ main = "none"
    /\ keys = [n \in Node |-> 0]
    /\ interrupted = [n \in Node |-> 0]
    /\ children = {} /\ runs = 0 /\ crashes = 0 /\ commands = 0

(* orchestrationDescendantClosure.                                         *)
Reach[k \in Nat] ==
    IF k = 0 THEN {<<n, n>> : n \in Node}
    ELSE Reach[k - 1] \union
         {e \in Node \X Node : \E d \in DependsOn[e[2]] : <<e[1], d>> \in Reach[k - 1]}

Closure(roots) ==
    {n \in Node : \E r \in roots : <<r, n>> \in Reach[Cardinality(Node)]}

KeptAround(mode, roots, n) ==     \* mutant: what is run again takes its dependencies along
    /\ mode = "resume"
    /\ n \notin Closure(roots \union UNION {DependsOn[r] : r \in roots})
    /\ disk.results[n] \notin Waiting \union Cancelled

(* The results a new run starts from.                                      *)
Kept(mode, roots, n) ==
    /\ mode = "resume"
    /\ n \notin Closure(roots)
    /\ disk.results[n] \notin Waiting \union Cancelled

Begin(mode, roots) ==
    LET res == [n \in Node |-> IF Kept(mode, roots, n) THEN disk.results[n] ELSE "none"]
        missing == {n \in Node : res[n] = "none"}
    IN
    /\ pc' = "warn"
    /\ status' = "running" /\ reason' = "none" /\ done' = FALSE
    /\ results' = res
    /\ finished' = [n \in Node |-> IF res[n] # "none" THEN disk.finished[n] ELSE 0]
    /\ active' = IF mode = "resume" THEN disk.active ELSE NoAttempts
    /\ Persist
    /\ recovered' = [n \in Node |-> IF mode = "resume" /\ n \notin Closure(roots)
                                    THEN disk.active[n] ELSE NoAttempt]
    /\ pending' = {n \in missing : Kind[n] # "compensation"}
    /\ compensationPending' = {n \in missing : Kind[n] = "compensation"}
    /\ interrupted' = [n \in Node |-> IF mode = "resume" /\ n \notin Closure(roots)
                                      THEN interrupted[n] ELSE 0]
    /\ runs' = runs + 1
    /\ UNCHANGED <<job, control, aborted, flow, keys, children, crashes, commands>>

(* runEngineeringGraph up to its first checkpoint (graph.started or        *)
(* graph.resumed).  A checkpoint that does not load cannot be resumed, and *)
(* keeps a fresh run from starting.                                        *)
StartRun ==
    /\ pc = "off" /\ runs < MaxRuns
    /\ disk = NoCheckpoint
    /\ Begin("start", {})

RestartRun ==
    /\ pc = "off" /\ runs < MaxRuns
    /\ MayRerun
    /\ disk # NoCheckpoint
    /\ Begin("restart", {})

(* Nor can a Graph be resumed with a subgraph node that has to run and      *)
(* whose child Graph has no checkpoint, unless it is what is run again.    *)
ChildrenThere(roots) ==
    \A n \in Node \ roots :
        Kind[n] = "subgraph" /\ (disk.results[n] = "none" \/ ~Kept("resume", roots, n))
            => n \in children

ResumeRun(roots) ==
    /\ pc = "off" /\ runs < MaxRuns
    /\ disk # NoCheckpoint /\ Loadable(disk) /\ ChildrenThere(roots)
    /\ roots # {} => MayRerun
    /\ Begin("resume", roots)

WarnForgets ==                    \* mutant: forgets what it recovers
    /\ pc = "warn"
    /\ pc' = "control"
    /\ active' = [n \in Node |-> IF active[n].phase = "running" THEN NoAttempt ELSE active[n]]
    /\ recovered' = active'
    /\ UNCHANGED <<status, reason, done, results, finished>>
    /\ Persist
    /\ UNCHANGED <<pending, compensationPending, job, control, aborted, flow, keys,
                   interrupted, rest>>

(* Attempts that were running when the last owner died leave the journal;  *)
(* recovered still has them.                                               *)
Warn ==
    /\ pc = "warn"
    /\ pc' = "control"
    /\ active' = [n \in Node |-> IF active[n].phase = "running" THEN NoAttempt ELSE active[n]]
    /\ UNCHANGED <<status, reason, done, results, finished>>
    /\ Persist
    /\ UNCHANGED <<pending, compensationPending, recovered, job, control, aborted,
                   flow, keys, interrupted, rest>>

-----------------------------------------------------------------------------
(* Durable control.                                                        *)
Commands == [op : Operations \ {"cancel"}, node : Node \union {WholeGraph}]
            \union [op : Operations \intersect {"cancel"}, node : Cancellable]

(* enqueueGraphControl: the checkpoint must say that this run is active.   *)
(* checkGraphControlTarget looked at an earlier checkpoint, so the node    *)
(* may have started since.                                                 *)
Enqueue(command) ==
    /\ pc # "off" /\ commands < MaxCommands
    /\ Loadable(disk) /\ disk.status = "running"
    /\ mailbox' = Append(mailbox, command)
    /\ commands' = commands + 1
    /\ UNCHANGED <<disk, pc, state, pending, compensationPending, recovered, job,
                   controlPaused, pausedNodes, cancelledNodes, aborted, flow,
                   keys, interrupted, children, runs, crashes>>

(* The last pause or resume of a target decides; before any, old does.     *)
PausedAfter(target, old) ==
    LET about == {i \in DOMAIN mailbox : mailbox[i].node = target /\ mailbox[i].op # "cancel"}
    IN IF about = {} THEN old ELSE mailbox[Max(about)].op = "pause"

(* processControl: applies the mailbox; its event makes a checkpoint.      *)
ProcessControl ==
    /\ UNCHANGED state
    /\ IF mailbox # <<>> THEN Persist ELSE UNCHANGED disk
    /\ controlPaused' = PausedAfter(WholeGraph, controlPaused)
    /\ pausedNodes' = {n \in Node : PausedAfter(n, n \in pausedNodes)}
    /\ cancelledNodes' = cancelledNodes \union
           {n \in Node : \E i \in DOMAIN mailbox : mailbox[i] = [op |-> "cancel", node |-> n]}
    /\ mailbox' = <<>>

(* completeWithoutRun.                                                     *)
CompleteWithoutRun(n, result) ==
    /\ results' = [results EXCEPT ![n] = result]
    /\ \E t \in Times : finished' = [finished EXCEPT ![n] = t]
    /\ active' = [active EXCEPT ![n] = NoAttempt]
    /\ recovered' = [recovered EXCEPT ![n] = NoAttempt]
    /\ pending' = pending \ {n}

(* Where the loop goes after the durable controls.                         *)
Route ==
    LET wait == aborted \/ Has("waiting_approval") IN
    /\ pc' = IF wait THEN "settle" ELSE "resolve"
    /\ after' = IF aborted THEN "abort" ELSE IF wait THEN "waiting" ELSE "none"

(* The top of the main loop.                                               *)
LoopTop ==
    /\ pc = "control"
    /\ IF pending = {} /\ InFlight = {} /\ ~Has("waiting_approval")
       THEN pc' = "finish" /\ UNCHANGED <<disk, state, control>>
       ELSE pc' = "cancels" /\ ProcessControl
    /\ UNCHANGED <<pending, compensationPending, recovered, job, aborted,
                   flow, keys, interrupted, rest>>

CancelNode(n) ==
    /\ pc = "cancels"
    /\ n \in cancelledNodes \intersect pending
    /\ cancelledNodes' = cancelledNodes \ {n}
    /\ CompleteWithoutRun(n, "skipped")
    /\ UNCHANGED <<status, reason, done>>
    /\ Persist
    /\ UNCHANGED <<pc, compensationPending, job, mailbox, controlPaused, pausedNodes,
                   aborted, flow, keys, interrupted, rest>>

CancelsDone ==
    /\ pc = "cancels"
    /\ cancelledNodes \intersect pending = {}
    /\ IF controlPaused THEN pc' = "settle" /\ after' = "control" ELSE Route
    /\ UNCHANGED <<disk, state, pending, compensationPending, recovered, job, control,
                   aborted, asked, launching, main, keys, interrupted, rest>>

-----------------------------------------------------------------------------
(* recordCompleted: the result and the end of the attempt are one          *)
(* checkpoint.  A waiting result pauses the Graph.                         *)
Record(n) ==
    LET result == job[n].result
        waits == result = "waiting_approval" IN
    /\ pc \in {"settle", "race", "drain"}
    /\ job[n].phase = "settled"
    /\ job' = [job EXCEPT ![n] = NoJob]
    /\ results' = [results EXCEPT ![n] = result]
    /\ finished' = [finished EXCEPT ![n] = job[n].at]
    /\ active' = [active EXCEPT ![n] = NoAttempt]
    /\ status' = IF waits THEN "paused" ELSE status
    /\ reason' = IF waits THEN "approval" ELSE reason
    /\ done' = done
    /\ Persist
    /\ pc' = IF pc # "race" THEN pc ELSE IF main = "none" THEN "control" ELSE "compensate"
    /\ UNCHANGED <<pending, compensationPending, recovered, control, aborted, flow,
                   keys, interrupted, rest>>

(* return state: the last checkpoint of a run, and the lease is released.  *)
Return(st, why) ==
    /\ disk' = Checkpoint(st, why, st \notin {"running", "paused"}, results, finished, active)
    /\ Off
    /\ UNCHANGED <<keys, interrupted, rest>>

Goto(position) ==
    /\ pc' = position
    /\ UNCHANGED <<disk, state, pending, compensationPending, recovered, job, control,
                   aborted, flow, keys, interrupted, rest>>

SettledAtOnce(reasonToSettle) ==  \* mutant: settles nothing
    pc = "settle" /\ after = reasonToSettle

Settled(reasonToSettle) ==
    pc = "settle" /\ InFlight = {} /\ after = reasonToSettle

(* The control is read again: the Graph may have been continued meanwhile. *)
SettledForControl ==
    /\ Settled("control")
    /\ LET paused == PausedAfter(WholeGraph, controlPaused) IN
       IF Has("waiting_approval") THEN Return("paused", "approval")
       ELSE IF paused THEN Return("paused", "control")
       ELSE /\ ProcessControl
            /\ Route
            /\ UNCHANGED <<pending, compensationPending, recovered, job,
                           aborted, asked, launching, main, keys, interrupted, rest>>

SettledForAbort == Settled("abort") /\ Goto("cancelWaiting")

SettledForWaiting ==
    /\ Settled("waiting")
    /\ IF aborted THEN Goto("control") ELSE Return("paused", "approval")

SettledForGate ==
    /\ Settled("gate")
    /\ IF aborted THEN Goto("cancelWaiting") ELSE Return(status, reason)

SettledForWait ==
    /\ Settled("wait")
    /\ IF aborted THEN Goto("cancelWaiting")
       ELSE IF StopAfterFailure
       THEN /\ CompleteWithoutRun(asked, "skipped")
            /\ UNCHANGED <<status, reason, done>>
            /\ Persist
            /\ pc' = "resolve"
            /\ UNCHANGED <<compensationPending, job, control, aborted, flow, keys,
                           interrupted, rest>>
       ELSE \E t \in Times :
            /\ disk' = Checkpoint("paused", "wait", FALSE,
                                  [results EXCEPT ![asked] = "waiting_signal"],
                                  [finished EXCEPT ![asked] = t], active)
            /\ Off
            /\ UNCHANGED <<keys, interrupted, rest>>

(* cancelWaitingResults, one event at a time.                              *)
CancelWaiting(n) ==
    LET waiting == {m \in Node : results[m] = "waiting_approval"} IN
    /\ pc = "cancelWaiting"
    /\ n \in waiting
    /\ status' = IF waiting = {n} THEN "running" ELSE status
    /\ results' = [results EXCEPT ![n] = "skipped: cancelled"]
    /\ UNCHANGED <<reason, done, finished, active>>
    /\ Persist
    /\ UNCHANGED <<pc, pending, compensationPending, recovered, job, control, aborted,
                   flow, keys, interrupted, rest>>

CancelPending(n) ==
    /\ pc = "cancelWaiting" /\ ~Has("waiting_approval")
    /\ n \in pending
    /\ CompleteWithoutRun(n, "skipped: cancelled")
    /\ UNCHANGED <<status, reason, done>>
    /\ Persist
    /\ UNCHANGED <<pc, compensationPending, job, control, aborted, flow, keys,
                   interrupted, rest>>

ReturnCancelledEarly ==           \* mutant: leaves the pending nodes without results
    /\ pc = "cancelWaiting" /\ ~Has("waiting_approval")
    /\ Return("cancelled", "none")

ReturnCancelled ==
    /\ pc = "cancelWaiting" /\ ~Has("waiting_approval") /\ pending = {}
    /\ Return("cancelled", "none")

-----------------------------------------------------------------------------
(* The resolution loop: nodes that end without an attempt.  The code goes  *)
(* through the pending nodes in the order of the definition, again and     *)
(* again until nothing changes; here they come in any order.               *)
StopSkip(n) ==
    /\ pc = "resolve"
    /\ n \in pending /\ StopAfterFailure
    /\ CompleteWithoutRun(n, "skipped")
    /\ UNCHANGED <<status, reason, done>>
    /\ Persist
    /\ UNCHANGED <<pc, compensationPending, job, control, aborted, flow, keys,
                   interrupted, rest>>

Matches(n) == \E d \in DependsOn[n] : StatusOf(results[d]) \in Condition[n]

Excluded(n) ==
    \/ Condition[n] # {} /\ ~Matches(n)
    \/ /\ Condition[n] = {} /\ Kind[n] # "join"
       /\ \E d \in DependsOn[n] : results[d] # "passed"

ResolvableEarly(n) ==             \* mutant: decides before the dependencies have results
    n \in pending /\ ~StopAfterFailure

Resolvable(n) == n \in pending /\ ~StopAfterFailure /\ DependenciesDone(n)

Exclude(n) ==
    /\ pc = "resolve"
    /\ Resolvable(n) /\ Excluded(n)
    /\ CompleteWithoutRun(n, "skipped")
    /\ UNCHANGED <<status, reason, done>>
    /\ Persist
    /\ UNCHANGED <<pc, compensationPending, job, control, aborted, flow, keys,
                   interrupted, rest>>

(* The gate's decision and the claim of a wait's signal are awaited.       *)
Ask(n) ==
    /\ pc = "resolve"
    /\ Resolvable(n) /\ ~Excluded(n) /\ Kind[n] \in {"gate", "wait"}
    /\ pc' = Kind[n]
    /\ asked' = n
    /\ UNCHANGED <<disk, state, pending, compensationPending, recovered, job, control,
                   aborted, after, launching, main, keys, interrupted, rest>>

Resolved ==
    /\ pc = "resolve"
    /\ \A n \in pending : /\ ~StopAfterFailure
                          /\ DependenciesDone(n) => /\ ~Excluded(n)
                                                    /\ Kind[n] \notin {"gate", "wait"}
    /\ Goto("launch")

(* A gate is approved or rejected; a wait's signal or timer has come, or   *)
(* it has expired.                                                         *)
Answer(result) ==
    /\ pc \in {"gate", "wait"}
    /\ result \in {"passed", "failed"}
    /\ results' = [results EXCEPT ![asked] = result]
    /\ \E t \in Times : finished' = [finished EXCEPT ![asked] = t]
    /\ pending' = pending \ {asked}
    /\ UNCHANGED <<status, reason, done, active>>
    /\ Persist
    /\ pc' = "resolve"
    /\ UNCHANGED <<compensationPending, recovered, job, control, aborted, flow, keys,
                   interrupted, rest>>

(* request_changes: the Graph is paused, then what is in flight settles.   *)
GateWaits ==
    /\ pc = "gate"
    /\ status' = "paused" /\ reason' = "approval"
    /\ CompleteWithoutRun(asked, "waiting_approval")
    /\ done' = done
    /\ Persist
    /\ pc' = "settle" /\ after' = "gate"
    /\ UNCHANGED <<compensationPending, job, control, aborted, asked, launching, main,
                   keys, interrupted, rest>>

WaitWaits ==
    /\ pc = "wait"
    /\ pc' = "settle" /\ after' = "wait"
    /\ UNCHANGED <<disk, state, pending, compensationPending, recovered, job, control,
                   aborted, asked, launching, main, keys, interrupted, rest>>

(* The callback or the mailbox throws; emergencyDrain settles the rest.    *)
AnswerThrows ==
    /\ pc \in {"gate", "wait"}
    /\ pc' = "drain"
    /\ aborted' = TRUE
    /\ UNCHANGED <<disk, state, pending, compensationPending, recovered, job, control,
                   flow, keys, interrupted, rest>>

Drained ==
    /\ pc = "drain" /\ InFlight = {}
    /\ Off
    /\ UNCHANGED <<disk, keys, interrupted, rest>>

-----------------------------------------------------------------------------
(* Selection.  The priorities and scores that choose among ready nodes are *)
(* left open; how many start is not.                                       *)
ReadyAtOnce ==                    \* mutant: does not wait for dependencies
    pending \ pausedNodes

Ready == {n \in pending \ pausedNodes : DependenciesDone(n)}

Smaller(a, b) == IF a <= b THEN a ELSE b

Launch ==
    /\ pc = "launch"
    /\ \E chosen \in kSubset(Smaller(MaxConcurrency - Cardinality(InFlight), Cardinality(Ready)),
                             Ready) :
         IF chosen # {}
         THEN /\ launching' = chosen
              /\ pc' = "start"
              /\ UNCHANGED <<disk, state, pending, compensationPending, recovered, job,
                             control, aborted, after, asked, main, keys, interrupted, rest>>
         ELSE IF InFlight # {} THEN Goto("race")
         ELSE IF pending \intersect pausedNodes # {} THEN Return("paused", "control")
         ELSE IF pending # {} THEN Goto("stuck")
         ELSE Goto("finish")

StartAttemptUnsaved(n, a, k) ==   \* mutant: the handler runs before the checkpoint
    /\ active' = [active EXCEPT ![n] = Attempt(a, k, "running")]
    /\ job' = [job EXCEPT ![n] = Job("running", a, k)]
    /\ keys' = [keys EXCEPT ![n] = IF k > @ THEN k ELSE @]
    /\ interrupted' = [interrupted EXCEPT ![n] = 0]
    /\ UNCHANGED <<disk, status, reason, done, results, finished>>

(* One attempt: it is in the journal before its handler is called.         *)
StartAttempt(n, a, k) ==
    /\ active' = [active EXCEPT ![n] = Attempt(a, k, "running")]
    /\ job' = [job EXCEPT ![n] = Job("running", a, k)]
    /\ keys' = [keys EXCEPT ![n] = IF k > @ THEN k ELSE @]
    /\ interrupted' = [interrupted EXCEPT ![n] = 0]
    /\ UNCHANGED <<status, reason, done, results, finished>>
    /\ Persist

SettleAs(n, result) ==
    /\ \E t \in Times : job' = [job EXCEPT ![n] = SettledJob(n, result, t)]
    /\ UNCHANGED <<disk, state, keys, interrupted>>

(* startNode, as far as its promise runs synchronously.  A recovered       *)
(* attempt that was running is made again under its key, one that waited   *)
(* for a retry goes on waiting.                                            *)
Start(n) ==
    LET r == recovered[n] IN
    /\ pc = "start"
    /\ n \in launching
    /\ launching' = launching \ {n}
    /\ pending' = pending \ {n}
    /\ recovered' = [recovered EXCEPT ![n] = NoAttempt]
    /\ \/ /\ r.phase = "waiting_retry"
          /\ job' = [job EXCEPT ![n] = Job("backoff", r.attempt, r.key)]
          /\ UNCHANGED <<disk, state, keys, interrupted>>
       \/ r.phase # "waiting_retry" /\ aborted /\ SettleAs(n, "failed: cancelled")
       \/ r.phase = "running" /\ ~aborted /\ StartAttempt(n, r.attempt, r.key)
       \/ r.phase = "none" /\ ~aborted /\ StartAttempt(n, 1, keys[n] + 1)
    /\ pc' = IF launching' = {} THEN "race" ELSE "start"
    /\ UNCHANGED <<compensationPending, control, aborted, after, asked, main, rest>>

-----------------------------------------------------------------------------
(* The promises go on while the scheduler awaits something.                *)
AwaitingUnlessSettling ==         \* mutant: settleInFlight does not await
    pc \in {"race", "gate", "wait", "drain"}

Awaiting == pc \in {"settle", "race", "gate", "wait", "drain"}

JobFrame == UNCHANGED <<pc, pending, compensationPending, recovered, control, aborted,
                        flow, rest>>

JoinPasses(n) == Cardinality({d \in DependsOn[n] : results[d] = "passed"}) >= Quorum

Pass(n) ==
    /\ Awaiting /\ job[n].phase = "running"
    /\ Kind[n] = "join" => JoinPasses(n)
    /\ Kind[n] = "subgraph" => n \in children
    /\ SettleAs(n, "passed") /\ JobFrame

(* A failure is final when the run is aborted, no retry is left, or it is  *)
(* not retryable.                                                          *)
Fail(n) ==
    /\ Awaiting /\ job[n].phase = "running"
    /\ Kind[n] = "join" => ~JoinPasses(n)
    /\ SettleAs(n, IF aborted THEN "failed: cancelled" ELSE "failed") /\ JobFrame

(* The child Graph of a subgraph node makes its first checkpoint.          *)
ChildSaves(n) ==
    /\ Awaiting /\ job[n].phase = "running"
    /\ Kind[n] = "subgraph" /\ n \notin children
    /\ children' = children \union {n}
    /\ UNCHANGED <<disk, pc, state, pending, compensationPending, recovered, job, control,
                   aborted, flow, keys, interrupted, runs, crashes, commands>>

(* GraphSubgraphPausedError.                                               *)
ChildPauses(n) ==
    /\ Awaiting /\ job[n].phase = "running"
    /\ Kind[n] = "subgraph" /\ n \in children
    /\ SettleAs(n, "waiting_approval") /\ JobFrame

RetryLaterOnceMore(n) ==          \* mutant: one retry too many
    LET j == job[n] IN
    /\ Awaiting /\ j.phase = "running"
    /\ ~aborted /\ Kind[n] # "join" /\ j.attempt <= MaxRetries[n] + 1
    /\ active' = [active EXCEPT ![n] = Attempt(j.attempt, j.key, "waiting_retry")]
    /\ job' = [job EXCEPT ![n] = Job("backoff", j.attempt, j.key)]
    /\ UNCHANGED <<status, reason, done, results, finished>>
    /\ Persist
    /\ UNCHANGED <<keys, interrupted>>
    /\ JobFrame

RetryLater(n) ==
    LET j == job[n] IN
    /\ Awaiting /\ j.phase = "running"
    /\ ~aborted /\ Kind[n] # "join" /\ j.attempt <= MaxRetries[n]
    /\ active' = [active EXCEPT ![n] = Attempt(j.attempt, j.key, "waiting_retry")]
    /\ job' = [job EXCEPT ![n] = Job("backoff", j.attempt, j.key)]
    /\ UNCHANGED <<status, reason, done, results, finished>>
    /\ Persist
    /\ UNCHANGED <<keys, interrupted>>
    /\ JobFrame

Retry(n) ==
    /\ Awaiting /\ job[n].phase = "backoff"
    /\ IF aborted THEN SettleAs(n, "failed: cancelled")
       ELSE StartAttempt(n, job[n].attempt + 1, keys[n] + 1)
    /\ JobFrame

-----------------------------------------------------------------------------
(* After the main loop.                                                    *)
Finish ==
    /\ pc = "finish"
    /\ IF aborted THEN Return("cancelled", "none")
       ELSE /\ main' = IF \E n \in Node : results[n] \in Failed THEN "failed" ELSE "passed"
            /\ status' = "running"
            /\ UNCHANGED <<reason, done, results, finished, active>>
            /\ IF main' = "failed" /\ compensationPending # {} THEN Persist ELSE UNCHANGED disk
            /\ pc' = "compensate"
            /\ UNCHANGED <<pending, compensationPending, recovered, job, control, aborted,
                           after, asked, launching, keys, interrupted, rest>>

(* Compensations run one by one, the one of the latest target first.       *)
Latest(n) == Max({finished[t] : t \in Compensates[n]})
TargetOrder(n) == Max({Position[t] : t \in Compensates[n]})

BeforeOldest(m, n) ==             \* mutant: oldest target first
    \/ Latest(m) < Latest(n)
    \/ Latest(m) = Latest(n) /\ Position[m] <= Position[n]

Before(m, n) ==
    \/ Latest(m) > Latest(n)
    \/ Latest(m) = Latest(n) /\ TargetOrder(m) > TargetOrder(n)
    \/ Latest(m) = Latest(n) /\ TargetOrder(m) = TargetOrder(n) /\ Position[m] <= Position[n]

Effective(n) == \E t \in Compensates[n] : results[t] = "passed"

NextCompensation(n) ==
    /\ pc = "compensate" /\ main = "failed"
    /\ n \in compensationPending
    /\ \A m \in compensationPending : Before(n, m)
    /\ compensationPending' = compensationPending \ {n}
    /\ IF Effective(n)
       THEN launching' = {n} /\ pc' = "start" /\ UNCHANGED <<disk, state, recovered, pending>>
       ELSE /\ CompleteWithoutRun(n, "skipped")
            /\ UNCHANGED <<status, reason, done>>
            /\ Persist
            /\ UNCHANGED <<pc, launching>>
    /\ UNCHANGED <<job, control, aborted, after, asked, main, keys, interrupted, rest>>

NotRequired(n) ==
    /\ pc = "compensate" /\ main = "passed"
    /\ n \in compensationPending
    /\ compensationPending' = compensationPending \ {n}
    /\ CompleteWithoutRun(n, "skipped")
    /\ UNCHANGED <<status, reason, done>>
    /\ Persist
    /\ UNCHANGED <<pc, job, control, aborted, flow, keys, interrupted, rest>>

ReturnFinished ==
    /\ pc = "compensate" /\ compensationPending = {}
    /\ Return(main, "none")

-----------------------------------------------------------------------------
(* The embedder aborts; observers are called from emit(), so at any time.  *)
Abort ==
    /\ pc # "off" /\ MayAbort /\ ~aborted
    /\ aborted' = TRUE
    /\ UNCHANGED <<disk, pc, state, pending, compensationPending, recovered, job, control,
                   flow, keys, interrupted, rest>>

(* The process dies, and with it the handlers it runs.                     *)
Crash ==
    /\ pc # "off" /\ crashes < MaxCrashes
    /\ crashes' = crashes + 1
    /\ interrupted' = [n \in Node |->
           IF job[n].phase = "running" \/ job[n].result \in {"passed", "failed"}
           THEN job[n].key ELSE interrupted[n]]
    /\ Off
    /\ UNCHANGED <<disk, keys, children, runs, commands>>

JobStep(n) == Pass(n) \/ Fail(n) \/ ChildPauses(n) \/ RetryLater(n) \/ Retry(n)

NodeStep(n) ==
    \/ CancelNode(n) \/ Record(n) \/ CancelWaiting(n) \/ CancelPending(n)
    \/ StopSkip(n) \/ Exclude(n) \/ Ask(n) \/ Start(n)
    \/ NextCompensation(n) \/ NotRequired(n)

Step ==
    \/ Warn \/ LoopTop \/ CancelsDone
    \/ SettledForControl \/ SettledForAbort \/ SettledForWaiting
    \/ SettledForGate \/ SettledForWait \/ ReturnCancelled
    \/ Resolved \/ (\E result \in Results : Answer(result))
    \/ GateWaits \/ WaitWaits \/ AnswerThrows \/ Drained
    \/ Launch \/ Finish \/ ReturnFinished
    \/ \E n \in Node : NodeStep(n)

Next ==
    \/ StartRun \/ RestartRun
    \/ \E n \in Node : \E roots \in SUBSET {n} : ResumeRun(roots)
    \/ Step
    \/ \E n \in Node : JobStep(n) \/ ChildSaves(n)
    \/ \E command \in Commands : Enqueue(command)
    \/ Abort \/ Crash

Spec == Init /\ [][Next]_vars

(* The scheduler is synchronous between its awaits, and every handler      *)
(* settles.                                                                *)
FairSpec == Spec /\ WF_vars(Step) /\ \A n \in Node : WF_vars(JobStep(n))

(* Somebody starts the Graph, and resumes it after a crash.                *)
RecoverySpec == FairSpec /\ WF_vars(StartRun) /\ WF_vars(ResumeRun({}) /\ ~disk.done)

-----------------------------------------------------------------------------
Attempts == [attempt : Nat, key : Nat, phase : {"none", "running", "waiting_retry"}]
Promises == [phase : {"none", "running", "backoff", "settled"}, attempt : Nat, key : Nat,
             result : Results, at : Nat]

Checkpoints ==
    [status : {"running", "paused", "passed", "failed", "cancelled"},
     reason : {"none", "approval", "control", "wait"}, done : BOOLEAN,
     results : [Node -> Results], finished : [Node -> Nat], active : [Node -> Attempts]]

ASSUME CheckpointAssumption == NoCheckpoint \notin Checkpoints

(* Every variable has its type. *)
TypeOK ==
    /\ disk \in Checkpoints \union {NoCheckpoint}
    /\ pc \in {"off", "warn", "control", "cancels", "settle", "race", "cancelWaiting",
               "resolve", "gate", "wait", "launch", "start", "finish", "compensate",
               "drain", "stuck"}
    /\ status \in {"running", "paused"} /\ reason \in {"none", "approval"} /\ done = FALSE
    /\ results \in [Node -> Results] /\ finished \in [Node -> Nat]
    /\ active \in [Node -> Attempts] /\ recovered \in [Node -> Attempts]
    /\ pending \subseteq Node /\ compensationPending \subseteq Node
    /\ job \in [Node -> Promises]
    /\ mailbox \in Seq(Commands) /\ controlPaused \in BOOLEAN
    /\ pausedNodes \subseteq Node /\ cancelledNodes \subseteq Node
    /\ aborted \in BOOLEAN
    /\ after \in {"none", "control", "abort", "waiting", "gate", "wait"}
    /\ asked \in Node \union {WholeGraph} /\ launching \subseteq Node
    /\ main \in {"none", "passed", "failed"}
    /\ keys \in [Node -> Nat] /\ interrupted \in [Node -> Nat]
    /\ children \subseteq Node
    /\ runs \in 0 .. MaxRuns /\ crashes \in 0 .. MaxCrashes /\ commands \in 0 .. MaxCommands

(* "An attempt-start checkpoint precedes handler effects": while a handler *)
(* runs, the checkpoint names its attempt and key and has no result of it. *)
Journaled ==
    \A n \in Node : job[n].phase = "running" =>
        /\ disk.results[n] = "none"
        /\ disk.active[n] = Attempt(job[n].attempt, job[n].key, "running")

(* A handler runs only after the checkpoint has the results of all it      *)
(* depends on; they passed, unless the node is made for other outcomes.    *)
DependenciesCommitted ==
    \A n \in Node : job[n].phase = "running" =>
        \A d \in DependsOn[n] :
            /\ disk.results[d] \notin Waiting \union {"none"}
            /\ Condition[n] = {} /\ Kind[n] \notin {"join", "compensation"}
                 => disk.results[d] = "passed"

(* What has passed is never lost or run again, across crashes, pauses and  *)
(* cancellations, unless a restart or a rerun says so.                     *)
CommittedStays ==
    [][\A n \in Node :
          disk # NoCheckpoint /\ disk.results[n] = "passed" /\ disk'.results[n] # "passed"
            => \/ RestartRun
               \/ \E r \in Node : n \in Closure({r}) /\ ResumeRun({r})]_vars

(* An owner gives up the Graph only when every node it started has settled *)
(* and the checkpoint says so.                                             *)
SettledBeforeRelease ==
    [][pc # "off" /\ pc' = "off" /\ crashes' = crashes
         => InFlight = {} /\ \A n \in Node : disk'.active[n].phase # "running"]_vars

(* "Graph scheduler made no progress" is never thrown.                     *)
NeverStuck == pc # "stuck"

(* A run that returns, or throws, leaves a checkpoint that loads           *)
(* ("Every event checkpoint must satisfy durable state invariants").       *)
ReturnsLoadable ==
    [][pc # "off" /\ pc' = "off" /\ crashes' = crashes => Loadable(disk')]_vars

(* "Waiting gates are re-evaluated on resume" (graph-engineering.md:207): a *)
(* Graph that paused for an approval can be resumed.  A gate in front of a *)
(* subgraph that was never started shows that the code does not keep this  *)
(* (ChildrenThere).                                                        *)
PausedResumes ==
    pc = "off" /\ disk # NoCheckpoint /\ disk.reason = "approval"
        => Loadable(disk) /\ ChildrenThere({})

(* A crash at any time leaves a checkpoint that loads.                     *)
Recoverable == disk # NoCheckpoint => Loadable(disk)

(* "A recovered interrupted attempt [...] retries with the same logical    *)
(* key": a handler a crash interrupted is called again only under its key. *)
SameKey ==
    [][\A n \in Node :
          interrupted[n] # 0 /\ job[n].phase # "running" /\ job'[n].phase = "running"
            => job'[n].key = interrupted[n]]_vars

(* Crashes do not give a node more attempts than maxRetries allows.        *)
RetryLimit == \A n \in Node : keys[n] <= MaxRetries[n] + 1

(* A compensation runs alone, after all forward work, only for a target    *)
(* that passed, and only after the compensations of later targets.         *)
RollbackOrder ==
    \A n \in Node : Kind[n] = "compensation" /\ job[n].phase = "running" =>
        /\ InFlight = {n} /\ pending = {}
        /\ Effective(n)
        /\ \A m \in Node : Kind[m] = "compensation" /\ Latest(m) > Latest(n)
                              => disk.results[m] # "none"

(* The scheduler never hangs: every run ends.                              *)
RunEnds == pc # "off" ~> pc = "off"

(* Started, and resumed after each crash, the Graph gets to its end.       *)
Completes == <>(disk # NoCheckpoint /\ disk.done)
=============================================================================
