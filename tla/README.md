# SeekForge: specifications, model checking and proofs

SeekForge is a local coding agent: a core library (`packages/core`), a server, a
CLI, a TUI, a desktop shell and an editor extension. Everything durable is a file
under `.seekforge/` of a workspace, and several processes (a server, CLI runs, an
idle recovery scan, an editor) work on one workspace at the same time without any
daemon between them. What keeps that correct is a small number of file
protocols, and two engines, for *Engineering Graphs* and for autonomous *Loops*, that
must survive the death of their process at any point. They are the subject of this
project.

Paths below are relative to `src/`; `agent/` stands for
`packages/core/src/agent/`.

## 1. Inventory

| component | source | state | operations | interacts with |
|---|---|---|---|---|
| session lease, workspace guard | `agent/session-lease.ts` | lock directories `sessions/<id>.lock` with `owner.json`, recovery markers, `localLeases` of the process | acquire, release, stale recovery, guard scan, preemption request, "is it active?" | everyone below takes a lease |
| Engineering Graph scheduler | `agent/graph-engineering.ts`, `graph-state.ts`, `graph-execution-errors.ts` | checkpoint `graphs/<id>.json`: results, active attempts, keys, pause reason; in memory: pending nodes, in-flight attempts | start, restart, resume, rerun, launch, retry, gate, wait, join, skip, cancel, abort, compensate, return | lease, control and signal mailboxes, handlers, child Graphs, recovery scan |
| Graph control mailbox | `agent/graph-control-store.ts` | `graphs/<id>.control.jsonl`, consumed sequence number in the checkpoint | enqueue, read after a number, compact | scheduler |
| Graph signal mailbox | `agent/graph-signal-store.ts` | `graphs/<id>.signals.json`: payload, creation time, claim | enqueue, claim, acknowledge, available? | wait nodes, recovery scan, restart |
| ready-node selection | `agent/orchestration-scheduler.ts`, `orchestration.ts` | none (pure) | scores, descendant closure | Graph, Loop DAG |
| Graph budgets, maps, routers, fan-in, worktrees | `agent/graph-engineering.ts`, `orchestration-worktrees.ts` | usage, map-item checkpoints, branches | reserve, share, settle, integrate | git, child Graphs |
| Graph migration | `agent/graph-migration.ts` | journal of a tree transaction, prepared files | plan, lease, prepare, commit, clean up, recover | checkpoints of a whole tree, their runs |
| executor capacity, remote runner | `agent/graph-capacity.ts`, `graph-remote-runner.ts` | reservations with expiry and fencing token; journal of results | reserve, renew, release, reconcile; execute, recover | scheduler, remote executors |
| artifacts, evidence, trust | `agent/graph-artifact-*.ts`, `graph-evidence.ts` | content-addressed blobs, signatures | put, read, collect, export | Graph results |
| Loop | `agent/auto-loop.ts`, `loop-state.ts`, `loop-control*.ts` | checkpoint `loops/<id>.json`: status, iterations, verification runs, pass streak, requirements; control mailbox | start, resume, recover, analyse, approve, verify, edit, roll back, review, pause, finish | Loop lease, agent, verifier commands, Graph |
| Loop lease | `agent/loop-lease.ts` | lock file, recovery marker file | acquire, recover, release | Loop, scheduler |
| Loop DAG | `agent/loop-dag*.ts` | nodes, resources, locks | start, settle, retry, cancel | Loops |
| orchestration control and rollouts | `agent/orchestration-*.ts` | frozen flag, rollouts, proposals, decisions | freeze, promote, roll back | Graph, Loop |
| agent tool loop, trace | `agent/loop.ts`, `trace.ts`, `context.ts` | messages, session trace | turn, append, compact, rewind | provider, tools, session lease |
| subagent dispatch | `packages/core/src/subagents/`, `agent/dispatch-tools.ts` | dispatch records with status, generation and flags; controllers; the queue for the edit lock | dispatch, send, ask, start, cancel, resume, settle, announce, deliver, dispose | tool loop and its runs, user, worktrees |
| memory | `packages/core/src/memory/` | fact files | add, merge, expire, maintain | session lease (re-entrant) |
| tools | `packages/core/src/tools/` | background commands, permissions | run, poll, kill | tool loop |
| MCP, LSP clients | `packages/core/src/mcp/`, `tools/lsp/` | pending requests | connect, request, time out | child processes |
| workspace state files | `packages/core/src/util/workspace-state.ts` | none | read, atomic replace, append | every store |
| server run ledger | `apps/server/src/run-ledger.ts` | `runs.jsonl`, event files, cached numbers | create, update, event, compact, cancel | several servers |
| server sessions, triggers, coordinator | `apps/server/src/` | sockets, schedules, reservations | | ledger, core |
| front ends | `apps/cli`, `apps/tui`, `apps/desktop`, `apps/vscode` | presentation | | server, core |

What is hard, per component, and what correctness means there:

* **Session lease.** Mutual exclusion out of `mkdir`, `writeFile`, `rmdir` and
  reads, between processes that die at any point. Recovery of a dead owner's lock
  must not remove a live one, however slow the recoverer is; the guard must
  exclude sessions that start behind its scan; acquisition must end.
* **Graph scheduler.** Durability: attempts are journaled before their handler
  runs; dependencies are on disk before dependants start; what has passed stays;
  every checkpoint can be loaded again (the loader is strict, and a checkpoint
  it rejects cannot be resumed, ever); a run settles what it started before it
  gives up its lease; idempotency keys survive crashes; retries are bounded over
  crashes; rollbacks keep their order. Liveness: the loop is never stuck, and a
  Graph that is resumed completes. The hard part is the number of control paths
  (pause, gate, wait, child Graph, cancel, abort, stop policy, compensation)
  that may meet in one round, each with its own checkpoints.
* **Signals.** A claim, the checkpoint of the workflow and an acknowledgement
  in two files, with a crash between any two of them, and restarts and reruns
  that change the checkpoint: each signal is to reach one wait, once.
* **Remote nodes.** Capacity is shared through reservations that expire: a renewal
  timer, a late result, a timeout, an abort and the release of the place race
  each other, and a process that dies leaves both its place and a run that goes on.
  Correct: no more runs than places, no place lost, no result computed twice.
* **Graph migration.** A transaction over several checkpoint files with a journal:
  it may stop between any two writes, its recovery comes later and beside
  runs of the same Graphs. Correct: the tree changes as one, what is prepared can be
  finished, and nobody's checkpoint is overwritten.
* **Loop.** What the result "passed" rests on: a verification may be skipped in part,
  cached, flaky, rolled back or older than the last edit, and gates come after it.
  What is spent counts over crashes, retries and resumes. Every run ends, though many
  of its parts try again.
* **Loop lease.** A second lock protocol, of files that are made first and filled later, whose
  recovery compares content and then removes. Correct: exclusive, visible, and what crashes leave
  is cleared in the turns there are.
* **Ledger, trace.** Cached sequence numbers of several processes, torn tails.
* **Dispatch.** One process, but many promises: executions settle after their record was
  cancelled or continued, approvals are answered late, agents in the background outlive the
  run that started them, and agents that edit take turns through a chain of promises that
  waits may leave. Correct: an outcome stands, a run cleans up and announces what it owes, one
  agent writes at a time, and the queue moves.
* **Background commands, MCP and LSP clients.** Callbacks inside one
  process: late settlements, `error` and `close`, timeouts that race answers.

`PROJECT.json` has the hazards with their lines, and which property covers each.

## 2. The modules

| module | models | lines of code it stands for |
|---|---|---|
| `SessionLease` | every file operation of lease, recovery marker and guard | `agent/session-lease.ts` |
| `ExclusiveLease` | what a lease promises: a name is owned by at most one running process, and the guard excludes sessions | the contract of `acquireSessionLease` |
| `GraphRun` | the scheduler with its checkpoints | `agent/graph-engineering.ts` 960-2513, loader of `graph-state.ts`, `graph-control-store.ts` |
| `GraphSignals` | mailbox, wait nodes, reconciliation, recovery scan | `agent/graph-signal-store.ts`, the wait part of `graph-engineering.ts` |
| `SignalDelivery` | what a mailbox promises: a sent signal is delivered to one wait, once | the contract of claim and acknowledge |
| `RunLedger` | the servers' append log of runs: repair, append, compaction | `apps/server/src/run-ledger.ts`, `appendProjectFile` of `config.ts` |
| `RemoteNodes` | remote attempts, the reservations they hold and the journal of their results | `agent/graph-capacity.ts`, the remote branch of `executeNode` in `agent/graph-engineering.ts`, `agent/graph-remote-runner.ts` |
| `TreeMigration` | the transaction over the checkpoints of a tree of Graphs, and its recovery | `agent/graph-migration.ts` |
| `LoopRun` | the autonomous Loop with its checkpoint, its resumes and recoveries | `agent/auto-loop.ts`, `agent/loop-state.ts` |
| `LoopLease` | every file operation of the Loop's lock file and its recovery marker | `agent/loop-lease.ts` |
| `Dispatch` | the dispatches of a session, their approvals and the edit lock, with the runs around them | `packages/core/src/subagents/manager.ts` and `isolation.ts`, `agent/dispatch-tools.ts`, the dispatch part of `agent/loop.ts` |
| `SessionLeaseProofs`, `GraphRunProofs`, `GraphSignalsProofs`, `RemoteNodesProofs`, `TreeMigrationProofs`, `LoopRunProofs`, `LoopLeaseProofs`, `DispatchProofs` | theorems (`SessionLeaseProofs` also those of `RunLedger`, whose writers take one of its leases) | |
| `MCSessionLease`, `MCGraphRun`, `MCGraphSignals`, `MCRunLedger`, `MCRemoteNodes`, `MCTreeMigration`, `MCLoopRun`, `MCLoopLease`, `MCDispatch` | small instances for TLC | |

### SessionLease

`target[n]` and `marker[n]` are the directories `<name>.lock` and
`<name>.lock.recovery`; a directory is known by its maker, by whether it is signed
(`owner.json` written), unsigned, or unsigned for longer than
`MALFORMED_LEASE_GRACE_MS`, and by whether its owner may be preempted. `held[p]` is
`localLeases`, `granted[p]` what callers of `p` were given and can release. `at[p]`
is the next file operation of `p`: one action of the module is one system call of
the code with the synchronous code up to the next. `acquireLease`'s loop of five
turns is `attempt`; the calls of `isSessionRunActive` before and after a session
lease, and the guard's scan, share the positions of the loop (`phase`). A process
that restarts has a new pid and start identity, so it is a new process. What vanishes between two
system calls is kept apart as the code does (`Missing`): it makes `isSessionRunActive` answer
"not active", and throws elsewhere.

Two constants name what the protocol depends on. `CrashInRecovery`: may a
process die while its recovery marker exists? `StallPastGrace`: may a live process
stall for 30 s between `mkdir` and the write of `owner.json`? With both
excluded (`Reliable` in the proofs) the protocol is correct for any number of
processes; with the first allowed it is not (section 3).

`ExclusiveLease` is the abstract specification: `running`, `owns`, and `Acquire`,
`Release`, `Die`. `SessionLease` implements it with `running <- alive`,
`owns <- granted`.

### GraphRun

`disk` is the checkpoint (status, pause reason, `completedAt`, results, journal of
active attempts); `results`, `active`, `pending`, `job` and the others are the
memory of one invocation of `runEngineeringGraph`, lost with a crash. `Loadable` is
the part of the loader's validation that depends on control (`graph-state.ts`
285-508), one named predicate per group of checks. `ResumeRun` is enabled only for a
loadable checkpoint, and only when each subgraph node that is still to run has a child with a
checkpoint (`ChildrenThere`, 1223-1230): `children` are those that have, from the first
checkpoint of the child's first attempt on (`ChildSaves`). The scheduler is single-threaded: `pc` walks through the
loop (controls, cancellations, settling, abort, waiting results, stop policy,
resolution of pending nodes, launch, race), and node attempts (`JobStep`) take
steps only where the code awaits (`Awaiting`). Each `emit` of the code rewrites
the checkpoint; the model has a step for each that can differ, so the process can
die between any two checkpoints. `Persist` is that write; the session lease makes
runs of one Graph exclusive, so they follow each other (module `SessionLease`
says what this rests on).

The model is of Graphs without budgets, deadlines, maps, routers, fan-in, managed
worktrees and remote nodes. What a handler, an approval callback or a wait
answers is a free choice. `keys` numbers idempotency keys instead of UUIDs;
`finished` orders completions instead of timestamps. Durations are left out: a
back-off may end at any time.

### GraphSignals

One Graph with only wait nodes. `mailbox` is the signals file, `disk` the
checkpoint, `minted` the signals that were accepted (sent), `admitted` senders between the check of
the Graph's state and the enqueue (two leases apart). A run picks waiting nodes
in order; a pick reads the clock, then claims, then decides; the claim, the
checkpoint and the acknowledgement are separate steps with crashes between them.
`Fallible` names the mailbox calls that may fail (`claim`, `ack`, `resume`,
`restart`): a failed acknowledgement on a resume only warns, one on a restart is swallowed.
`Large` are the signals whose payload does not fit the node's output together with
its id. The clock is bounded by `MaxTime`; a claim in the very millisecond of a
deadline is taken as timely, as the code takes it.

`SignalDelivery` is the abstract specification (`sent`, `pool`, `outcome`); the
mapping takes as `pool` the signals in the mailbox that are not already in a
result.

### RunLedger

`ledger` is `runs.jsonl` line by line, a line being a `RunRecord` or `Torn`;
`ended` says whether the last line has its newline, and `version` stands for the
file's identity (device, inode, size and time), new with every write. `cache[s]` is
`this.ledger` of server `s`: a line count and the identity it belongs to.
`hand[s]` is the record of an operation between `get`, which reads without the lease,
and the return; `pc[s]` separates the reads and writes of one operation at the
file, because a server may die between any two. Only the server that created a
run changes it (`ownsActiveRun`). `at` is the time of the change, on one clock for
all servers and without ties. A write may be cut off (`Tears`): within the record, or
just before its newline. `put` is the history of whole records. Compaction writes the newest
record of each run it retains by time, an order that is a relation (`InOrder`), not a sort. The event
files, the age limit of retention and the metrics are left out. `LedgerInit`, `LedgerNext` and
`LedgerSpec` have names of their own because the lease and the ledger share a module of proofs.

### RemoteNodes

Each node runs in a process of its own, since nodes of different Graphs share an
executor. `reservations` is the document `graph-executor-capacity.json`; an operation on it
runs under a session lease that does not wait, so it is one step, or finds the lease
busy (`ReserveBusy`, `Lose`, `ReleaseBusy`). `pc[n]` follows the remote branch of
`executeNode`: recover from the journal or reserve, launch, execute, finalize, release; then
`Settle` is what `withGraphTimeout` and `startNode` make of it, a retry under a new key
included. `token` and `due` are the handle and its renewal timer. `running` and `orphans`
are the runs at the executor, of a living process and of one that died; a run that
nobody awaits may still return and be journaled. Times count down to their end, so no
clock needs a bound: a reservation has `left` ticks, a timer fires at 0 and may be late
`MaxStalls` times. `abandoned` and `found` are history.

### TreeMigration

`checkpoint[g]` has the definition a Graph is at, an `id` that stands for
`engineeringGraphStateHash`, and as history the `base` its writer had read. `journal`
and `prepared` are the files of the transaction. A process first recovers what it
finds (`mode = "recover"`), then goes through the positions of `pc[p]`:

* `load`, `plan`, `collect`: it reads, without leases. `listEngineeringGraphTreeStates` (`Plan`,
  `PlanRefused`) reads the tree twice and throws when the readings differ, so what it answers was there
  at one moment; `collectTreeTargets` then reads the checkpoints again, file by file (`Collect`, with
  `unread[p]` still to come), and a Graph that is at the target by then takes no part, be it the root.
* `lock`, `check`, `build`: it takes the leases of those that take part in the order of their keys, and under them
  reads the journal and then these checkpoints again, but not the others.
* `undo` discards a journal that was not prepared yet; `prepare`, `commit` (deepest first, the root last) and
  `clean` are the transaction.

`copy[p]` is the plan and then the journal it works on, which gives each Graph that takes part its source and
its target; `Turn` and `Key` are the orders in which Graphs commit and leases are taken. A journal
without the root can be written and can never be read again (`Readable`). `outdated` is history: a transaction
began that did not have every Graph which its target changes, as these were by then. `Fail` ends a call
between any two steps, by an error or the death of the process, with its leases; a prepared file may
also survive its removal, which the code ignores (`Remove`). Beside the
migrations, a run resumes and settles the root and its subgraphs (`Resume`, `Settle`,
`Die`) and a priority is set (`SetPriority`): each writes a checkpoint.

### LoopRun

`disk` is the checkpoint of one Loop, `mem[p]` the state a call has in memory, `owner`
who holds the two leases (one step). A call comes from `runAutoLoop` (`Start`), from
`resumeAutoLoop` (`Resume`), or from `recoverInterruptedLoops` and the resume that
follows (`Scan`, `Look`, `Mark`, `Reload`); the last two read the state before they
have the leases, as the code does. `pc[p]` walks through analysis, approval, pre-check,
control, verification (`verify`, `stage`, `verified`), gates (`accept`, `review`),
iteration (`top`, `edit`, `guard`) and end; `at[p]` says what a verification is for
(pre-check, iteration, or a check after a rollback). `Save` is `persist(…, true)`,
`Keep` is `persist` with its interval: the file may or may not be written. `SkipStage` is an
incremental pass that skipped stages or was answered by the cache, after which the
whole plan runs. Money, tokens and time are a budget that may end wherever
the code asks for it; the number of verifications is counted. What a command, the
agent or a reviewer answers is free. `passes`, `checks`, `ran` and `stale` are
history: full passes and checks since the workspace last changed, commands started,
and whether a call went on from a checkpoint that was replaced after it had read it.

### LoopLease

`lock` and `marker` are the files `.<loop>.lock` and `.<loop>.lock.recovery`; a file is
known by its maker and is empty, signed (the owner's token is written) or aged (empty for
longer than `MALFORMED_LOCK_GRACE_MS`). What the code compares is content, so
all unfinished files are alike (`Unfinished`); `seen[p]` is the content read before. `at[p]`
is the next system call, `attempt[p]` the turn of the loop, `granted` the processes whose
caller has a handle. `serialized`, which is chosen at the start and never changes, says whether
callers hold the Loop's lifecycle lease (a session lease) around the call: every caller in the repository does (`agent/auto-loop.ts` 848-857,
`agent/loop-state.ts` 959-970), the exported function does not ask for it. `CrashInRecovery` and
`StallPastGrace` are those of `SessionLease`. The abstract specification is `ExclusiveLease` again.

### Dispatch

The manager of a host that keeps it for the session (`sessionScoped`). `status`, `background`,
`from`, `delivered` and `terminalEmitted` are the fields of each record (`from` is
`generation`); `at[c]` is where its execution awaits: the hooks, the lock, the nested run, the
review of an isolated change, the lock again, the patch, or the settlement of its promise. A
controller is aborted exactly when the record is cancelled, and is there until the
execution has settled, so neither needs a variable. `generation`, `phase` and `stopped` are of the newest run:
it takes the outcomes of earlier runs (`Begin`; none if its prompt hook blocks it), announces those that have ended
when it opens (`Open`), takes turns, closes (`EndRun`, `FinishRun`) and is followed by another or by the
end of the session. Between the two, `earlier` are the outcomes it owes an event; a call that throws there, or
a consumer that returns, ends the run without events and without cleanup (`OpenFails`), because the code that cleans up
begins later (`agent/loop.ts` 932, 1311, 1364). `asks[c]` counts the prompts for
`c` that await an answer: a call checks the status before it asks and starts or
continues the dispatch after it, and any number of steps may come between. `tail` is the entry
of `editLocks`, `ahead[c]` whom a wait is chained behind; `Release` removes the entry if
it is the leaver's own, wherever the leaver stood. `missed` and `forgotten` are history: outcomes that `agent_result`,
or a run that never opened, gave away before their event, and whether the entry was removed while others still held or awaited the lock. What an agent, a user or a hook
answers is free. Teams, reports, steering, usage and a manager of one run only are left out.

## 3. The runs

Passing runs:

| run | instance | shows | states, time |
|---|---|---|---|
| `SessionLease` | 3 processes, one session and the guard, two may die, 2 turns | `Exclusive`, `GuardExclusion`, `OnlyOwnerRemoves`, refinement `ImplementsLease` | 554 111, 26 s |
| `SessionLeaseCrash` | 4 processes on the guard, may die also in recovery | `OperationsEnd`: every operation returns or throws | 238 919, 105 s |
| `GraphRun` | work, a gate and a subgraph side by side, a wait behind two of them; 2 runs, a crash, a pause, resume or cancel, abort, restart and rerun | `Journaled`, `NeverStuck`, `CommittedStays`, `SettledBeforeRelease`, `ReturnsLoadable`, `RunEnds` | 491 269, 45 s |
| `GraphRunRecover` | diamond with retries and two compensations; crash anywhere | `DependenciesCommitted`, `Recoverable`, `RetryLimit`, `RollbackOrder`, `SameKey`, `Completes` | 69 079, 8 s |
| `GraphSignals` | 2 waits of one name (a deadline, a timer), 3 signals, mailbox of 2, crash or failure, restart, recovery scan | `DeliveredOnce` (refinement), `DeadlineKept`, `Wakes` | 112 965, 17 s |
| `RunLedger` | 2 servers, 2 runs, 5 operations, compaction past 2 lines keeping 1 ended run, one failed or cut-off write or death | `CacheSound`, `Acknowledged`, `OneOutcome` | 472 511, 47 s |
| `RemoteNodes` | 2 nodes, one may retry, one executor with one place; a crash, a late timer, one timeout or abort | `SlotsHeld`, `Accounted`, `NotRepeated` | 3 359 271, 63 s |
| `TreeMigration` | 2 processes, a root with two subgraphs, 3 definitions, two failures (a death or error between two steps, or a file that cannot be removed); 4 calls, or 2 and a run of the Graph or a change of priority | type with the leases, `Together`, `CanRollForward`, `NothingOverwritten` | 1 788 953, 67 s |
| `LoopRun` | 2 processes, 3 calls, confirm mode, code review, rollback, 2 stable passes, 1 flaky and 1 agent retry, 1 recovery, 2 iterations, 4 verifications; a crash, a pause | `PassedSound`, `LimitsKept`, `RunEnds` | 597 735, 95 s |
| `LoopLease` | 4 processes, 3 may die, 3 turns; with the lifecycle lease and death anywhere, or without it and no death inside a recovery | `Visible`, refinement `ImplementsLease`, `NotRefused` | 198 568, 12 s |
| `Dispatch` | 2 agents that edit, one isolated that is asked for; 2 runs, 3 calls | `OneEditor`, `QueueSound`, `OutcomeStands`, `CleanEnd` | 5 370 315, 85 s |

The runs do not check again the type invariants, which are all proved; that of `TreeMigration` is in
its run because it also says which leases a call has.

Bounds, and why they are enough. Three processes are what a race of recovery needs: the
dead owner, and two that recover; four are needed to fail the signing of a
marker, because it takes one process that owns the marker and one that has
removed it as stale in between. Two turns of the loop are needed to retry once; a
third repeats the second. Graphs of four or five nodes have each kind of node beside,
before and behind another; a run is resumed once, because a resumed run keeps
nothing but the checkpoint, and the checkpoints of the first run that it may meet
are all explored.
In `GraphRun` commands cancel one node only (`Cancellable`), for the others would meet
one of the disagreements below. One command and one abort per behaviour reach every pair of a control and
another event. A mailbox of two with three senders fills up. In `RunLedger` five
operations are what it takes to create two runs, end one, compact and write again; two
servers are a writer and the peer whose cache it makes stale, and they and the runs
are interchangeable (symmetry, of safety properties only). In `RemoteNodes` one place
for two nodes is contention at its limit, a life of three ticks makes the renewal
interval one tick, and one late tick is what separates a renewal in time from one that
finds its place gone. In `TreeMigration` one definition changes both subgraphs and another only one, so that
participants differ; a plan is outdated only by two migrations that another process completes while it is read, so
three calls are needed for that, and the fourth recovers or goes on beside them; or two calls are
one that fails and one that recovers it, with the other save at any point (`MayTouch`). In `LoopRun` three calls are a run, a recovery and a resume; four
verifications end within one iteration with retries and stable passes, so
the limit is met in every phase; two iterations have a second edit after
everything an iteration leaves behind. In `LoopLease` a fourth process is needed to sign a marker
while two others race; three turns are what a stale marker, a stale lock and the new lock
take, of six in the code. In `Dispatch` three agents are a holder, one that waits and one that
is cancelled in between; two runs have a dispatch that outlives the first, and three calls are two
agents and one continued, or three agents; a run that fails before it opens, between two others, needs a
third and is left to the theorem `RunsEndClean`. In `GraphRunRecover` every node but the first depends on others, so that `DependenciesCommitted` has
what it speaks of. Deadlock is not
checked (`CHECK_DEADLOCK FALSE`) where the bounds on runs, crashes and commands end
all behaviours: the system really stops there.

Every property has a mutant, a plausible bug in the code of one definition, that TLC finds under the
run's own configuration. Some of those bugs: recovery without a second look at the
lease under the marker (`ReadUnmarked`), a handler called before its attempt is
journaled (`StartAttemptUnsaved`), an abort that returns before it has settled
(`ReturnCancelledEarly`), a claim that removes the signal at once (`ClaimTakes`), a line
count that is trusted after a peer's write (`CurrentOnce`), a verification that is charged
when the checkpoint is next due (`ChargeLate`), a commit that compares definitions
only (`LoadsDefinition`), a launch that does not ask the journal (`ReservingAnew`).

One run expects a violation. It checks what the documentation says of the code, and TLC shows
how the code breaks it: `DispatchEdits`, three agents that edit, `EditsExclusive`. The first holds
the edit lock, the second waits for it and is cancelled; as the last of the queue it takes the
entry of `editLocks` away, and the third, finding no entry, writes beside the first
(`packages/core/src/subagents/isolation.ts` 82). In `Dispatch` `OneEditor` says that this is the only way:
without it the lock holds (and does for any number of agents, by `OneEditorAlways`).

Further disagreements the modules show, without a run of their own; each is
found by the property named when the constants of a passing configuration are changed as said:

| what happens | module, property | constants |
|---|---|---|
| a plan is read while another process migrates the tree to the same target and then on to the next: the call has read the root at the target and a subgraph behind it, takes the lease of that subgraph alone, and commits it under a root that is elsewhere; the journal it leaves does not end with the root, can never be read again (768), and every later migration or recovery throws (`agent/graph-migration.ts` 1038; `docs/graph-engineering.md` 317). `Together` says that a plan out of date is the only way to that | `TreeMigration`, `Whole` | those of the run, no failure needed |
| a Graph pauses at a gate before a subgraph was ever started: its checkpoint loads, but the resume that approves the gate throws, for the child has no checkpoint. The same guard stops a resume after a crash before the child's first checkpoint, one of a Graph that was cancelled before it came to a subgraph, and a rerun of an earlier node unless the subgraph is named too; a restart is left (`agent/graph-engineering.ts` 1223-1230; `docs/graph-engineering.md` 207) | `GraphRun`, `PausedResumes` | those of the run `GraphRun`, or a gate before a subgraph and nothing else |
| a cancelled node whose dependencies are pending, then a pause: the paused Graph can never be loaded again (`agent/graph-engineering.ts` 1884; `docs/boundary-checklist.md` 2814) | `GraphRun`, `ReturnsLoadable` | two nodes in a chain, the second in `Cancellable`, two commands |
| a process dies holding the recovery marker; the removal of that marker is not serialised (`agent/session-lease.ts` 223; `docs/boundary-checklist.md` 1040), and two processes get one lease | `SessionLease`, `Exclusive` | `SessionLeaseCrash.cfg` |
| the pass streak is only set by verifications, never by an edit: after two green passes and a review that fails, the agent edits the workspace, and one single pass of it ends a Loop that asks for two (`agent/auto-loop.ts` 1561; `docs/loop-engineering.md` 314) | `LoopRun`, `StableKept` | `Mode = "quick"` |
| `agent_result` tells the model of a background dispatch of an earlier run before the next turn does: its terminal event is never emitted (`agent/dispatch-tools.ts` 854; `docs/subagents.md` 201) | `Dispatch`, `CleanEnd` without `missed` | |
| a run takes the outcomes of earlier ones and then fails, or its consumer returns, before it opens: their terminal events are never emitted and no model is told of them (`agent/loop.ts` 932, 1311; `docs/subagents.md` 201) | `Dispatch`, `CleanEnd` without `missed` | |
| stop policy: nodes are skipped while another that failed beside them leaves siblings in flight, among them what the skipped ones depend on; a crash, or a rerun and a gate that waits, then leaves a checkpoint the loader rejects (hence `StopNodes` and `Cancellable` of `GraphRun.cfg`) | `GraphRun`, `Recoverable`, `ReturnsLoadable` | more nodes in `StopNodes` beside others |
| a pause, or a gate's pause, is written while sibling attempts are active | `GraphRun`, `Recoverable` | a command `pause`, two nodes at once |
| an abort leaves a running checkpoint that still has a pause reason | `GraphRun`, `Recoverable` | `MayAbort`, a gate or wait |
| abort of a Graph with compensation nodes: a cancelled checkpoint without their results | `GraphRun`, `ReturnsLoadable` | `MayAbort`, a compensation node |
| a wait pauses after a child Graph paused while the parent settled: both kinds of waiting in one checkpoint | `GraphRun`, `ReturnsLoadable` | a wait beside a subgraph |
| after a crash a run pauses before a retry that was interrupted goes on: the paused checkpoint still has the waiting attempt, and the loader rejects it (1341, 1907) | `GraphRun`, `ReturnsLoadable` | retries and a crash beside a gate, or a command `pause` |
| after a crash a run pauses before it has started the interrupted node again: the key it was to keep is in memory only, and the next resume makes a new one | `GraphRun`, `SameKey` | a crash, `"pause"` in `Operations`, three runs |
| a second crash in the resume's first checkpoint: the interrupted handler is called with a new key (1341; `docs/graph-engineering.md` 199) | `GraphRun`, `SameKey` | two crashes |
| the recovery marker vanishes between `existsSync` and `snapshot` after the lease was made: acquisition throws, and the lease stays with a live process that has no handle to it (`agent/session-lease.ts` 221, against 344 and `docs/boundary-checklist.md` 3681) | `SessionLease`: a process at `idle` with `held` but nothing `granted` | `SessionLeaseCrash.cfg` |
| a record cut off just before its newline counts as valid, the next server's record is written onto its line, and neither can be read (`run-ledger.ts` 162; `docs/boundary-checklist.md` 930) | `RunLedger`, `Acknowledged` | `"unterminated"` in `Tears` |
| a resumed attempt finds its dead process's reservation and keeps its old time of expiry: it ends before the first renewal, and two attempts run at a capacity of one (`agent/graph-capacity.ts` 107; `docs/graph-engineering.md` 213) | `RemoteNodes`, `SlotsHeld` without `~found[n]` | |
| the root of a tree is resumed, or its priority set, between the crash of a migration and its recovery: the recovery conflicts, now and for ever (`agent/graph-migration.ts` 943; `docs/graph-engineering.md` 317) | `TreeMigration`: `CommitRefused` while the journal is `prepared` | |
| a resume, or a recovery, goes on from a state that it read before it had the leases: spending that another call added since is forgotten (`agent/auto-loop.ts` 2324, `agent/loop-state.ts` 834; `docs/loop-engineering.md` 186, 194) | `LoopRun`, `LimitsKept` without `~stale` | |
| outside the lifecycle lease, a process dies in a recovery: two others that find its unfinished marker may remove a third one's, and then a live lock (`agent/loop-lease.ts` 122; no caller of the repository is there) | `LoopLease`, `Visible` | `CrashInRecovery` in `LoopLease.cfg` |
| a payload near the limit hides the signal's id in the result: a claim that a crash left is not retired, and a restart delivers the signal again | `GraphSignals`, `DeliveredOnce` | `Large` |
| a failure to retire claims at a restart is swallowed | `GraphSignals`, `DeliveredOnce` | `"restart"` in `Fallible` |
| a rerun drops the result before claims are reconciled, and the wait consumes the signal again | `GraphSignals`, `DeliveredOnce` | `MayRerun` |

What else the modules show of the code, without being against a document: a release that
finds the lease busy throws out of `finally` and fails an attempt whose result was
verified (`agent/graph-engineering.ts` 810), and its place is lost until it expires; a busy
lease at a renewal ends a healthy attempt; a place lost during `finalizeRemoteResult` is
ignored; a run whose place was lost is asked to stop and not awaited. A pause or a steering message that
was consumed and not yet checkpointed is lost with the process. Whether the run that started an isolated
agent is still there is asked before the review and the wait for the lock (`agent/dispatch-tools.ts`
543), so a change may still be applied once that run is over, in `Dispatch` a step `Applied` of a dispatch that
is no longer `Attached`. Outcomes count as delivered before the run that takes them is certain to
start its first turn (`agent/loop.ts` 932; an abort in between loses them for the model). A
cancelled dispatch that still cleans up does not count as running for the server, which may
dispose of what its run uses (`apps/server/src/session-dispatch.ts` 34).

`Recoverable` ("a crash at any time leaves a checkpoint that loads") is therefore
checked where none of these paths is enabled (`GraphRunRecover`), and
`ReturnsLoadable` with a cancel of an independent node only, and without compensation and waits beside subgraphs. That
a checkpoint loads does not yet mean that it can be resumed: `PausedResumes` is the difference.

### Fairness

`SessionLease`'s `FairSpec` has weak fairness of each process's `Continue`: an
operation is synchronous code, so a process that runs finishes it; nobody is
bound to start or release anything. `GraphRun`'s `FairSpec` has weak fairness
of the scheduler's `Step` (synchronous between awaits, and it awaits bounded
calls) and of each node's attempt (a handler settles: it has a timeout or answers its abort
signal). `RecoverySpec` adds that somebody starts the Graph and that an idle
process resumes it after a crash, which is what the idle recovery scan does.
`GraphSignals`' `FairSpec` has the scheduler's steps and the periodic scan, and no
fairness of senders, the clock or crashes. `LoopRun`'s `Spec` has weak fairness of the
steps of each call, because the code awaits only commands, agents and reviewers that
have timeouts; nobody has to end a pause, start a call or crash. `RemoteNodes`,
`TreeMigration`, `RunLedger`, `LoopLease` and `Dispatch` have safety properties only; that waits
for the edit lock come to an end is `QueueSound` in the last, which has the chain shrink towards an agent that writes.

## 4. The proofs

TLAPS (SMT, Zenon, LS4) checks the following for every value of the constants that
satisfies the modules' assumptions.

`SessionLeaseProofs`, for any set of processes and sessions and any number of turns:

* `TypeCorrect`: `Spec => []TypeOK`.
* `MutualExclusion`: with `Reliable`, `Spec => []Exclusive`. `Exclusive` is not inductive: it
  says nothing of files. The invariant `LeaseInv` adds that a granted lease is
  held and its directory is on disk, signed by its holder (`LeaseOnDisk`), that a lock
  has aged only if its maker is dead (`AgedIsDead`), that a process inside recovery
  owns the marker there is (`MarkerOwned`), and that it is about to remove a lock only
  if that lock is still the dead owner's it read (`RemovesDead`); `OpShape` relates position
  and arguments of an operation. `Reliable` enters where an unsigned marker or lock
  of a live process would count as stale.
* `GuardExcludes`: with `Reliable`, `Spec => []GuardExclusion`. The invariant is
  strengthened by `NoneMissed`: while a guard scans, a session that others hold is
  still to be looked at, or its holder has yet to look for the guard.
* `Refinement`: with `Reliable`, `Spec => ImplementsLease`; each grant is an abstract
  `Acquire` whose guard follows from the two invariants.
* `OwnersRemove`: with `Reliable`, `Spec => OnlyOwnerRemoves`. Four system calls remove a directory
  (`WhoRemoves`); `LeaseInv` excludes the error path of a signature, and a recovery of what lives.

The module's last part is about the run ledger, for any servers, runs, number of operations, faults
and limits of compaction:

* `LedgerTypeCorrect`: `LedgerSpec => []LedgerTypeOK`, whatever a write may leave.
* `CachesAreSound`: with `Detectable` (a write is cut off within its record, `Tears \subseteq {"partial"}`),
  `LedgerSpec => []CacheSound`. `Trusts` says what a server may rely on: a cache that has the file's
  identity has its number of lines, and nothing in the file is broken or unfinished; who is
  past the repair has such a cache, and what a compaction is about to write is what the file
  shows. The others keep that (`OthersTrust`), because a file changes only under the lease and
  then has a new identity.
* `WritesAreKept`: with `Detectable`, `LedgerSpec => []Acknowledged`. A step leaves what readers see, but
  for ended runs that a compaction drops (`Unseen`), or adds the record in hand (`Shown`); `Effects`
  shows that there is no third kind. That rests on lemmas about the sequence of lines: what an
  append shows (`AppendShows`), that neither a torn line nor its repair hides a record
  (`TornHidesNothing`, `RepairHidesNothing`), and that a list in order shows what it was made
  of (`ListShows`).
* `RunsEndOnce`: with `Detectable`, `LedgerSpec => OneOutcome`. `HandInv` says that a record in hand is its
  creator's, no older than the one readers see, and never a second end of its run (`Supersedes`); the creator
  is the only one to change a run, so what it read without the lease is still so when it has the lease.

`GraphRunProofs`, for any Graph without a cycle, any limits and any number of runs, crashes and
commands. `Inv` says that while a scheduler owns the Graph its checkpoint has every
change (`Mirrored`), that what is still to do has neither result nor promise (`Unsettled`), how
promises and the attempts in the journal belong together (`Promised`), and where nothing may be
in flight (`Alone`).

* `AttemptsAreJournaled`: `Spec => []Journaled`; `PassedIsKept`: `Spec => CommittedStays`;
  `NothingLeftBehind`: `Spec => SettledBeforeRelease`.
* `TypeCorrect`: `Spec => []TypeOK`, in four parts (`Typed`). The clock is a maximum over the
  nodes; that a finite set of numbers has one (`MaxExists`) follows from the library's
  well-foundedness of finite sets under inclusion.

The second part of the module goes on from there:

* `AlwaysProgress`: `Spec => []NeverStuck`. `Covered` says that no node is forgotten: it has a
  result, a promise or is to be done. Of the pending nodes one depends on no other pending node
  (`AcyclicAssumption`, which `agent/graph-contract.ts` 956-967 enforces); it is ready, unless it
  depends on a compensation, which `GraphAssumption` excludes.
* `RollbackInOrder`: `Spec => []RollbackOrder`. `Rollback` says that compensations are started
  exactly when the forward work is over, each for an effect that is there and before all that are left.
* `DependenciesFirstCommitted`: with `Forward` (no waits, and compensations depend on forward
  nodes only), `Spec => []DependenciesCommitted`. `Fit` is what holds of every started node's
  dependencies; past the top of its loop the scheduler has no result that waits. With a wait that is not so: the
  stop policy goes on after the wait has settled a child Graph that paused.

The third part is about what a later run has of an earlier one. Its premises, sets of Graphs and of
bounds, leave out the paths of the table of disagreements and nothing else; `GraphRunRecover` satisfies
all but `Calm`.

* `AttemptsAreLimited` and `KeysAreKept`: with `Unattended` (nothing pauses, nobody aborts) and `DiesOnce`
  (one crash, no rerun), `Spec => []RetryLimit` and `Spec => SameKey`. `Keyed` says where the number and key of
  an interrupted attempt are, from the checkpoint over the memory of the next run to the job that goes
  on with it; `FirstLife`, that before the crash each node has had the keys of its attempts and no more.
* `CrashesAreRecoverable`: with `Undisturbed` (`Forward`, no stop policy, nobody cancels, aborts or reruns) and
  `Unattended`, `Spec => []Recoverable`, for any number of crashes. A checkpoint loads when its results
  and active attempts fit the definition (`Grounded`: a node that started has what it
  depends on, attempts within its retries), and when its status and its reason to pause say the same (`Standing`).
  `Steady` is the order in which a round moves nodes from pending to result.
* `ReturnsAreLoadable`: with `Undisturbed` and `Calm` (no crash, or no retries), gates, subgraphs and
  commands to pause included, `Spec => ReturnsLoadable`. `Unbroken` says that without a crash no
  attempt is in the journal that is not under way, so that a run that returns has none (`Resting`). It says that
  the checkpoint loads, and nothing of the children that a resume asks for as well.

`GraphSignalsProofs`, for any waits, names, signals and limits:

* `TypeCorrect`, which has the bound of the mailbox.
* `Refinement`: with `Dependable` (`Large = {}`, restarts reconcile, no reruns),
  `Spec => DeliveredOnce`. The invariant says that results have distinct signals that were sent
  (`Owned`), that a claim stays with its wait until its result is stored (`ClaimStays`), that a signal in a result is
  claimed or gone (`Retired`), what is in the hands of a run at each position (`InHand`)
  and that reconciliation misses nothing (`NothingMissed`). Each of the three exclusions is
  needed: they are the three rows of `GraphSignals` in the table of disagreements.
* `Deadline`: with `Dependable`, `Spec => DeadlineKept`.

`TreeMigrationProofs`, for any tree, any definitions in which the root's tells the rest, and any number of
processes, calls, failures and other saves:

* `TypeCorrect`: `Spec => []TypeOK`.
* `RootActivates`: `Spec => []Together`. Two invariants carry it. `Ledger` holds whatever the plans were: journals that
  are alike have the same participants (`Agreed`), what a journal replaces is older than what it makes
  (`Numbered`), and what a call has at each position agrees with the files (`Stage`). `TreeInv` holds until a
  transaction begins on an outdated plan, so what is preserved is `TreeOK`, that is `outdated \/ TreeInv`. It has
  `Recorded`, where the tree is by the phase of the journal: at one definition (`At`), or, with a journal that is not
  resolved, between two, of which the journal changes exactly what differs (`Brings`), and if the root is at
  the second all are (`Between`); and `Called`, that who is at work on a journal has the one on disk, and that who is about
  to begin beside it has none of its leases. The plan is no part of the invariant, since it is read
  without leases. What is needed of it follows at the moment it begins (`PlanFits`): the
  definitions that are read again under the leases, and that nothing it left out has changed, which is what
  `outdated` denies.
* `PreparedRollsForward`: `Spec => []CanRollForward`, and `SavesFromLatest`: `Spec => NothingOverwritten`, from
  `Ledger` alone, so for outdated plans too: `Filed` says that what is left to commit is in its prepared file,
  `Remembered` why a run that ends saves what it has in memory over its own checkpoint.

`LoopRunProofs`, for any number of processes, calls, crashes and pauses, any mode and any limits:

* `TypeCorrect`: `Spec => []TypeOK`: the types, the limits of the counters in every
  checkpoint, and that exactly the call past its leases owns the Loop. `Room` is what it
  lacks: an edit is reached only with an iteration left, and a call is for the
  pre-check until it has verified once.
* `PassIsSound`: `Spec => []PassedSound`. `PassedSound` speaks of the end of a run; `Checked`
  says, position by position, what was checked since the workspace changed
  (`verified` before the gates, `acceptance` before the code review, all before
  the end) and that every working call has its approval. `Frame` is the lemma that a step of
  one call, which does not own the Loop together with another, leaves the others' facts.
* `BudgetIsKept`: `Spec => []LimitsKept`. `Charged` relates the history to the file: as long
  as nobody uses a replaced checkpoint, what ran is at most what the file has been
  charged, strictly less while a command runs, and the owner's memory agrees with
  the file.

`RemoteNodesProofs`, for any nodes, executors, capacities, retries, faults and any length of a
reservation of at least three ticks:

* `TypeCorrect`: `Spec => []TypeOK`. `Control` has what each attempt knows by position (a
  handle only between launch and release, a key not running before it is launched), `Store`
  that the document's tokens were made and that ids and tokens are distinct. An operation on
  the document removes (`StoreSubset`), adds one below both limits (`StoreNew`), or moves times
  of expiry (`StoreMoved`); the last needs that the image of a finite set is no larger
  (`Onto`).
* `CapacityHolds`: `Spec => []SlotsHeld`. The first part is `Fits`; the second needs
  `Punctual`: until the first late timer the reservation of an attempt outlives its renewal
  timer (`Outlives`), and no reservation in use counts as abandoned.
* `NothingLeaks`: `Spec => []Accounted`, from `Control` and `Store`.
* `ResultsAreKept`: `Spec => NotRepeated`; `Keyed` is why no result of the key can arrive
  between the look at the journal and the launch.

`LoopLeaseProofs`, for any number of processes and turns:

* `TypeCorrect`: `Spec => []TypeOK`.
* `GrantedIsVisible` and `Refinement`: with `Reliable` (no death inside a recovery, no
  stall), `Spec => []Visible` and `Spec => ImplementsLease`, with no lifecycle lease. `LeaseInv`: the lock on disk
  is that of whoever has it or is about to (`OwnsLock`), the marker that of the one process in
  recovery, so that no marker is ever stale (`OwnsMarker`), an aged lock is a dead
  process's (`AgedIsDead`), and a lock about to be removed is stale (`RemovesStale`). That
  content is enough to compare follows from `AgedIsDead` and the second look at liveness; that the marker is
  looked at again once the lock is made turns out not to be needed for exclusion.
* `SerializedRefinement`: when `serialized`, `Spec => ImplementsLease`, whatever deaths and stalls leave.
* `OnlyUnfinishedRefuses`: with three turns or more (six in the code), `Spec => NotRefused`, again whatever deaths
  and stalls leave. `Turns` counts: a turn is spent on a marker that was left, one on a lock, and the next one
  makes the lock; `Alone` says what the process knows of the files at its position, because nobody else is there,
  and `Remains` that a process which lives leaves no file behind.

`DispatchProofs`, for any number of dispatches, runs and calls:

* `TypeCorrect`: `Spec => []TypeOK`.
* `QueueIsSound` and `OneEditorAlways`: `Spec => []QueueSound`, `Spec => []OneEditor`. Neither says
  what the entry of `editLocks` is. `Chain` adds that only who waits is behind others and that the entry
  is somebody in the queue; `Ordered`, which holds until the entry is forgotten, that of any two in
  the queue one is behind the other, and that the entry is the last of them.
* `OutcomesStand`: `Spec => OutcomeStands`, from `Recorded`: a record is running only while its execution lives,
  and while it lives the record is running or cancelled, which neither settlement nor `resume` changes.
* `RunsEndClean`: `Spec => CleanEnd`. `Announced` says of the time before the end what is announced already:
  what has ended beside its run, and what the model was told without asking, unless it is cancelled and will be, is
  among the `earlier` outcomes of a run that has yet to open, or was `missed`. `Quiet`: until a run opens no prompt awaits
  an answer, and no dispatch is its own.

The assumptions are constants of the modules, so the premise of each theorem is the
configuration of a passing run, and the disagreements above show that it is needed;
the theorems about `LoopRun`, `RemoteNodes`, `TreeMigration` and, up to `RollbackInOrder`, `GraphRun` have none but the assumptions on their constants.
One premise is no run's: `ReturnsAreLoadable` leaves out cancellations, aborts and reruns, which the run `GraphRun`
has beside its own choice of nodes; the theorem covers the Graphs and retries that the run does not.

Only model-checked: liveness (`OperationsEnd`, `RunEnds` of both engines, `Completes`, `Wakes`), which
together with ENABLED is out of this prover's reach. Every safety and action property of the
passing runs is a theorem. Out of reach of the installed provers are also induction over data and RECURSIVE
operators; the modules have none of the latter, the descendant closure of `GraphRun` being a
recursive function, and that a set of records can be put in order is never needed, as the model of a
compaction takes any list that is.

## 5. Not modelled

`PROJECT.json` lists every component with its status. In short: the front ends,
provider, hooks, plugins, telemetry and text processing have no protocol of their own, and they are
by far the largest part of the code; validation of definitions is assumed; Windows semantics,
symbolic links, permissions and replaced directories are left out of the file operations, and
a file read or an atomic replace is one step.

Of the components that are modelled in part:

* `GraphRun`: budgets, deadlines, maps, routers, fan-in, managed worktrees.
* `RunLedger`: the event files with their sequence numbers cached per process (after an event
  that was written in part the cached number skips the repair, `run-ledger.ts` 382), replay
  cursors, the age limit, metrics.
* `RemoteNodes`: transfer of files, verification of provenance, the limits that an adapter
  keeps within its process.
* `TreeMigration`: the migration of a single Graph, removal and restart of Graphs, the repair of
  archive and history, subgraphs created between the plan and the leases.
* `LoopRun`: steering and the files of the control mailbox, removal, priorities, the back-off of
  recovery (a candidate is always eligible), delivery, failed writes, limits that a resume
  raises, and edits of the workspace by others while no run owns the Loop.
* `Dispatch`: teams (dispatches that wait for others), reports and steering with their limits, usage,
  a manager that lives for one run only, and nested runs, which are one step each.

## 6. Plan

Done, in this order; each module takes `SessionLease`'s promise (`ExclusiveLease`) for the
leases it uses: `SessionLease`, `GraphRun`, `GraphSignals`, `RunLedger`, `RemoteNodes`,
`TreeMigration`, `LoopRun`, `LoopLease`, `Dispatch`, and the theorems about leases, the scheduler,
signals, remote nodes, tree migrations, the Loop, dispatches and the ledger.

What would add most from here:

1. `RunEvents`: the event files beside the ledger.
2. The composition of `LoopLease` with `LoopRun`, whose two leases are one step so far.
3. `GraphControl`: the durable mailbox with sequence numbers, consumption, compaction; to
   replace the sequence in `GraphRun`, and the mailbox of the Loop beside it.
4. Teams in `Dispatch`; `Background`, `McpClient`, `TraceLog` (torn tail), `MemoryLease`.
5. `LoopDag` (`agent/loop-dag.ts`), rollouts and the frozen controller; `Selection` and `Budget` as pure operators.
6. What a Graph with waits commits of its dependencies: `DependenciesFirstCommitted`, `CrashesAreRecoverable`
   and `ReturnsAreLoadable` are proved for Graphs without (`Forward`).

Hazards met on the way that such modules are to take up: shares of the token budget of
parallel nodes (`agent/graph-engineering.ts` 2317); a directory replaced between check and write
(`packages/core/src/util/workspace-state.ts` 116); compaction of the Loop's control mailbox
(`agent/loop-control-store.ts` 111); a background command whose exit and
kill meet (`packages/core/src/tools/background.ts` 214); an answer that comes after its
timeout (`packages/core/src/mcp/client.ts` 343); a torn tail under a later append
(`agent/trace.ts` 488); a signal that is admitted for one generation of its Graph and consumed in the
next (`agent/graph-signal-store.ts` 94); a run of a server that died, which stays `running` and no
other server may cancel (`apps/server/src/routes/runs.ts` 396).
