------------------------------- MODULE Dispatch -------------------------------
(***************************************************************************)
(* Subagents of one session: the dispatch manager (subagents/manager.ts)   *)
(* of a host that keeps it for the session, the dispatch tools of the      *)
(* runs of that session (agent/dispatch-tools.ts), the part of each run    *)
(* that starts, delivers to and cleans up after them (agent/loop.ts), and  *)
(* the edit lock of the workspace (subagents/isolation.ts).                *)
(*                                                                         *)
(* Everything is one process; a step is the synchronous code between two   *)
(* awaits.  A dispatch outlives the run that started it when it was begun  *)
(* in the background.  Left out: reports, steering, usage, the text of     *)
(* events, teams (several dispatches in an order), and what an agent does. *)
(***************************************************************************)
EXTENDS Naturals, FiniteSets

CONSTANTS
    Call,      \* dispatches
    Mode,      \* [Call -> Modes]: what the agent of each may do
    Prompting, \* the modes whose agents are asked for: none when the approval
               \* mode is "auto"
    NoCall,    \* no dispatch
    MaxRuns,   \* bound: runs of the session
    MaxCalls   \* bound: calls of dispatch_agent and agent_send

(* An agent reads only, edits the workspace, or edits a worktree of its own *)
(* whose change is then applied to the workspace.                           *)
Modes == {"ask", "edit", "isolated"}

ASSUME ModeAssumption == Mode \in [Call -> Modes]
ASSUME PromptingAssumption == Prompting \subseteq Modes \ {"ask"}
ASSUME NoCallAssumption == NoCall \notin Call
ASSUME BoundAssumption == {MaxRuns, MaxCalls} \subseteq Nat

VARIABLES
    generation,      \* runs begun
    phase,           \* of the newest run, "over" when the session is
    earlier,         \* earlierBackground: outcomes it took, with an event to come
    stopped,         \* has its signal been aborted?
    status,          \* [Call -> Statuses]: rec.status
    background,      \* [Call -> BOOLEAN]: rec.background
    from,            \* [Call -> Nat]: rec.generation
    delivered,       \* [Call -> BOOLEAN]: rec.delivered
    terminalEmitted, \* [Call -> BOOLEAN]: rec.terminalEmitted
    at,              \* [Call -> Positions]: of its execution
    asks,            \* [Call -> Nat]: prompts for it that await an answer
    calls,           \* calls made
    tail,            \* the entry of editLocks: who came last, NoCall for none
    ahead,           \* [Call -> SUBSET Call]: whom it waits for
    missed,          \* history: outcomes given away without their event, which
                     \* agent_result read first, or a run took that failed
    forgotten        \* history: has the lock lost its entry while it was held?

run == <<generation, phase, stopped>>
told == <<delivered, terminalEmitted, earlier, missed>>
record == <<status, background, from>>
prompts == <<asks, calls>>
lock == <<tail, ahead, forgotten>>
vars == <<run, record, told, at, prompts, lock>>

Statuses == {"none", "running", "done", "failed", "cancelled"}
Positions == {"off", "hooks", "waiting", "running", "review", "applying",
              "passing", "failing"}
Phases == {"off", "opening", "refused", "open", "closing", "over"}

-----------------------------------------------------------------------------
(* The controller of an execution is aborted exactly when its record is     *)
(* cancelled, and it is there until the execution has settled.              *)
Aborted(c) == status[c] = "cancelled"
Live(c) == at[c] # "off"
Ended(c) == status[c] \in {"done", "failed", "cancelled"}

(* Is the run that started it still there to take its events (isDetached)?  *)
Attached(c) == from[c] = generation /\ phase \in {"open", "closing"}

CancelRecords(S) ==
    status' = [c \in Call |-> IF c \in S /\ status[c] = "running" THEN "cancelled"
                                                                  ELSE status[c]]
Foreground == {c \in Call : from[c] = generation /\ ~background[c]}

Emit(S) == terminalEmitted' = [c \in Call |-> terminalEmitted[c] \/ c \in S]

(* takeUndelivered; an event needs the result, which a cancelled dispatch   *)
(* has only once it has settled.                                            *)
Undelivered(g) == {c \in Call : background[c] /\ ~delivered[c] /\ Ended(c) /\ from[c] < g}

Deliver(S) ==
    /\ delivered' = [c \in Call |-> delivered[c] \/ c \in S]
    /\ Emit({c \in S : ~Live(c)})
    /\ UNCHANGED <<earlier, missed>>

Move(c, position) == at' = [at EXCEPT ![c] = position]

-----------------------------------------------------------------------------
(* The edit lock: a chain of promises of which the map keeps the last.      *)

Free == tail = NoCall

(* acquireAgentEditLock, and tryAcquireAgentEditLock when the lock is free. *)
Queue(c) ==
    /\ tail' = c
    /\ ahead' = [ahead EXCEPT ![c] = IF Free THEN {} ELSE ahead[tail] \cup {tail}]
    /\ UNCHANGED forgotten

(* Mutant of Release: the entry goes with whoever leaves.                   *)
ReleaseAny(c) ==
    /\ tail' = NoCall
    /\ ahead' = [d \in Call |-> IF d = c THEN {} ELSE ahead[d] \ {c}]
    /\ forgotten' = (forgotten \/ (tail = c /\ ahead[c] # {}))

(* Whoever leaves takes the entry away if it is the last, and so also when  *)
(* it gives up a place behind others.                                       *)
Release(c) ==
    /\ tail' = IF tail = c THEN NoCall ELSE tail
    /\ ahead' = [d \in Call |-> IF d = c THEN {} ELSE ahead[d] \ {c}]
    /\ forgotten' = (forgotten \/ (tail = c /\ ahead[c] # {}))

-----------------------------------------------------------------------------
(* A run.                                                                   *)

(* A run takes the outcomes of earlier ones before it opens.  One that its  *)
(* prompt hook blocks, or that is aborted before it begins, takes none and  *)
(* only cleans up.                                                          *)
Begin(blocked) ==
    /\ phase = "off"
    /\ generation < MaxRuns
    /\ generation' = generation + 1
    /\ phase' = IF blocked THEN "refused" ELSE "opening"
    /\ stopped' \in (IF blocked THEN BOOLEAN ELSE {FALSE})
    /\ LET taken == IF blocked THEN {} ELSE Undelivered(generation + 1)
       IN /\ delivered' = [c \in Call |-> delivered[c] \/ c \in taken]
          /\ earlier' = {c \in taken : ~Live(c)}
    /\ UNCHANGED <<record, terminalEmitted, missed, at, prompts, lock>>

(* It announces them once it has its tools; an aborted one then cleans up.  *)
Open ==
    /\ phase \in {"opening", "refused"}
    /\ phase' = IF phase = "refused" \/ stopped THEN "closing" ELSE "open"
    /\ Emit(earlier)
    /\ earlier' = {}
    /\ UNCHANGED <<generation, stopped, record, delivered, missed, at, prompts, lock>>

(* Or loading the skills, the rules or the conversation throws, or the      *)
(* consumer returns: the run is over, without events and without cleanup.   *)
OpenFails ==
    /\ phase \in {"opening", "refused"}
    /\ phase' = "off"
    /\ stopped' = TRUE
    /\ missed' = missed \cup {c \in earlier : ~terminalEmitted[c] /\ ~Aborted(c)}
    /\ earlier' = {}
    /\ UNCHANGED <<generation, record, delivered, terminalEmitted, at, prompts, lock>>

Turn ==
    /\ phase = "open"
    /\ ~stopped
    /\ Deliver(Undelivered(generation))
    /\ UNCHANGED <<run, record, at, prompts, lock>>

(* agent_result of a dispatch that has ended.                               *)
AgentResult(c) ==
    /\ phase = "open"
    /\ ~stopped
    /\ Ended(c)
    /\ delivered' = [delivered EXCEPT ![c] = TRUE]
    /\ missed' = IF terminalEmitted[c] \/ Aborted(c) THEN missed ELSE missed \cup {c}
    /\ UNCHANGED <<run, record, terminalEmitted, earlier, at, prompts, lock>>

Abort ==
    /\ phase \in {"opening", "refused", "open", "closing"}
    /\ ~stopped
    /\ stopped' = TRUE
    /\ CancelRecords(Foreground)
    /\ UNCHANGED <<generation, phase, background, from, told, at, prompts, lock>>

(* cleanupDispatches begins, at the end of the run or when it fails.        *)
EndRun ==
    /\ phase = "open"
    /\ phase' = "closing"
    /\ CancelRecords(Foreground)
    /\ UNCHANGED <<generation, stopped, background, from, told, at, prompts, lock>>

(* Mutant of Tracked: a run does not wait for what it has cancelled.        *)
TrackedRunning(c) == asks[c] > 0 \/ (status[c] = "running" /\ ~background[c])

(* What the run waits for: calls whose prompt is open, and executions in    *)
(* the foreground (trackOperation).                                         *)
Tracked(c) == asks[c] > 0 \/ (Live(c) /\ ~background[c])

FinishRun ==
    /\ phase = "closing"
    /\ \A c \in Call : ~Tracked(c)
    /\ phase' = "off"
    /\ stopped' = TRUE
    /\ Emit({c \in Call : Aborted(c)})
    /\ UNCHANGED <<generation, record, delivered, earlier, missed, at, prompts, lock>>

(* disposeAll, at the end of the session.                                   *)
Dispose ==
    /\ phase = "off"
    /\ phase' = "over"
    /\ CancelRecords(Call)
    /\ UNCHANGED <<generation, stopped, background, from, told, at, prompts, lock>>

(* By the user, from a card of the front end.                               *)
Cancel(c) ==
    /\ status[c] = "running"
    /\ CancelRecords({c})
    /\ UNCHANGED <<run, background, from, told, at, prompts, lock>>

-----------------------------------------------------------------------------
(* dispatch_agent and agent_send.                                           *)

(* execute: a foreground execution is bound to the signal of the run, and   *)
(* if that has been aborted it is cancelled before anything of it starts.   *)
Execute(c, behind) ==
    /\ status' = [status EXCEPT ![c] = IF stopped /\ ~behind THEN "cancelled" ELSE "running"]
    /\ background' = [background EXCEPT ![c] = behind]
    /\ from' = [from EXCEPT ![c] = generation]
    /\ delivered' = [delivered EXCEPT ![c] = FALSE]
    /\ terminalEmitted' = [terminalEmitted EXCEPT ![c] = FALSE]
    /\ missed' = missed \ {c}
    /\ UNCHANGED earlier
    /\ Move(c, IF stopped /\ ~behind THEN "failing" ELSE "hooks")

Start(c) ==
    /\ status[c] = "none"
    /\ \E behind \in BOOLEAN : Execute(c, behind)

(* Mutant of Resumable: a dispatch that was cancelled counts as over.       *)
ResumableOnceCancelled(c) == status[c] # "running"

(* resume throws while the dispatch runs, or was cancelled and has not      *)
(* settled.                                                                 *)
Resumable(c) == status[c] # "running" /\ ~Live(c)

Resume(c) ==
    /\ status[c] # "none"
    /\ IF Resumable(c) THEN Execute(c, FALSE) ELSE UNCHANGED <<record, told, at>>

(* agent_send looks for a dispatch that is done before it asks, and for one *)
(* that is not running once it has its answer.                              *)
CallAgent(c) ==
    /\ phase = "open"
    /\ ~stopped
    /\ calls < MaxCalls
    /\ calls' = calls + 1
    /\ status[c] = "done" \/ (status[c] = "none" /\ asks[c] = 0)
    /\ \/ /\ Mode[c] \in Prompting
          /\ asks' = [asks EXCEPT ![c] = @ + 1]
          /\ UNCHANGED <<record, told, at>>
       \/ /\ Mode[c] \notin Prompting
          /\ Start(c) \/ Resume(c)
          /\ UNCHANGED asks
    /\ UNCHANGED <<run, lock>>

Answer(c) ==
    /\ asks[c] > 0
    /\ asks' = [asks EXCEPT ![c] = @ - 1]
    /\ \/ Start(c)
       \/ Resume(c)
       \/ UNCHANGED <<record, told, at>>
    /\ UNCHANGED <<run, calls, lock>>

-----------------------------------------------------------------------------
(* An execution (executeNestedRun).                                         *)

(* Behind the subagentStart hooks: the lock for an agent that edits, a      *)
(* worktree, which may fail, for one that is isolated.                      *)
Enter(c) ==
    /\ at[c] = "hooks"
    /\ \/ /\ Mode[c] = "edit"
          /\ Queue(c)
          /\ Move(c, IF Free THEN "running" ELSE "waiting")
       \/ /\ Mode[c] # "edit"
          /\ \/ Move(c, "running")
             \/ Mode[c] = "isolated" /\ Move(c, "failing")
          /\ UNCHANGED lock

Granted(c) ==
    /\ at[c] = "waiting"
    /\ ahead[c] = {}
    /\ ~Aborted(c)
    /\ Move(c, IF Mode[c] = "edit" THEN "running" ELSE "applying")
    /\ UNCHANGED lock

(* Mutant of GiveUp: a cancelled wait keeps its place in the queue.         *)
GiveUpInPlace(c) ==
    /\ at[c] = "waiting"
    /\ Aborted(c)
    /\ Move(c, IF Mode[c] = "edit" THEN "failing" ELSE "passing")
    /\ UNCHANGED lock

(* A cancelled wait leaves the queue; a change that was to be applied is    *)
(* kept on its branch.                                                      *)
GiveUp(c) ==
    /\ at[c] = "waiting"
    /\ Aborted(c)
    /\ Release(c)
    /\ Move(c, IF Mode[c] = "edit" THEN "failing" ELSE "passing")

(* The nested run ends, by itself or aborted.  What an isolated agent has   *)
(* changed is reviewed if the run that started it is still there.           *)
Finish(c) ==
    /\ at[c] = "running"
    /\ \/ Move(c, "failing")
       \/ Move(c, "passing")
       \/ Mode[c] = "isolated" /\ Attached(c) /\ Move(c, "review")
    /\ IF Mode[c] = "edit" THEN Release(c) ELSE UNCHANGED lock

(* The change is refused, or allowed and queues for the lock.               *)
Review(c) ==
    /\ at[c] = "review"
    /\ \/ Move(c, "passing") /\ UNCHANGED lock
       \/ Move(c, "waiting") /\ Queue(c)

Applied(c) ==
    /\ at[c] = "applying"
    /\ Move(c, "passing")
    /\ Release(c)

Work(c) == Enter(c) \/ Granted(c) \/ GiveUp(c) \/ Finish(c) \/ Review(c) \/ Applied(c)

(* The promise settles, and its observer announces the end to the run that  *)
(* started the dispatch if that is still there.  A cancelled dispatch stays *)
(* cancelled, whatever its execution came to.                               *)
Settled(c) ==
    IF Aborted(c) THEN "cancelled" ELSE IF at[c] = "passing" THEN "done" ELSE "failed"
Settle(c) ==
    /\ at[c] \in {"passing", "failing"}
    /\ Move(c, "off")
    /\ status' = [status EXCEPT ![c] = Settled(c)]
    /\ Emit({d \in {c} : Attached(d)})
    /\ UNCHANGED <<background, from, delivered, earlier, missed, lock>>

DispatchStep(c) ==
    /\ \/ Work(c) /\ UNCHANGED <<record, told>>
       \/ Settle(c)
    /\ UNCHANGED <<run, prompts>>

-----------------------------------------------------------------------------
Init ==
    /\ generation = 0
    /\ phase = "off"
    /\ stopped = FALSE
    /\ status = [c \in Call |-> "none"]
    /\ background = [c \in Call |-> FALSE]
    /\ from = [c \in Call |-> 0]
    /\ delivered = [c \in Call |-> FALSE]
    /\ terminalEmitted = [c \in Call |-> FALSE]
    /\ at = [c \in Call |-> "off"]
    /\ asks = [c \in Call |-> 0]
    /\ calls = 0
    /\ tail = NoCall
    /\ ahead = [c \in Call |-> {}]
    /\ earlier = {}
    /\ missed = {}
    /\ forgotten = FALSE

Next ==
    \/ \E blocked \in BOOLEAN : Begin(blocked)
    \/ Open \/ OpenFails \/ Turn \/ Abort \/ EndRun \/ FinishRun \/ Dispose
    \/ \E c \in Call : AgentResult(c) \/ Cancel(c) \/ CallAgent(c) \/ Answer(c)
                       \/ DispatchStep(c)

Spec == Init /\ [][Next]_vars

-----------------------------------------------------------------------------
(* Properties.                                                              *)

TypeOK ==
    /\ generation \in Nat
    /\ phase \in Phases
    /\ stopped \in BOOLEAN
    /\ status \in [Call -> Statuses]
    /\ background \in [Call -> BOOLEAN]
    /\ from \in [Call -> Nat]
    /\ delivered \in [Call -> BOOLEAN]
    /\ terminalEmitted \in [Call -> BOOLEAN]
    /\ at \in [Call -> Positions]
    /\ asks \in [Call -> Nat]
    /\ calls \in Nat
    /\ tail \in Call \cup {NoCall}
    /\ ahead \in [Call -> SUBSET Call]
    /\ earlier \subseteq Call
    /\ missed \subseteq Call
    /\ forgotten \in BOOLEAN

Writers == {c \in Call : at[c] = "applying" \/ (Mode[c] = "edit" /\ at[c] = "running")}

(* Edit agents never write the same workspace at once (docs/subagents.md    *)
(* 129, isolation.ts 4), here those that nobody has cancelled.  A wait that *)
(* is given up at the end of the queue breaks it.                           *)
EditsExclusive == \A c, d \in {w \in Writers : ~Aborted(w)} : c = d

(* They never do as long as nobody gave up the last place of a queue:       *)
(* waits, cancellations in the middle, applied changes and dispatches that  *)
(* come back all respect the order.                                         *)
OneEditor == ~forgotten => \A c, d \in Writers : c = d

(* Nobody waits for ever: whoever is waited for still writes or waits, and  *)
(* behind fewer, so that the first of the queue writes or is granted.       *)
QueueSound ==
    \A c \in Call : \A d \in ahead[c] :
        /\ d \in Writers \/ at[d] = "waiting"
        /\ ahead[d] \subseteq ahead[c] \ {d}

(* What became of a dispatch stands, whatever its execution still returns,  *)
(* until agent_send starts it again, and that only once the execution       *)
(* before is gone.                                                          *)
OutcomeStands ==
    [][\A c \in Call : Ended(c) /\ status'[c] # status[c]
                         => ~Live(c) /\ Live(c)']_vars

(* A run that opened has left nothing of its foreground behind when it is   *)
(* over; it has announced the end of each dispatch of its own that ended,   *)
(* of each that was cancelled, and of each outcome of an earlier run that   *)
(* the model was told, except those that agent_result read first and those  *)
(* that went with a run which failed before it opened.                      *)
CleanEnd ==
    [][phase = "closing" /\ phase' = "off" =>
         \A c \in Call :
            /\ Live(c)' => background[c]
            /\ (Aborted(c) \/ (Ended(c) /\ from[c] = generation)) => terminalEmitted'[c]
            /\ delivered[c] /\ ~Live(c) /\ c \notin missed => terminalEmitted'[c]]_vars

=============================================================================
