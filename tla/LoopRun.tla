------------------------------- MODULE LoopRun -------------------------------
(***************************************************************************)
(* The autonomous Loop (auto-loop.ts) and its checkpoint (loop-state.ts):  *)
(* processes start it, resume it or recover it after a crash; one of them  *)
(* at a time owns it and goes through analysis, pre-check, and iterations  *)
(* of an edit, a verification and the completion gates.  The lifecycle     *)
(* lease and the Loop lease are one step (module SessionLease).  Cost,     *)
(* tokens and time are abstracted to a budget that may end wherever the    *)
(* code asks for it; the number of verifications is counted.  The plan has *)
(* one required stage, which an incremental pass may skip or reuse.        *)
(***************************************************************************)
EXTENDS Naturals, FiniteSets

CONSTANTS
    Process,        \* processes that run or recover the Loop
    Nobody, NoLoop,
    Mode,           \* requirementMode: "quick", "analyze" or "confirm"
    CodeReview,     \* codeReview
    Rollback,       \* rollbackOnRegression
    StablePasses, FlakyRetries, MaxAgentRetries, MaxNoProgressRecoveries,
    MaxIterations, MaxVerifyRuns,
    MaxCalls,       \* bound: calls of runAutoLoop, resumeAutoLoop and recoveries
    MaxCrashes,     \* bound: process deaths, and calls that throw
    MaxPauses       \* bound: pauses that a run finds in its mailbox

ASSUME ModeAssumption ==
    Mode \in {"quick", "analyze", "confirm"} /\ {CodeReview, Rollback} \subseteq BOOLEAN
ASSUME LimitAssumption ==
    /\ {FlakyRetries, MaxAgentRetries, MaxNoProgressRecoveries} \subseteq Nat
    /\ {StablePasses, MaxIterations, MaxVerifyRuns} \subseteq Nat \ {0}
ASSUME BoundAssumption == {MaxCalls, MaxCrashes, MaxPauses} \subseteq Nat
ASSUME NobodyAssumption == Nobody \notin Process

VARIABLES
    disk,     \* .seekforge/loops/<id>.json, or NoLoop
    owner,    \* who holds the Loop's leases
    pc,       \* [Process -> Positions]
    mem,      \* [Process -> States]: the state a call has in memory
    at,       \* [Process -> Parts]: what it verifies for
    whole,    \* [Process -> BOOLEAN]: must every stage run (no changed paths)?
    tries,    \* [Process -> Nat]: attempts of the stage or of the agent so far
    resumed,  \* [Process -> BOOLEAN]: had its resumeState requirements?
    passes,   \* history: full passes in a row since the workspace changed
    checks,   \* history: what passed since the workspace changed or the run began
    ran,      \* history: verification commands that the Loop started
    stale,    \* history: has a call used a checkpoint that was outdated?
    calls, crashes, pauses

local == <<mem, at, whole, tries, resumed>>
history == <<passes, checks, ran, stale>>
counts == <<calls, crashes, pauses>>
vars == <<disk, owner, pc, local, history, counts>>

Positions == {"idle", "scanned", "marking", "reload", "lock", "begin", "analyse", "approve",
              "precheck", "control", "paused", "verify", "stage", "verified", "accept",
              "review", "passing", "top", "edit", "guard", "ended"}
Parts == {"precheck", "iteration", "rollback"}
Final == {"passed", "exhausted", "no_progress", "budget", "cancelled", "interrupted",
          "requirements_pending", "verify_error", "agent_error"}

(* LoopState: streak is passStreak, spec the requirements.                 *)
States == [status : Final \union {"running", "paused"},
           iterations : 0..MaxIterations, verifyRuns : 0..MaxVerifyRuns,
           streak : 0..StablePasses, recoveries : 0..MaxNoProgressRecoveries,
           spec : {"none", "made", "approved"}]

ASSUME NoLoopAssumption == NoLoop \notin States

-----------------------------------------------------------------------------
(* createLoopState.                                                        *)
Created == [status |-> "running", iterations |-> 0, verifyRuns |-> 0,
            streak |-> 0, recoveries |-> 0, spec |-> "none"]

Goto(p, l) == pc' = [pc EXCEPT ![p] = l]

(* persist(patch, true).                                                   *)
Save(p, state) == mem' = [mem EXCEPT ![p] = state] /\ disk' = state

(* persist(patch): only when LOOP_CHECKPOINT_INTERVAL_MS has passed.       *)
Keep(p, state) == mem' = [mem EXCEPT ![p] = state] /\ disk' \in {disk, state}

Init ==
    /\ disk = NoLoop /\ owner = Nobody
    /\ pc = [p \in Process |-> "idle"]
    /\ mem = [p \in Process |-> Created]
    /\ at = [p \in Process |-> "precheck"] /\ whole = [p \in Process |-> TRUE]
    /\ tries = [p \in Process |-> 0] /\ resumed = [p \in Process |-> FALSE]
    /\ passes = 0 /\ checks = {} /\ ran = 0 /\ stale = FALSE
    /\ calls = 0 /\ crashes = 0 /\ pauses = 0

(* What a call forgets when it ends.                                       *)
Forget(p) ==
    /\ Goto(p, "idle")
    /\ mem' = [mem EXCEPT ![p] = Created]
    /\ at' = [at EXCEPT ![p] = "precheck"] /\ whole' = [whole EXCEPT ![p] = TRUE]
    /\ tries' = [tries EXCEPT ![p] = 0] /\ resumed' = [resumed EXCEPT ![p] = FALSE]

Call == calls < MaxCalls /\ calls' = calls + 1

-----------------------------------------------------------------------------
(* runAutoLoop for a new Loop, whose id nobody else has.                   *)
Start(p) ==
    /\ pc[p] = "idle" /\ disk = NoLoop /\ \A q \in Process : pc[q] = "idle"
    /\ Call /\ Goto(p, "lock")
    /\ UNCHANGED <<disk, owner, local, history, crashes, pauses>>

(* resumeAutoLoop loads the state, and takes the leases later.             *)
Load(p) ==
    /\ disk # NoLoop
    /\ mem' = [mem EXCEPT ![p] = disk]
    /\ resumed' = [resumed EXCEPT ![p] = disk.spec # "none"]
    /\ Goto(p, "lock")
    /\ UNCHANGED <<disk, owner, at, whole, tries, history, crashes, pauses>>

Resume(p) == pc[p] = "idle" /\ Load(p) /\ Call

Reload(p) == pc[p] = "reload" /\ Load(p) /\ UNCHANGED calls

(* recoverInterruptedLoops lists the states, then looks who owns the Loop, *)
(* then saves what it has listed.                                          *)
Scan(p) ==
    /\ pc[p] = "idle" /\ disk # NoLoop
    /\ mem' = [mem EXCEPT ![p] = disk]
    /\ Call /\ Goto(p, "scanned")
    /\ UNCHANGED <<disk, owner, at, whole, tries, resumed, history, crashes, pauses>>

Look(p) ==
    /\ pc[p] = "scanned"
    /\ owner = Nobody /\ mem[p].status \in {"interrupted", "running"}
    /\ Goto(p, IF mem[p].status = "running" THEN "marking" ELSE "reload")
    /\ UNCHANGED <<disk, owner, local, history, counts>>

LookAway(p) ==
    /\ pc[p] = "scanned"
    /\ owner # Nobody \/ mem[p].status \notin {"interrupted", "running"}
    /\ Forget(p)
    /\ UNCHANGED <<disk, owner, history, counts>>

Mark(p) ==
    /\ pc[p] = "marking"
    /\ Save(p, [mem[p] EXCEPT !.status = "interrupted"])
    /\ stale' = (stale \/ disk # mem[p])
    /\ Goto(p, "reload")
    /\ UNCHANGED <<owner, at, whole, tries, resumed, passes, checks, ran, counts>>

(* acquireLoopLifecycleLease and acquireLoopLease.                         *)
Lock(p) ==
    /\ pc[p] = "lock" /\ owner = Nobody
    /\ owner' = p
    /\ stale' = (stale \/ (disk # NoLoop /\ disk # mem[p]))
    /\ Goto(p, "begin")
    /\ UNCHANGED <<disk, local, passes, checks, ran, counts>>

LockBusy(p) ==
    /\ pc[p] = "lock" /\ owner # Nobody
    /\ Forget(p)
    /\ UNCHANGED <<disk, owner, history, counts>>

(* createLoopState, or the state of the resume with a run of its own.      *)
Begin(p) ==
    /\ pc[p] = "begin"
    /\ Save(p, [mem[p] EXCEPT !.status = "running"])
    /\ checks' = {}
    /\ Goto(p, IF Mode # "quick" /\ mem[p].spec = "none" THEN "analyse" ELSE "approve")
    /\ UNCHANGED <<owner, at, whole, tries, resumed, passes, ran, stale, counts>>

(* done: the checkpoint is final, and the leases go afterwards.            *)
Finish(p, status) ==
    /\ Save(p, [mem[p] EXCEPT !.status = status])
    /\ Goto(p, "ended")
    /\ UNCHANGED <<owner, at, whole, tries, resumed, calls, crashes, pauses>>

(* Mutant: a run that did not pass keeps its leases.                       *)
ReleasePassed(p) ==
    /\ pc[p] = "ended" /\ mem[p].status = "passed"
    /\ owner' = Nobody
    /\ Forget(p)
    /\ UNCHANGED <<disk, history, counts>>

Release(p) ==
    /\ pc[p] = "ended"
    /\ owner' = Nobody
    /\ Forget(p)
    /\ UNCHANGED <<disk, history, counts>>

(* A return of one of these statuses where the code asks the signal or the *)
(* budget, or fails.                                                       *)
Ends(p, statuses) == (\E s \in statuses : Finish(p, s)) /\ UNCHANGED history

Aborted == {"cancelled", "interrupted"}

-----------------------------------------------------------------------------
(* The read-only analysis: a valid specification or the fallback one.      *)
Analyse(p) ==
    /\ pc[p] = "analyse"
    /\ Keep(p, [mem[p] EXCEPT !.spec = "made"])
    /\ Goto(p, "approve")
    /\ UNCHANGED <<owner, at, whole, tries, resumed, history, counts>>

AnalyseEnds(p) ==
    pc[p] = "analyse" /\ Ends(p, Aborted \union {"budget", "no_progress"})

(* The requirements need no approval, or have it.                          *)
Approved(state) == Mode = "confirm" => state.spec = "approved"

GoOn(p) ==
    /\ pc[p] = "approve" /\ Approved(mem[p])
    /\ Goto(p, "precheck")
    /\ UNCHANGED <<disk, owner, local, history, counts>>

(* Only a resume of requirements that were persisted may approve them.     *)
Approve(p) ==
    /\ pc[p] = "approve" /\ ~Approved(mem[p]) /\ resumed[p]
    /\ Keep(p, [mem[p] EXCEPT !.spec = "approved"])
    /\ Goto(p, "precheck")
    /\ UNCHANGED <<owner, at, whole, tries, resumed, history, counts>>

Pending(p) == pc[p] = "approve" /\ ~Approved(mem[p]) /\ Ends(p, {"requirements_pending"})

ApproveEnds(p) == pc[p] = "approve" /\ Ends(p, Aborted \union {"budget"})

Precheck(p) ==
    /\ pc[p] = "precheck"
    /\ Save(p, mem[p])
    /\ Goto(p, "control")
    /\ UNCHANGED <<owner, at, whole, tries, resumed, history, counts>>

PrecheckEnds(p) == pc[p] = "precheck" /\ Ends(p, Aborted)

-----------------------------------------------------------------------------
(* applyControl: the mailbox pauses the run, and later resumes it.         *)
Control(p) ==
    /\ pc[p] = "control"
    /\ Save(p, [mem[p] EXCEPT !.status = "running"])
    /\ tries' = [tries EXCEPT ![p] = 0]
    /\ Goto(p, IF at[p] = "precheck" THEN "verify" ELSE "edit")
    /\ UNCHANGED <<owner, at, whole, resumed, history, counts>>

Pause(p) ==
    /\ pc[p] = "control" /\ pauses < MaxPauses
    /\ pauses' = pauses + 1
    /\ Save(p, [mem[p] EXCEPT !.status = "paused"])
    /\ Goto(p, "paused")
    /\ UNCHANGED <<owner, at, whole, tries, resumed, history, calls, crashes>>

Unpause(p) ==
    /\ pc[p] = "paused"
    /\ Goto(p, "control")
    /\ UNCHANGED <<disk, owner, local, history, counts>>

PauseEnds(p) == pc[p] = "paused" /\ Ends(p, Aborted)

-----------------------------------------------------------------------------
(* Mutant: a skipped stage counts as a pass.                               *)
SkipStageGreen(p) ==
    /\ pc[p] = "verify" /\ ~whole[p] /\ tries[p] = 0
    /\ whole' = [whole EXCEPT ![p] = TRUE]
    /\ Keep(p, [mem[p] EXCEPT !.streak = StablePasses])
    /\ Goto(p, "verified")
    /\ UNCHANGED <<owner, at, tries, resumed, history, counts>>

(* executeStableVerify: a stage that impact analysis skips, or that the    *)
(* persistent cache answers, makes a second, whole pass necessary.         *)
SkipStage(p) ==
    /\ pc[p] = "verify" /\ ~whole[p] /\ tries[p] = 0
    /\ whole' = [whole EXCEPT ![p] = TRUE]
    /\ UNCHANGED <<disk, owner, pc, mem, at, tries, resumed, history, counts>>

(* Mutant: the charge is saved when the interval has passed.               *)
ChargeLate(p) ==
    /\ pc[p] = "verify" /\ mem[p].verifyRuns < MaxVerifyRuns
    /\ Keep(p, [mem[p] EXCEPT !.verifyRuns = @ + 1])
    /\ tries' = [tries EXCEPT ![p] = @ + 1]
    /\ Goto(p, "stage")
    /\ UNCHANGED <<owner, at, whole, resumed, history, counts>>

(* executeStage: the run is charged and saved before it starts.            *)
Charge(p) ==
    /\ pc[p] = "verify" /\ mem[p].verifyRuns < MaxVerifyRuns
    /\ Save(p, [mem[p] EXCEPT !.verifyRuns = @ + 1])
    /\ tries' = [tries EXCEPT ![p] = @ + 1]
    /\ Goto(p, "stage")
    /\ UNCHANGED <<owner, at, whole, resumed, history, counts>>

ChargeEnds(p) == pc[p] = "verify" /\ Ends(p, {"budget"})

(* The command has run; fewer than StablePasses in a row ask for another.  *)
StagePasses(p) ==
    LET streak == IF mem[p].streak < StablePasses THEN mem[p].streak + 1 ELSE StablePasses IN
    /\ pc[p] = "stage"
    /\ ran' = ran + 1
    /\ passes' = IF passes < StablePasses THEN passes + 1 ELSE passes
    /\ checks' = checks \union {"verified"}
    /\ Keep(p, [mem[p] EXCEPT !.streak = streak])
    /\ tries' = [tries EXCEPT ![p] = 0]
    /\ whole' = [whole EXCEPT ![p] = TRUE]
    /\ Goto(p, IF streak < StablePasses THEN "verify" ELSE "verified")
    /\ UNCHANGED <<owner, at, resumed, stale, counts>>

StageRetries(p) ==
    /\ pc[p] = "stage" /\ tries[p] <= FlakyRetries
    /\ ran' = ran + 1
    /\ Goto(p, "verify")
    /\ UNCHANGED <<disk, owner, local, passes, checks, stale, counts>>

StageFails(p) ==
    /\ pc[p] = "stage" /\ tries[p] > FlakyRetries
    /\ ran' = ran + 1 /\ passes' = 0
    /\ checks' = checks \ {"verified"}
    /\ Keep(p, [mem[p] EXCEPT !.streak = 0])
    /\ tries' = [tries EXCEPT ![p] = 0]
    /\ whole' = [whole EXCEPT ![p] = TRUE]
    /\ Goto(p, "verified")
    /\ UNCHANGED <<owner, at, resumed, stale, counts>>

(* The command cannot be run, is stopped, or meets the end of the budget.  *)
StageEnds(p) ==
    /\ pc[p] = "stage"
    /\ \E s \in Aborted \union {"budget", "verify_error"} : Finish(p, s)
    /\ ran' = ran + 1
    /\ UNCHANGED <<passes, checks, stale>>

-----------------------------------------------------------------------------
Green(p) == mem[p].streak = StablePasses

(* The workspace is not the one that was verified or reviewed.             *)
Changed == passes' = 0 /\ checks' = {}

(* completionGatesPass after the acceptance review.                        *)
ToReview == IF CodeReview THEN "review" ELSE "passing"

Gates(p) ==
    /\ pc[p] = "verified" /\ Green(p)
    /\ Goto(p, IF Mode # "quick" THEN "accept" ELSE ToReview)
    /\ UNCHANGED <<disk, owner, local, history, counts>>

(* What follows a red verification, or gates that did not pass.            *)
After(p) == IF at[p] = "iteration" THEN "guard" ELSE "top"

Red(p) ==
    /\ pc[p] = "verified" /\ ~Green(p)
    /\ Goto(p, After(p))
    /\ UNCHANGED <<disk, owner, local, history, counts>>

(* More tests fail than before: the edit is undone and the result verified.*)
RollBack(p) ==
    /\ pc[p] = "verified" /\ at[p] = "iteration" /\ Rollback
    /\ Changed
    /\ at' = [at EXCEPT ![p] = "rollback"] /\ whole' = [whole EXCEPT ![p] = TRUE]
    /\ Goto(p, "verify")
    /\ UNCHANGED <<disk, owner, mem, tries, resumed, ran, stale, counts>>

(* reviewRequirements and reviewCode pass, or end the gates.               *)
Accept(p) ==
    /\ pc[p] = "accept"
    /\ checks' = checks \union {"acceptance"}
    /\ Save(p, mem[p])
    /\ Goto(p, ToReview)
    /\ UNCHANGED <<owner, at, whole, tries, resumed, passes, ran, stale, counts>>

Review(p) ==
    /\ pc[p] = "review"
    /\ checks' = checks \union {"code"}
    /\ Save(p, mem[p])
    /\ Goto(p, "passing")
    /\ UNCHANGED <<owner, at, whole, tries, resumed, passes, ran, stale, counts>>

GateFails(p) ==
    /\ pc[p] \in {"accept", "review"}
    /\ Save(p, mem[p])
    /\ Goto(p, After(p))
    /\ UNCHANGED <<owner, at, whole, tries, resumed, history, counts>>

GateEnds(p) ==
    /\ pc[p] \in {"accept", "review"}
    /\ Ends(p, Aborted \union (IF at[p] = "precheck" THEN {"budget"} ELSE {}))

Passes(p) == pc[p] = "passing" /\ Ends(p, {"passed"})

-----------------------------------------------------------------------------
(* The head of the iteration.                                              *)
Top(p) ==
    /\ pc[p] = "top" /\ mem[p].iterations < MaxIterations
    /\ at' = [at EXCEPT ![p] = "iteration"]
    /\ Goto(p, "control")
    /\ UNCHANGED <<disk, owner, mem, whole, tries, resumed, history, counts>>

TopEnds(p) ==
    /\ pc[p] = "top"
    /\ IF mem[p].iterations < MaxIterations
       THEN Ends(p, Aborted \union {"budget"})
       ELSE Ends(p, {"exhausted"})

(* An agent run completes: the iteration is counted, the effect verified.  *)
Edit(p) ==
    /\ pc[p] = "edit"
    /\ Save(p, [mem[p] EXCEPT !.iterations = @ + 1])
    /\ Changed
    /\ tries' = [tries EXCEPT ![p] = 0]
    /\ whole' = [whole EXCEPT ![p] = FALSE]
    /\ Goto(p, "verify")
    /\ UNCHANGED <<owner, at, resumed, ran, stale, counts>>

(* A transient failure of the agent is tried again.                        *)
EditRetries(p) ==
    /\ pc[p] = "edit" /\ tries[p] < MaxAgentRetries
    /\ Save(p, mem[p])
    /\ Changed
    /\ tries' = [tries EXCEPT ![p] = @ + 1]
    /\ UNCHANGED <<owner, pc, at, whole, resumed, ran, stale, counts>>

EditEnds(p) ==
    /\ pc[p] = "edit"
    /\ \E s \in Aborted \union {"agent_error"} : Finish(p, s)
    /\ Changed
    /\ UNCHANGED <<ran, stale>>

(* The budget ends an iteration that counts.                               *)
EditSpends(p) ==
    /\ pc[p] = "edit"
    /\ LET counted == [mem[p] EXCEPT !.iterations = @ + 1]
       IN  Save(p, [counted EXCEPT !.status = "budget"])
    /\ Changed
    /\ Goto(p, "ended")
    /\ UNCHANGED <<owner, at, whole, tries, resumed, ran, stale, counts>>

(* The guardrails after an iteration that did not pass.                    *)
Progress(p) ==
    /\ pc[p] = "guard"
    /\ Goto(p, "top")
    /\ UNCHANGED <<disk, owner, local, history, counts>>

Recover(p) ==
    /\ pc[p] = "guard" /\ mem[p].recoveries < MaxNoProgressRecoveries
    /\ Save(p, [mem[p] EXCEPT !.recoveries = @ + 1])
    /\ Goto(p, "top")
    /\ UNCHANGED <<owner, at, whole, tries, resumed, history, counts>>

GuardEnds(p) ==
    /\ pc[p] = "guard"
    /\ Ends(p, Aborted \union {"budget"} \union
               (IF mem[p].recoveries < MaxNoProgressRecoveries THEN {} ELSE {"no_progress"}))

-----------------------------------------------------------------------------
(* The process dies, or its call throws before it has a result: the        *)
(* checkpoint stays as it is.  A command or an agent may have been running.*)
Crash(p) ==
    /\ pc[p] # "idle" /\ crashes < MaxCrashes
    /\ crashes' = crashes + 1
    /\ owner' = IF owner = p THEN Nobody ELSE owner
    /\ ran' = IF pc[p] = "stage" THEN ran + 1 ELSE ran
    /\ IF pc[p] \in {"edit", "verified"} THEN Changed ELSE UNCHANGED <<passes, checks>>
    /\ Forget(p)
    /\ UNCHANGED <<disk, stale, calls, pauses>>

(* What a call does once it is made.                                       *)
Recovery(p) == Reload(p) \/ Look(p) \/ LookAway(p) \/ Mark(p)
Opening(p) ==
    \/ Lock(p) \/ LockBusy(p) \/ Begin(p) \/ Analyse(p) \/ AnalyseEnds(p)
    \/ GoOn(p) \/ Approve(p) \/ Pending(p) \/ ApproveEnds(p)
    \/ Precheck(p) \/ PrecheckEnds(p) \/ Control(p) \/ Pause(p)
Verifying(p) ==
    \/ SkipStage(p) \/ Charge(p) \/ ChargeEnds(p)
    \/ StagePasses(p) \/ StageRetries(p) \/ StageFails(p) \/ StageEnds(p)
    \/ Gates(p) \/ Red(p) \/ RollBack(p)
    \/ Accept(p) \/ Review(p) \/ GateFails(p) \/ GateEnds(p) \/ Passes(p)
Iterating(p) ==
    \/ Top(p) \/ TopEnds(p) \/ Edit(p) \/ EditRetries(p) \/ EditEnds(p) \/ EditSpends(p)
    \/ Progress(p) \/ Recover(p) \/ GuardEnds(p)
Step(p) == Recovery(p) \/ Opening(p) \/ Verifying(p) \/ Iterating(p) \/ Release(p)

Next ==
    \E p \in Process : 
        Start(p) \/ Resume(p) \/ Scan(p) \/ Step(p) \/ Unpause(p) \/ PauseEnds(p) \/ Crash(p)

(* Verifications and agents have timeouts, so a call that runs goes on;    *)
(* nobody has to end a pause.                                              *)
Spec == Init /\ [][Next]_vars /\ \A p \in Process : WF_vars(Step(p))

-----------------------------------------------------------------------------
(* Types, and one owner: a call that is past its leases holds them, and    *)
(* the counters never leave their limits in a checkpoint.                  *)
TypeOK ==
    /\ disk \in States \union {NoLoop} /\ owner \in Process \union {Nobody}
    /\ pc \in [Process -> Positions] /\ mem \in [Process -> States]
    /\ at \in [Process -> Parts] /\ whole \in [Process -> BOOLEAN]
    /\ tries \in [Process -> Nat] /\ resumed \in [Process -> BOOLEAN]
    /\ passes \in 0..StablePasses /\ checks \subseteq {"verified", "acceptance", "code"}
    /\ ran \in Nat /\ stale \in BOOLEAN
    /\ \A p \in Process :
         owner = p <=> pc[p] \notin {"idle", "scanned", "marking", "reload", "lock"}

(* What completion takes: a whole green verification and every gate the    *)
(* Loop asks for, all of them by this run and of the workspace as it now   *)
(* is, and in confirm mode requirements that somebody approved.            *)
Needed ==
    {"verified"} \union (IF Mode = "quick" THEN {} ELSE {"acceptance"})
                \union (IF CodeReview THEN {"code"} ELSE {})

(* A result "passed" is never reported on a verification or a review of a  *)
(* workspace that was edited, rolled back or left behind by a crash since, *)
(* nor on a pass that skipped or reused a stage (completionGatesPass,      *)
(* executeStableVerify).                                                   *)
PassedSound ==
    \A p \in Process :
        pc[p] = "ended" /\ mem[p].status = "passed" => Needed \subseteq checks /\ Approved(mem[p])

(* maxVerifyRuns bounds the commands that ever start for the Loop, across  *)
(* retries, rollbacks, crashes, recoveries and resumes, as long as no call *)
(* goes on from a checkpoint that another call has replaced since          *)
(* (executeStage saves the charge before the command).                     *)
LimitsKept == ~stale => ran <= MaxVerifyRuns

(* docs/loop-engineering.md:314, "--stable-passes 1..5 requires            *)
(* consecutive full-pipeline passes": a run that ends as passed has that   *)
(* many of the workspace it leaves.                                        *)
StableKept ==
    \A p \in Process :
        pc[p] = "ended" /\ mem[p].status = "passed" => passes >= StablePasses

(* A run that holds the leases gives them up, or waits in a pause: stable  *)
(* passes, retries, rollbacks, failing gates and recoveries all come to an *)
(* end.                                                                    *)
RunEnds == \A p \in Process : owner = p ~> owner # p \/ pc[p] = "paused"

=============================================================================
