--------------------------- MODULE GraphRunProofs ---------------------------
(***************************************************************************)
(* Theorems about the scheduler of Engineering Graphs (module GraphRun)    *)
(* for any definition, any limits and any number of runs, crashes and      *)
(* commands: attempts are in the checkpoint before they run, what passed   *)
(* stays, an owner leaves nothing running, and (in the second part) it     *)
(* finds something to do, in the order of the definition. The third part   *)
(* is about what a later run has of an earlier one: the attempts counted,  *)
(* the key, a checkpoint that loads. Its theorems have premises, each      *)
(* named where it is defined; README.md says which runs break them.        *)
(***************************************************************************)
EXTENDS GraphRun, FiniteSetTheorems, TLAPS

(* The nodes that the scheduler has still to deal with.                    *)
Todo == pending \union launching \union compensationPending

(* Functions on the nodes; their values matter to no theorem here.         *)
Shapes ==
    /\ DOMAIN job = Node /\ DOMAIN results = Node /\ DOMAIN active = Node
    /\ DOMAIN recovered = Node
    /\ disk # NoCheckpoint => DOMAIN disk.active = Node
    /\ pending \subseteq Node /\ launching \subseteq Node /\ compensationPending \subseteq Node

(* While a scheduler owns the Graph, every change is in the checkpoint.    *)
Mirrored == pc # "off" => disk.results = results /\ disk.active = active

(* What is still to be done has no result and no promise.                  *)
Unsettled ==
    /\ \A n \in Todo : results[n] = "none" /\ job[n].phase = "none"
    /\ launching \intersect compensationPending = {}
    /\ \A n \in compensationPending : Kind[n] = "compensation"
    /\ \A n \in pending : Kind[n] # "compensation"
    /\ pc # "start" => launching = {}
    /\ pc \in {"gate", "wait"} \/ (pc = "settle" /\ after = "wait") => asked \in pending

(* Promises and the attempts in the journal.                               *)
Promised ==
    /\ pc \in {"off", "warn"} => InFlight = {}
    /\ \A n \in InFlight : results[n] = "none"
    /\ \A n \in Node : job[n].phase = "running" =>
          active[n] = Attempt(job[n].attempt, job[n].key, "running")
    /\ pc \notin {"off", "warn"} =>
          \A n \in Node : active[n].phase = "running" => job[n].phase # "none"

(* Where nothing may be in flight; a compensation is alone.                *)
Alone ==
    /\ pc \in {"finish", "compensate", "cancelWaiting", "off", "warn"} => InFlight = {}
    /\ pc \notin {"start", "race", "compensate"} => main = "none"
    /\ main # "none" /\ pc = "start" => InFlight = {} /\ \E n \in Node : launching = {n}
    /\ main # "none" /\ pc = "race" => \A m, n \in InFlight : m = n

Inv == Shapes /\ Mirrored /\ Unsettled /\ Promised /\ Alone

USE DEF state, control, flow, rest

(* A child Graph makes its first checkpoint, or nothing happens.           *)
Aside == UNCHANGED vars \/ \E n \in Node : ChildSaves(n)

LEMMA AsideKeeps ==
    ASSUME Aside
    PROVE  UNCHANGED <<disk, pc, state, pending, compensationPending, recovered, job, control,
                       aborted, flow, keys, interrupted, runs, crashes, commands>>
BY DEF Aside, ChildSaves, vars

LEMMA InvInit == Init => Inv
BY DEF Init, Inv, Shapes, Mirrored, Unsettled, Promised, Alone, Todo, InFlight, NoJob,
       NoResults, NoAttempts

-----------------------------------------------------------------------------
(* An owner gives the Graph up: nothing of its memory matters any more.    *)
LEMMA InvOff ==
    ASSUME Inv, Off, disk' # NoCheckpoint => DOMAIN disk'.active = Node
    PROVE  Inv'
<1>1. pc' = "off" /\ Todo' = {} /\ InFlight' = {} /\ main' = "none" /\ launching' = {}
      /\ pending' = {} /\ compensationPending' = {}
  BY DEF Off, Todo, InFlight, NoJob
<1>2. Shapes'
  BY DEF Off, Shapes, NoResults, NoAttempts
<1>3. Unsettled'
  BY <1>1 DEF Unsettled
<1>4. Promised'
  BY <1>1 DEF Promised, InFlight, Off, NoJob
<1>. QED  BY <1>1, <1>2, <1>3, <1>4 DEF Inv, Mirrored, Alone

LEMMA InvReturn ==
    ASSUME Inv, NEW st, NEW why, Return(st, why)
    PROVE  Inv'
<1>1. Off /\ DOMAIN disk'.active = Node
  BY DEF Return, Checkpoint, Inv, Shapes
<1>. QED  BY <1>1, InvOff

LEMMA InvDies ==
    ASSUME Inv, Drained \/ Crash
    PROVE  Inv'
<1>1. Off /\ disk' = disk
  BY DEF Drained, Crash
<1>. QED  BY <1>1, InvOff DEF Inv, Shapes

(* The first checkpoint of a run.                                          *)
LEMMA InvBegin ==
    ASSUME Inv, NEW mode, NEW roots, Begin(mode, roots), pc = "off",
           mode = "resume" => disk # NoCheckpoint
    PROVE  Inv'
<1> DEFINE missing == {n \in Node : results'[n] = "none"}
<1>1. /\ pc' = "warn" /\ UNCHANGED <<job, launching, main, after, asked>>
      /\ DOMAIN results' = Node /\ DOMAIN active' = Node /\ DOMAIN recovered' = Node
      /\ disk'.results = results' /\ disk'.active = active'
  BY DEF Begin, Persist, Checkpoint, Inv, Shapes, NoAttempts
<1>2. /\ pending' = {n \in missing : Kind[n] # "compensation"}
      /\ compensationPending' = {n \in missing : Kind[n] = "compensation"}
  BY DEF Begin
<1>3. InFlight = {} /\ InFlight' = {} /\ launching = {} /\ main = "none"
  BY <1>1 DEF Inv, Promised, Alone, Unsettled, InFlight
<1>4. Shapes'
  BY <1>1, <1>2, <1>3 DEF Inv, Shapes
<1>5. Unsettled'
  BY <1>1, <1>2, <1>3 DEF Unsettled, Todo, InFlight
<1>6. Promised'
  BY <1>1, <1>3 DEF Promised, InFlight
<1>. QED  BY <1>1, <1>3, <1>4, <1>5, <1>6 DEF Inv, Mirrored, Alone

-----------------------------------------------------------------------------
(* Nodes that end without an attempt.                                      *)
LEMMA InvComplete ==
    ASSUME Inv, NEW n \in Node,
           CancelNode(n) \/ CancelPending(n) \/ StopSkip(n) \/ Exclude(n) \/ NotRequired(n)
    PROVE  Inv'
<1> USE DEF Inv, Shapes, Mirrored, Unsettled, Promised, Alone, Todo, InFlight,
            CompleteWithoutRun, Persist, Checkpoint, NoAttempt
<1>1. CASE CancelNode(n)
  BY <1>1 DEF CancelNode
<1>2. CASE CancelPending(n)
  BY ZenonT(40), <1>2 DEF CancelPending
<1>3. CASE StopSkip(n)
  BY <1>3 DEF StopSkip
<1>4. CASE Exclude(n)
  BY <1>4 DEF Exclude, Resolvable
<1>5. CASE NotRequired(n)
  BY <1>5 DEF NotRequired
<1>. QED  BY <1>1, <1>2, <1>3, <1>4, <1>5

(* Gates and waits.                                                        *)
LEMMA InvAsked ==
    ASSUME Inv,
           \/ \E n \in Node : Ask(n)
           \/ \E result \in Results : Answer(result)
           \/ GateWaits \/ WaitWaits \/ AnswerThrows
    PROVE  Inv'
<1> USE DEF Inv, Shapes, Mirrored, Unsettled, Promised, Alone, Todo, InFlight
<1>1. ASSUME NEW n \in Node, Ask(n) PROVE Inv'
  BY <1>1 DEF Ask, Resolvable
<1>2. ASSUME NEW result \in Results, Answer(result) PROVE Inv'
  BY <1>2 DEF Answer, Persist, Checkpoint
<1>3. CASE GateWaits
  BY <1>3 DEF GateWaits, CompleteWithoutRun, Persist, Checkpoint, NoAttempt
<1>4. CASE WaitWaits
  BY <1>4 DEF WaitWaits
<1>5. CASE AnswerThrows
  BY <1>5 DEF AnswerThrows
<1>. QED  BY <1>1, <1>2, <1>3, <1>4, <1>5

-----------------------------------------------------------------------------
(* Promises.                                                               *)
LEMMA InvSettles ==
    ASSUME Inv, NEW n \in Node, NEW result, Awaiting, job[n].phase # "none",
           SettleAs(n, result), JobFrame
    PROVE  Inv'
BY DEF SettleAs, SettledJob, JobFrame, Awaiting, Inv, Shapes, Mirrored, Unsettled, Promised,
       Alone, Todo, InFlight

LEMMA InvAttempts ==
    ASSUME Inv, NEW n \in Node, NEW a, NEW k, Awaiting, job[n].phase # "none",
           StartAttempt(n, a, k), JobFrame
    PROVE  Inv'
BY DEF StartAttempt, Attempt, Job, Persist, Checkpoint, JobFrame, Awaiting, Inv, Shapes,
       Mirrored, Unsettled, Promised, Alone, Todo, InFlight

LEMMA InvJob ==
    ASSUME Inv, NEW n \in Node, JobStep(n)
    PROVE  Inv'
<1>1. CASE RetryLater(n)
  BY <1>1 DEF RetryLater, Attempt, Job, Persist, Checkpoint, JobFrame, Awaiting, Inv, Shapes,
     Mirrored, Unsettled, Promised, Alone, Todo, InFlight
<1>2. CASE Retry(n)
  <2>1. Awaiting /\ job[n].phase # "none" /\ JobFrame
    BY <1>2 DEF Retry
  <2>2. \/ SettleAs(n, "failed: cancelled")
        \/ StartAttempt(n, job[n].attempt + 1, keys[n] + 1)
    BY <1>2 DEF Retry
  <2>. QED  BY <2>1, <2>2, InvSettles, InvAttempts
<1>3. CASE Pass(n) \/ Fail(n) \/ ChildPauses(n)
  <2>1. Awaiting /\ job[n].phase # "none" /\ JobFrame
    BY <1>3 DEF Pass, Fail, ChildPauses
  <2>2. PICK result : SettleAs(n, result)
    BY <1>3 DEF Pass, Fail, ChildPauses
  <2>. QED  BY <2>1, <2>2, InvSettles
<1>. QED  BY <1>1, <1>2, <1>3 DEF JobStep

(* A chosen node starts: its promise, j, exists from here on.              *)
Changes(n, j) ==
    /\ job' = [job EXCEPT ![n] = j]
    /\ j.phase # "none"
    /\ j.phase = "running" => active'[n] = Attempt(j.attempt, j.key, "running")
    /\ results' = results
    /\ DOMAIN active' = Node
    /\ \A m \in Node \ {n} : active'[m] = active[m]
    /\ \/ disk' = disk /\ active' = active
       \/ disk'.results = results' /\ disk'.active = active'

LEMMA InvStart ==
    ASSUME Inv, NEW n \in Node, Start(n)
    PROVE  Inv'
<1>1. /\ pc = "start" /\ n \in launching
      /\ launching' = launching \ {n} /\ pending' = pending \ {n}
      /\ DOMAIN recovered' = Node
      /\ UNCHANGED <<compensationPending, after, asked, main>>
      /\ pc' = IF launching' = {} THEN "race" ELSE "start"
  BY DEF Start, Inv, Shapes
<1>2. PICK j : Changes(n, j)
  <2>1. ASSUME NEW a, NEW k, job' = [job EXCEPT ![n] = Job("backoff", a, k)],
               UNCHANGED <<disk, state>>
        PROVE  \E j : Changes(n, j)
    <3>1. Changes(n, Job("backoff", a, k))
      BY <2>1 DEF Job, Changes, Inv, Shapes
    <3>. QED  BY <3>1
  <2>2. ASSUME NEW result, SettleAs(n, result) PROVE \E j : Changes(n, j)
    <3>1. PICK t \in Times : job' = [job EXCEPT ![n] = SettledJob(n, result, t)]
      BY <2>2 DEF SettleAs
    <3>2. Changes(n, SettledJob(n, result, t))
      BY <2>2, <3>1 DEF SettleAs, SettledJob, Changes, Inv, Shapes
    <3>. QED  BY <3>2
  <2>3. ASSUME NEW a, NEW k, StartAttempt(n, a, k) PROVE \E j : Changes(n, j)
    <3>1. Changes(n, Job("running", a, k))
      BY <2>3 DEF StartAttempt, Job, Attempt, Persist, Checkpoint, Changes, Inv, Shapes
    <3>. QED  BY <3>1
  <2>4. \E j : Changes(n, j)
    BY <2>1, <2>2, <2>3 DEF Start
  <2>. QED  BY <2>4
<1>3. n \notin pending' \union launching' \union compensationPending'
  BY <1>1 DEF Inv, Unsettled
<1>4. InFlight' = InFlight \union {n}
  BY <1>2 DEF Changes, InFlight, Inv, Shapes
<1>5. Shapes'
  BY <1>1, <1>2 DEF Changes, Inv, Shapes
<1>6. Mirrored'
  BY <1>1, <1>2 DEF Changes, Inv, Mirrored
<1>7. Unsettled'
  BY <1>1, <1>2, <1>3 DEF Changes, Inv, Shapes, Unsettled, Todo
<1>8. Promised'
  BY <1>1, <1>2, <1>4 DEF Changes, Inv, Shapes, Unsettled, Todo, Promised
<1>9. Alone'
  BY <1>1, <1>4 DEF Inv, Alone
<1>. QED  BY <1>5, <1>6, <1>7, <1>8, <1>9 DEF Inv

LEMMA InvRecord ==
    ASSUME Inv, NEW n \in Node, Record(n)
    PROVE  Inv'
BY DEF Record, Persist, Checkpoint, NoAttempt, NoJob, Inv, Shapes, Mirrored, Unsettled,
       Promised, Alone, Todo, InFlight

-----------------------------------------------------------------------------
(* The positions of the scheduler.                                         *)
LEMMA InvGoto ==
    ASSUME Inv, NEW position, Goto(position), pc # "off", pc # "start", pc # "warn",
           position \notin {"off", "warn", "start", "gate", "wait", "settle"},
           position \in {"finish", "compensate", "cancelWaiting"} => InFlight = {},
           position \notin {"race", "compensate"} => main = "none",
           position = "race" => main = "none"
    PROVE  Inv'
BY DEF Goto, Inv, Shapes, Mirrored, Unsettled, Promised, Alone, Todo, InFlight

LEMMA InvLoop ==
    ASSUME Inv, Warn \/ LoopTop \/ CancelsDone \/ Resolved
    PROVE  Inv'
<1> USE DEF Inv, Shapes, Mirrored, Unsettled, Promised, Alone, Todo, InFlight
<1>1. CASE Warn
  BY <1>1 DEF Warn, Persist, Checkpoint, NoAttempt
<1>2. CASE LoopTop
  BY <1>2 DEF LoopTop, ProcessControl, Persist, Checkpoint
<1>3. CASE CancelsDone
  BY <1>3 DEF CancelsDone, Route
<1>4. CASE Resolved
  BY <1>4 DEF Resolved, Goto
<1>. QED  BY <1>1, <1>2, <1>3, <1>4

LEMMA InvLaunch ==
    ASSUME Inv, Launch
    PROVE  Inv'
<1>1. pc = "launch" /\ main = "none"
  BY DEF Launch, Inv, Alone
<1>2. ASSUME NEW chosen \in SUBSET Ready,
             launching' = chosen, pc' = "start",
             UNCHANGED <<disk, state, pending, compensationPending, recovered, job, main>>
      PROVE  Inv'
  BY <1>1, <1>2 DEF Ready, Inv, Shapes, Mirrored, Unsettled, Promised, Alone, Todo, InFlight
<1>3. ASSUME Goto("race") PROVE Inv'
  BY <1>1, <1>3, InvGoto
<1>4. ASSUME InFlight = {}, Goto("stuck") \/ Goto("finish") PROVE Inv'
  BY <1>1, <1>4, InvGoto
<1>5. ASSUME Return("paused", "control") PROVE Inv'
  BY <1>5, InvReturn
<1>. QED  BY <1>2, <1>3, <1>4, <1>5 DEF Launch, kSubset

LEMMA InvControlSettled ==
    ASSUME Inv, SettledForControl
    PROVE  Inv'
<1>1. pc = "settle" /\ InFlight = {} /\ main = "none" /\ launching = {}
  BY DEF SettledForControl, Settled, Inv, Alone, Unsettled
<1>2. ASSUME ProcessControl, Route,
             UNCHANGED <<pending, compensationPending, recovered, job, asked, launching, main>>
      PROVE  Inv'
  BY <1>1, <1>2 DEF ProcessControl, Route, Persist, Checkpoint, Inv, Shapes, Mirrored,
     Unsettled, Promised, Alone, Todo, InFlight
<1>. QED  BY <1>2, InvReturn DEF SettledForControl

LEMMA InvSettled ==
    ASSUME Inv,
           \/ SettledForAbort \/ SettledForWaiting \/ SettledForGate \/ SettledForWait
           \/ ReturnCancelled
    PROVE  Inv'
<1>1. CASE SettledForAbort \/ SettledForWaiting \/ SettledForGate
  <2>1. pc = "settle" /\ InFlight = {} /\ main = "none"
    BY <1>1 DEF SettledForAbort, SettledForWaiting, SettledForGate, Settled, Inv, Alone
  <2>2. \/ Goto("cancelWaiting") \/ Goto("control")
        \/ Return("paused", "approval") \/ Return(status, reason)
    BY <1>1 DEF SettledForAbort, SettledForWaiting, SettledForGate
  <2>3. CASE Goto("cancelWaiting") \/ Goto("control")
    BY <2>1, <2>3, InvGoto
  <2>. QED  BY <2>2, <2>3, InvReturn
<1>2. CASE SettledForWait
  <2>1. pc = "settle" /\ after = "wait" /\ InFlight = {} /\ main = "none" /\ asked \in pending
    BY <1>2 DEF SettledForWait, Settled, Inv, Alone, Unsettled
  <2>2. CASE Goto("cancelWaiting")
    BY <2>1, <2>2, InvGoto
  <2>3. CASE /\ CompleteWithoutRun(asked, "skipped") /\ Persist /\ pc' = "resolve"
             /\ UNCHANGED <<compensationPending, job, flow>>
    BY <2>1, <2>3 DEF CompleteWithoutRun, Persist, Checkpoint, NoAttempt, Inv, Shapes,
       Mirrored, Unsettled, Promised, Alone, Todo, InFlight
  <2>4. CASE Off /\ disk'.active = active
    BY <2>4, InvOff DEF Inv, Shapes
  <2>. QED  BY <1>2, <2>2, <2>3, <2>4 DEF SettledForWait, Checkpoint
<1>3. CASE ReturnCancelled
  BY <1>3, InvReturn DEF ReturnCancelled
<1>. QED  BY <1>1, <1>2, <1>3

LEMMA InvEnding ==
    ASSUME Inv, Finish \/ ReturnFinished \/ \E n \in Node : CancelWaiting(n) \/ NextCompensation(n)
    PROVE  Inv'
<1>1. CASE Finish
  <2>1. CASE Return("cancelled", "none")
    BY <2>1, InvReturn
  <2>2. CASE ~aborted
    BY <1>1, <2>2 DEF Finish, Persist, Checkpoint, Inv, Shapes, Mirrored, Unsettled, Promised,
       Alone, Todo, InFlight
  <2>. QED  BY <1>1, <2>1, <2>2 DEF Finish
<1>2. CASE ReturnFinished
  BY <1>2, InvReturn DEF ReturnFinished
<1>3. ASSUME NEW n \in Node, CancelWaiting(n) PROVE Inv'
  BY <1>3 DEF CancelWaiting, Persist, Checkpoint, Inv, Shapes, Mirrored, Unsettled, Promised,
     Alone, Todo, InFlight
<1>4. ASSUME NEW n \in Node, NextCompensation(n) PROVE Inv'
  BY <1>4 DEF NextCompensation, CompleteWithoutRun, Persist, Checkpoint, NoAttempt, Inv, Shapes,
     Mirrored, Unsettled, Promised, Alone, Todo, InFlight
<1>. QED  BY <1>1, <1>2, <1>3, <1>4

LEMMA InvFrame ==
    ASSUME Inv, UNCHANGED <<disk, pc, state, pending, compensationPending, recovered, job, flow>>
    PROVE  Inv'
BY DEF Inv, Shapes, Mirrored, Unsettled, Promised, Alone, Todo, InFlight

LEMMA InvStep == Inv /\ [Next]_vars => Inv'
<1> SUFFICES ASSUME Inv, [Next]_vars PROVE Inv'
  OBVIOUS
<1>1. ASSUME StartRun \/ RestartRun \/ \E roots : ResumeRun(roots) PROVE Inv'
  BY <1>1, InvBegin DEF StartRun, RestartRun, ResumeRun
<1>2. CASE Step
  <2>1. ASSUME NEW n \in Node, NodeStep(n) PROVE Inv'
    BY <2>1, InvComplete, InvAsked, InvStart, InvRecord, InvEnding DEF NodeStep
  <2>. QED  BY <1>2, <2>1, InvLoop, InvControlSettled, InvSettled, InvAsked, InvDies, InvLaunch,
             InvEnding DEF Step
<1>3. ASSUME NEW n \in Node, JobStep(n) PROVE Inv'
  BY <1>3, InvJob
<1>4. CASE Abort \/ \E command \in Commands : Enqueue(command)
  BY <1>4, InvFrame DEF Abort, Enqueue
<1>5. CASE Crash
  BY <1>5, InvDies
<1>6. CASE Aside
  BY <1>6, AsideKeeps, InvFrame
<1>. QED  BY <1>1, <1>2, <1>3, <1>4, <1>5, <1>6 DEF Next, Aside

THEOREM Invariance == Spec => []Inv
BY InvInit, InvStep, PTL DEF Spec

(* An attempt is in the checkpoint before its handler runs, for any Graph, *)
(* whatever dies, pauses or is aborted.                                    *)
THEOREM AttemptsAreJournaled == Spec => []Journaled
<1>1. Inv => Journaled
  <2> SUFFICES ASSUME Inv, NEW n \in Node, job[n].phase = "running"
               PROVE  /\ disk.results[n] = "none"
                      /\ disk.active[n] = Attempt(job[n].attempt, job[n].key, "running")
    BY DEF Journaled
  <2>1. n \in InFlight /\ pc # "off"
    BY DEF InFlight, Inv, Promised
  <2>. QED  BY <2>1 DEF Inv, Promised, Mirrored
<1>. QED  BY <1>1, Invariance, PTL

-----------------------------------------------------------------------------
(* What has passed is not to be done and has no promise, so no step of its *)
(* owner writes its result.                                                *)
LEMMA PassedStays ==
    ASSUME Inv, pc # "off", Next, NEW n \in Node, disk.results[n] = "passed"
    PROVE  disk'.results[n] = "passed"
<1>0. results[n] = "passed" /\ disk.results = results /\ n \notin Todo /\ n \notin InFlight
      /\ DOMAIN results = Node
  BY DEF Inv, Shapes, Mirrored, Unsettled, Promised
<1>1. ASSUME NEW m \in Node, JobStep(m) PROVE disk'.results[n] = "passed"
  <2>1. \/ \E result : SettleAs(m, result)
        \/ \E a, k : StartAttempt(m, a, k)
        \/ RetryLater(m)
    BY <1>1 DEF JobStep, Pass, Fail, ChildPauses, Retry
  <2>2. disk' = disk \/ disk'.results = results
    BY <2>1 DEF SettleAs, StartAttempt, RetryLater, Persist, Checkpoint
  <2>. QED  BY <1>0, <2>2
<1>2. ASSUME NEW m \in Node, NodeStep(m) PROVE disk'.results[n] = "passed"
  <2>1. CASE CancelNode(m) \/ CancelPending(m) \/ StopSkip(m) \/ Exclude(m) \/ NotRequired(m)
    <3>1. m # n /\ Persist /\ \E result : CompleteWithoutRun(m, result)
      BY <1>0, <2>1 DEF CancelNode, CancelPending, StopSkip, Exclude, NotRequired, Resolvable, Todo
    <3>2. disk'.results = results' /\ \E result : results' = [results EXCEPT ![m] = result]
      BY <3>1 DEF CompleteWithoutRun, Persist, Checkpoint
    <3>. QED  BY <1>0, <3>1, <3>2
  <2>2. CASE Record(m)
    BY <1>0, <2>2 DEF Record, Persist, Checkpoint, InFlight
  <2>3. CASE CancelWaiting(m)
    BY <1>0, <2>3 DEF CancelWaiting, Persist, Checkpoint
  <2>4. CASE Ask(m)
    BY <1>0, <2>4 DEF Ask
  <2>5. CASE Start(m)
    <3>1. \/ disk' = disk
          \/ \E result : SettleAs(m, result)
          \/ \E a, k : StartAttempt(m, a, k)
      BY <2>5 DEF Start
    <3>2. disk' = disk \/ disk'.results = results
      BY <3>1 DEF SettleAs, StartAttempt, Persist, Checkpoint
    <3>. QED  BY <1>0, <3>2
  <2>6. CASE NextCompensation(m)
    BY <1>0, <2>6 DEF NextCompensation, CompleteWithoutRun, Persist, Checkpoint, Todo
  <2>. QED  BY <1>2, <2>1, <2>2, <2>3, <2>4, <2>5, <2>6 DEF NodeStep
<1>3. CASE Warn \/ LoopTop \/ CancelsDone \/ Resolved \/ WaitWaits \/ AnswerThrows \/ Drained
           \/ Launch \/ Finish \/ ReturnFinished \/ ReturnCancelled \/ SettledForAbort
           \/ SettledForWaiting \/ SettledForGate \/ SettledForControl
  BY <1>0, <1>3 DEF Warn, LoopTop, CancelsDone, Resolved, WaitWaits, AnswerThrows, Drained,
     Launch, Finish, ReturnFinished, ReturnCancelled, SettledForAbort, SettledForWaiting,
     SettledForGate, SettledForControl, Return, Goto, ProcessControl, Persist, Checkpoint
<1>4. CASE GateWaits \/ \E result \in Results : Answer(result)
  <2>1. asked # n /\ asked \in Node
    BY <1>0, <1>4 DEF GateWaits, Answer, Todo, Inv, Unsettled, Shapes
  <2>2. disk'.results = results' /\ \E result : results' = [results EXCEPT ![asked] = result]
    BY <1>4 DEF GateWaits, Answer, CompleteWithoutRun, Persist, Checkpoint
  <2>. QED  BY <1>0, <2>1, <2>2
<1>5. CASE SettledForWait
  <2>1. asked # n /\ asked \in Node
    BY <1>0, <1>5 DEF SettledForWait, Settled, Todo, Inv, Unsettled, Shapes
  <2>. QED  BY <1>0, <1>5, <2>1 DEF SettledForWait, Goto, CompleteWithoutRun, Persist, Checkpoint
<1>6. CASE Abort \/ Crash \/ (\E command \in Commands : Enqueue(command))
           \/ \E m \in Node : ChildSaves(m)
  BY <1>0, <1>6 DEF Abort, Crash, Enqueue, ChildSaves
<1>. QED  BY <1>1, <1>2, <1>3, <1>4, <1>5, <1>6
          DEF Next, Step, StartRun, RestartRun, ResumeRun

(* Nor does the first checkpoint of a resumed run, unless it runs the node *)
(* again, with a node it depends on.                                       *)
LEMMA ResumeKeeps ==
    ASSUME NEW m \in Node, NEW roots \in SUBSET {m}, ResumeRun(roots), NEW n \in Node,
           disk.results[n] = "passed", disk'.results[n] # "passed"
    PROVE  \E r \in Node : n \in Closure({r}) /\ ResumeRun({r})
<1>1. disk'.results[n] = IF Kept("resume", roots, n) THEN disk.results[n] ELSE "none"
  BY DEF ResumeRun, Begin, Persist, Checkpoint
<1>2. n \in Closure(roots)
  BY <1>1 DEF Kept, Waiting, Cancelled
<1>3. roots = {m}
  <2>1. Closure({}) = {}
    BY DEF Closure
  <2>. QED  BY <1>2, <2>1
<1>. QED  BY <1>2, <1>3

(* What has passed is never lost or run again, across crashes, pauses and  *)
(* cancellations, in any Graph, unless a restart or a rerun says so.       *)
THEOREM PassedIsKept == Spec => CommittedStays
<1>1. Inv /\ [Next]_vars =>
         [\A n \in Node :
             disk # NoCheckpoint /\ disk.results[n] = "passed" /\ disk'.results[n] # "passed"
               => \/ RestartRun
                  \/ \E r \in Node : n \in Closure({r}) /\ ResumeRun({r})]_vars
  <2> SUFFICES ASSUME Inv, Next, NEW n \in Node, disk # NoCheckpoint,
                      disk.results[n] = "passed", disk'.results[n] # "passed"
               PROVE  \/ RestartRun
                      \/ \E r \in Node : n \in Closure({r}) /\ ResumeRun({r})
    OBVIOUS
  <2>1. CASE pc # "off"
    BY <2>1, PassedStays
  <2>2. CASE pc = "off"
    <3>1. CASE StartRun
      BY <3>1 DEF StartRun
    <3>2. CASE RestartRun
      BY <3>2
    <3>3. CASE \E m \in Node : \E roots \in SUBSET {m} : ResumeRun(roots)
      BY <3>3, ResumeKeeps
    <3>4. CASE Step \/ \E m \in Node : JobStep(m)
      BY <2>2, <3>4 DEF Step, NodeStep, JobStep, Warn, LoopTop, CancelsDone, SettledForControl,
         SettledForAbort, SettledForWaiting, SettledForGate, SettledForWait, Settled,
         ReturnCancelled, Resolved, Answer, GateWaits, WaitWaits, AnswerThrows, Drained, Launch,
         Finish, ReturnFinished, CancelNode, Record, CancelWaiting, CancelPending, StopSkip,
         Exclude, Ask, Start, NextCompensation, NotRequired, Pass, Fail, ChildPauses, RetryLater,
         Retry, Awaiting
    <3>5. CASE Abort \/ Crash \/ (\E command \in Commands : Enqueue(command))
               \/ \E m \in Node : ChildSaves(m)
      BY <2>2, <3>5 DEF Abort, Crash, Enqueue, ChildSaves
    <3>. QED  BY <3>1, <3>2, <3>3, <3>4, <3>5 DEF Next
  <2>. QED  BY <2>1, <2>2
<1>. QED  BY <1>1, Invariance, PTL DEF Spec, CommittedStays

-----------------------------------------------------------------------------
(* An owner that gives the Graph up.                                       *)
Counted == crashes \in Nat

LEMMA CountedStep == Counted /\ [Next]_vars => Counted' /\ (Crash => crashes' # crashes)
<1> SUFFICES ASSUME Counted, [Next]_vars PROVE Counted' /\ (Crash => crashes' # crashes)
  OBVIOUS
<1>1. crashes' = crashes \/ crashes' = crashes + 1
  <2>1. CASE Step
    BY <2>1 DEF Step, NodeStep, Warn, LoopTop, CancelsDone, SettledForControl,
       SettledForAbort, SettledForWaiting, SettledForGate, SettledForWait,
       ReturnCancelled, Resolved, Answer, GateWaits, WaitWaits, AnswerThrows, Drained, Launch,
       Finish, ReturnFinished, CancelNode, Record, CancelWaiting, CancelPending, StopSkip,
       Exclude, Ask, Start, NextCompensation, NotRequired, Return, Goto
  <2>2. ASSUME NEW n \in Node, JobStep(n) PROVE crashes' = crashes
    BY <2>2 DEF JobStep, Pass, Fail, ChildPauses, RetryLater, Retry, JobFrame
  <2>3. CASE StartRun \/ RestartRun \/ \E roots : ResumeRun(roots)
    BY <2>3 DEF StartRun, RestartRun, ResumeRun, Begin
  <2>4. CASE Abort \/ Crash \/ (\E command \in Commands : Enqueue(command))
             \/ \E n \in Node : ChildSaves(n)
    BY <2>4 DEF Abort, Crash, Enqueue, ChildSaves
  <2>. QED  BY <2>1, <2>2, <2>3, <2>4 DEF Next, vars
<1>. QED  BY <1>1 DEF Counted, Crash

LEMMA NothingRuns ==
    ASSUME Inv, InFlight = {}, pc \notin {"off", "warn"}
    PROVE  \A n \in Node : active[n].phase # "running" /\ disk.active[n].phase # "running"
BY DEF Inv, Mirrored, Promised, InFlight

LEMMA ReleaseStep ==
    ASSUME Inv, Next, ~Crash, pc # "off", pc' = "off"
    PROVE  InFlight = {} /\ \A n \in Node : disk'.active[n].phase # "running"
<1>1. ASSUME NEW st, NEW why, Return(st, why), InFlight = {}, pc # "warn"
      PROVE  InFlight = {} /\ \A n \in Node : disk'.active[n].phase # "running"
  BY <1>1, NothingRuns DEF Return, Checkpoint
<1>2. CASE Drained
  BY <1>2, NothingRuns DEF Drained
<1>3. CASE SettledForWait
  <2>1. disk'.active = active /\ InFlight = {} /\ pc = "settle"
    BY <1>3 DEF SettledForWait, Settled, Goto, Checkpoint
  <2>. QED  BY <2>1, NothingRuns
<1>4. CASE SettledForControl \/ SettledForWaiting \/ SettledForGate \/ ReturnCancelled \/ Launch
           \/ Finish \/ ReturnFinished
  <2>1. /\ InFlight = {} /\ pc # "warn"
        /\ \E st, why : Return(st, why)
    BY <1>4 DEF SettledForControl, SettledForWaiting, SettledForGate, Settled, ReturnCancelled,
       Launch, Finish, ReturnFinished, Goto, Route, Inv, Alone
  <2>. QED  BY <1>1, <2>1
<1>5. CASE Warn \/ LoopTop \/ CancelsDone \/ SettledForAbort \/ Resolved \/ GateWaits \/ WaitWaits
           \/ AnswerThrows \/ Abort \/ (\E result \in Results : Answer(result))
           \/ \E command \in Commands : Enqueue(command)
  BY <1>5 DEF Warn, LoopTop, CancelsDone, Route, SettledForAbort, Resolved, GateWaits, WaitWaits,
     AnswerThrows, Abort, Answer, Enqueue, Goto
<1>6. ASSUME NEW n \in Node, NodeStep(n) \/ JobStep(n) \/ ChildSaves(n) PROVE pc' # "off"
  BY <1>6 DEF NodeStep, JobStep, ChildSaves, CancelNode, Record, CancelWaiting, CancelPending, StopSkip,
     Exclude, Ask, Start, NextCompensation, NotRequired, Pass, Fail, ChildPauses, RetryLater,
     Retry, JobFrame
<1>. QED  BY <1>2, <1>3, <1>4, <1>5, <1>6 DEF Next, Step, StartRun, RestartRun, ResumeRun

(* An owner gives up a Graph only when every node that it started has      *)
(* settled and the checkpoint says so, whatever ends the run.              *)
THEOREM NothingLeftBehind == Spec => SettledBeforeRelease
<1> DEFINE Settles ==
       pc # "off" /\ pc' = "off" /\ crashes' = crashes
         => InFlight = {} /\ \A n \in Node : disk'.active[n].phase # "running"
<1>1. Init => Counted
  BY DEF Init, Counted
<1>2. Inv /\ Counted /\ [Next]_vars => [Settles]_vars
  BY CountedStep, ReleaseStep
<1>. QED  BY <1>1, <1>2, CountedStep, Invariance, PTL DEF Spec, SettledBeforeRelease

-----------------------------------------------------------------------------
(* Types.  The clock is the maximum of what the nodes have; that a finite  *)
(* set has one follows from a smallest set that would have none.           *)
LEMMA MaxExists ==
    ASSUME NEW S \in SUBSET Nat, IsFiniteSet(S), S # {}
    PROVE  Max(S) \in S
<1> DEFINE HasMax(T) == \E x \in T : \A y \in T : x >= y
           Bad == {T \in FiniteSubsetsOf(Nat) : T # {} /\ ~HasMax(T)}
<1>1. S \notin Bad
  <2> SUFFICES ASSUME Bad # {} PROVE FALSE
    OBVIOUS
  <2>1. PICK T \in Bad : \A U \in Bad : <<U, T>> \notin StrictSubsetOrdering(Nat)
    <3>1. IsWellFoundedOn(StrictSubsetOrdering(Nat), FiniteSubsetsOf(Nat))
      BY FS_StrictSubsetOrderingWellFounded
    <3>2. Bad \subseteq FiniteSubsetsOf(Nat)
      OBVIOUS
    <3> HIDE DEF Bad
    <3>. QED  BY <3>1, <3>2, WFMin
  <2>2. T \in SUBSET Nat /\ IsFiniteSet(T) /\ T # {} /\ ~HasMax(T)
    BY DEF FiniteSubsetsOf
  <2>3. PICK x : x \in T
    BY <2>2
  <2> DEFINE U == T \ {x}
  <2>4. IsFiniteSet(U) /\ U \in SUBSET Nat
    BY <2>2, FS_RemoveElement
  <2>5. <<U, T>> \in StrictSubsetOrdering(Nat)
    BY <2>2, <2>3, <2>4 DEF StrictSubsetOrdering
  <2>6. U \notin Bad
    BY <2>1, <2>5
  <2>7. CASE U = {}
    BY <2>2, <2>3, <2>7
  <2>8. CASE HasMax(U)
    <3>1. PICK m \in U : \A y \in U : m >= y
      BY <2>8
    <3>. QED  BY <2>2, <2>3, <3>1
  <2>. QED  BY <2>4, <2>6, <2>7, <2>8 DEF FiniteSubsetsOf
<1>2. HasMax(S)
  BY <1>1 DEF FiniteSubsetsOf
<1>. QED  BY <1>2 DEF Max

LEMMA FiniteRange ==
    ASSUME NEW f, DOMAIN f = Node
    PROVE  IsFiniteSet({f[n] : n \in Node})
<1> DEFINE T == {f[n] : n \in Node}
           g == [n \in Node |-> f[n]]
<1>1. g \in Surjection(Node, T)
  BY DEF Surjection
<1> HIDE DEF T, g
<1>2. IsFiniteSet(T)
  BY <1>1, FS_Surjection, GraphAssumption
<1>. QED  BY <1>2 DEF T

(* TypeOK in parts: what the nodes have, the checkpoint, and the rest.      *)
Data ==
    /\ results \in [Node -> Results] /\ finished \in [Node -> Nat]
    /\ active \in [Node -> Attempts] /\ recovered \in [Node -> Attempts]
    /\ job \in [Node -> Promises]
    /\ keys \in [Node -> Nat] /\ interrupted \in [Node -> Nat]

Saved == disk \in Checkpoints \union {NoCheckpoint}

Course ==
    /\ pc \in {"off", "warn", "control", "cancels", "settle", "race", "cancelWaiting",
               "resolve", "gate", "wait", "launch", "start", "finish", "compensate",
               "drain", "stuck"}
    /\ status \in {"running", "paused"} /\ reason \in {"none", "approval"} /\ done = FALSE
    /\ pending \subseteq Node /\ compensationPending \subseteq Node
    /\ after \in {"none", "control", "abort", "waiting", "gate", "wait"}
    /\ asked \in Node \union {WholeGraph} /\ launching \subseteq Node
    /\ main \in {"none", "passed", "failed"}
    /\ pc = "compensate" => main # "none"

Orders ==
    /\ mailbox \in Seq(Commands) /\ controlPaused \in BOOLEAN
    /\ pausedNodes \subseteq Node /\ cancelledNodes \subseteq Node
    /\ aborted \in BOOLEAN
    /\ runs \in 0 .. MaxRuns /\ crashes \in 0 .. MaxCrashes /\ commands \in 0 .. MaxCommands
    /\ children \subseteq Node

Typed == Data /\ Saved /\ Course /\ Orders

LEMMA TimesAreNatural ==
    ASSUME Data
    PROVE  Times \subseteq Nat
<1> DEFINE S == {finished[n] : n \in Node} \union {job[n].at : n \in Node}
<1>1. CASE \A n \in Node : Kind[n] # "compensation"
  BY <1>1 DEF Times
<1>2. CASE \E n \in Node : Kind[n] = "compensation"
  <2>0. finished \in [Node -> Nat] /\ \A n \in Node : job[n].at \in Nat
    BY DEF Data, Promises
  <2>1. S \in SUBSET Nat /\ S # {}
    BY <1>2, <2>0
  <2>2. IsFiniteSet(S)
    <3> DEFINE at == [n \in Node |-> job[n].at]
    <3>1. IsFiniteSet({finished[n] : n \in Node}) /\ IsFiniteSet({at[n] : n \in Node})
      BY <2>0, FiniteRange
    <3>. QED  BY <3>1, FS_Union
  <2>3. Max(S) \in Nat
    <3> HIDE DEF S
    <3>. QED  BY <2>1, <2>2, MaxExists
  <2>. QED  BY <1>2, <2>3 DEF Times
<1>. QED  BY <1>1, <1>2

LEMMA TypedInit == Init => Typed
<1> SUFFICES ASSUME Init PROVE Typed
  OBVIOUS
<1>1. Data
  BY DEF Init, Data, NoResults, NoTimes, NoAttempts, NoAttempt, NoJob, Attempts, Promises, Results
<1>2. Saved /\ Course
  BY DEF Init, Saved, Course
<1>3. mailbox \in Seq(Commands)
  BY DEF Init
<1>4. MaxRuns \in Nat /\ MaxCrashes \in Nat /\ MaxCommands \in Nat
  BY BoundAssumption
<1>5. runs \in 0 .. MaxRuns /\ crashes \in 0 .. MaxCrashes /\ commands \in 0 .. MaxCommands
  BY <1>4 DEF Init
<1>6. Orders
  BY <1>3, <1>5 DEF Init, Orders
<1>. QED  BY <1>1, <1>2, <1>6 DEF Typed

LEMMA Saves ==
    ASSUME Persist, status' \in {"running", "paused"}, reason' \in {"none", "approval"},
           done' = FALSE, Data'
    PROVE  Saved'
BY DEF Persist, Checkpoint, Checkpoints, Data, Saved

LEMMA Completing ==
    ASSUME NEW n \in Node, NEW r \in Results, Data, CompleteWithoutRun(n, r),
           UNCHANGED <<job, keys, interrupted>>
    PROVE  Data'
<1>1. Times \subseteq Nat
  BY TimesAreNatural
<1>2. NoAttempt \in Attempts
  BY DEF NoAttempt, Attempts
<1>3. finished' \in [Node -> Nat]
  <2>1. PICK t \in Times : finished' = [finished EXCEPT ![n] = t]
    BY DEF CompleteWithoutRun
  <2>. QED  BY <1>1, <2>1 DEF Data
<1>4. results' \in [Node -> Results]
  BY DEF Data, CompleteWithoutRun
<1>5. active' \in [Node -> Attempts] /\ recovered' \in [Node -> Attempts]
  BY <1>2 DEF Data, CompleteWithoutRun
<1>6. /\ job' \in [Node -> Promises]
      /\ keys' \in [Node -> Nat] /\ interrupted' \in [Node -> Nat]
  BY DEF Data
<1>. QED  BY <1>3, <1>4, <1>5, <1>6 DEF Data

LEMMA Attempting ==
    ASSUME Data, NEW n \in Node, NEW a \in Nat, NEW k \in Nat, StartAttempt(n, a, k),
           recovered' \in [Node -> Attempts]
    PROVE  Data'
<1>1. Attempt(a, k, "running") \in Attempts
  BY DEF Attempt, Attempts
<1>2. Job("running", a, k) \in Promises
  BY DEF Job, Results, Promises
<1>. QED  BY <1>1, <1>2 DEF Data, StartAttempt

LEMMA Settling ==
    ASSUME Data, NEW n \in Node, NEW r \in Results, SettleAs(n, r),
           recovered' \in [Node -> Attempts]
    PROVE  Data'
<1>1. Times \subseteq Nat
  BY TimesAreNatural
<1>2. ASSUME NEW t \in Times
      PROVE  SettledJob(n, r, t) \in Promises
  BY <1>1 DEF Data, SettledJob, Promises
<1>. QED  BY <1>2 DEF Data, SettleAs

LEMMA TypedOff ==
    ASSUME Typed, Off, Saved', keys' = keys, interrupted' \in [Node -> Nat],
           runs' = runs, commands' = commands, crashes' \in 0 .. MaxCrashes,
           children' = children
    PROVE  Typed'
<1>1. Data'
  BY DEF Typed, Data, Off, NoResults, NoTimes, NoAttempts, NoAttempt, NoJob, Attempts, Promises,
     Results
<1>2. Course'
  BY DEF Course, Off
<1>3. mailbox' \in Seq(Commands)
  BY DEF Off
<1>4. Orders'
  BY <1>3 DEF Typed, Orders, Off
<1>. QED  BY <1>1, <1>2, <1>4 DEF Typed

LEMMA TypedReturn ==
    ASSUME Typed, NEW st \in {"running", "paused", "passed", "failed", "cancelled"},
           NEW why \in {"none", "approval", "control", "wait"}, Return(st, why)
    PROVE  Typed'
<1>1. Saved'
  BY DEF Return, Typed, Data, Saved, Checkpoint, Checkpoints
<1>. QED  BY <1>1, TypedOff DEF Return, Typed, Data, Orders

LEMMA TypedComplete ==
    ASSUME Typed,
           \E n \in Node : \/ CancelNode(n) \/ CancelPending(n) \/ StopSkip(n) \/ Exclude(n)
                           \/ NotRequired(n)
    PROVE  Typed'
<1>1. PICK n \in Node : \/ CancelNode(n) \/ CancelPending(n) \/ StopSkip(n) \/ Exclude(n)
                        \/ NotRequired(n)
  OBVIOUS
<1>2. /\ CompleteWithoutRun(n, "skipped") \/ CompleteWithoutRun(n, "skipped: cancelled")
      /\ Persist /\ UNCHANGED <<status, reason, done, job, keys, interrupted, flow, rest>>
      /\ pc' = pc /\ aborted' = aborted
  BY <1>1 DEF CancelNode, CancelPending, StopSkip, Exclude, NotRequired
<1>3. Data'
  BY <1>2, Completing DEF Results, Cancelled, Typed
<1>4. Saved'
  BY <1>2, <1>3, Saves DEF Typed, Course
<1>5. compensationPending' \subseteq Node /\ pending' \subseteq Node
  BY <1>1 DEF Typed, Course, CancelNode, CancelPending, StopSkip, Exclude, NotRequired,
     CompleteWithoutRun
<1>6. Course'
  BY ZenonT(40), <1>2, <1>5 DEF Typed, Course
<1>7. Orders'
  BY <1>1, <1>2 DEF Typed, Orders, CancelNode, CancelPending, StopSkip, Exclude, NotRequired
<1>. QED  BY <1>3, <1>4, <1>6, <1>7 DEF Typed

LEMMA TypedAsked ==
    ASSUME Inv, Typed,
           \/ \E result \in Results : Answer(result)
           \/ GateWaits \/ WaitWaits \/ AnswerThrows \/ SettledForWait
    PROVE  Typed'
<1>0. asked \in Node
  BY DEF Inv, Unsettled, Shapes, Answer, GateWaits, WaitWaits, AnswerThrows, SettledForWait, Settled
<1>1. ASSUME NEW r \in Results, Answer(r) PROVE Typed'
  <2>1. Data'
    <3>1. PICK t \in Times : finished' = [finished EXCEPT ![asked] = t]
      BY <1>1 DEF Answer
    <3>2. t \in Nat
      BY TimesAreNatural DEF Typed
    <3>. QED  BY <1>0, <1>1, <3>1, <3>2 DEF Answer, Typed, Data
  <2>2. Saved'
    BY <1>1, <2>1, Saves DEF Answer, Typed, Course
  <2>3. Course' /\ Orders'
    BY <1>1 DEF Answer, Typed, Course, Orders
  <2>. QED  BY <2>1, <2>2, <2>3 DEF Typed
<1>2. CASE GateWaits
  <2>1. Data'
    BY <1>0, <1>2, Completing DEF GateWaits, Typed, Results, Waiting
  <2>2. Saved'
    BY <1>2, <2>1, Saves DEF GateWaits, Typed, Course
  <2>3. Course' /\ Orders'
    BY <1>2 DEF GateWaits, CompleteWithoutRun, Typed, Course, Orders
  <2>. QED  BY <2>1, <2>2, <2>3 DEF Typed
<1>3. CASE WaitWaits \/ AnswerThrows
  BY ZenonT(40), <1>3 DEF WaitWaits, AnswerThrows, Typed, Data, Saved, Course, Orders
<1>4. CASE SettledForWait
  <2>1. CASE aborted
    BY <1>4, <2>1 DEF SettledForWait, Goto, Typed, Data, Saved, Course, Orders
  <2>2. CASE ~aborted /\ StopAfterFailure
    <3>1. /\ CompleteWithoutRun(asked, "skipped")
          /\ UNCHANGED <<status, reason, done>>
          /\ Persist
          /\ pc' = "resolve"
          /\ UNCHANGED <<compensationPending, job, control, aborted, flow, keys,
                         interrupted, rest>>
      BY <1>4, <2>2 DEF SettledForWait
    <3>2. Data'
      BY <1>0, <3>1, Completing DEF Typed, Results
    <3>3. Saved'
      BY <3>1, <3>2, Saves DEF Typed, Course
    <3>4. Course' /\ Orders'
      BY <3>1 DEF CompleteWithoutRun, Typed, Course, Orders
    <3>. QED  BY <3>2, <3>3, <3>4 DEF Typed
  <2>3. CASE ~aborted /\ ~StopAfterFailure
    <3>1. PICK t \in Times :
            /\ disk' = Checkpoint("paused", "wait", FALSE,
                                  [results EXCEPT ![asked] = "waiting_signal"],
                                  [finished EXCEPT ![asked] = t], active)
            /\ Off /\ UNCHANGED <<keys, interrupted, rest>>
      BY <1>4, <2>3 DEF SettledForWait
    <3>2. t \in Nat
      BY TimesAreNatural DEF Typed
    <3>3. Saved'
      BY <1>0, <3>1, <3>2 DEF Typed, Data, Saved, Checkpoint, Checkpoints, Results, Waiting
    <3>. QED  BY <3>1, <3>3, TypedOff DEF Typed, Data, Orders
  <2>. QED  BY <2>1, <2>2, <2>3
<1>. QED  BY <1>1, <1>2, <1>3, <1>4

(* What an attempt does to its node's records, and what it leaves alone.   *)
LEMMA Attempted ==
    ASSUME Typed, NEW n \in Node, recovered' \in [Node -> Attempts],
           \/ \E r \in Results : SettleAs(n, r)
           \/ \E a, k \in Nat : StartAttempt(n, a, k)
           \/ \E a, k \in Nat : /\ job' = [job EXCEPT ![n] = Job("backoff", a, k)]
                                /\ UNCHANGED <<disk, state, keys, interrupted>>
           \/ RetryLater(n)
    PROVE  Data' /\ Saved' /\ UNCHANGED <<status, reason, done>>
<1>1. ASSUME NEW r \in Results, SettleAs(n, r)
      PROVE  Data' /\ Saved' /\ UNCHANGED <<status, reason, done>>
  <2>1. Data'
    BY <1>1, Settling DEF Typed
  <2>. QED  BY <1>1, <2>1 DEF SettleAs, Typed, Saved
<1>2. ASSUME NEW a \in Nat, NEW k \in Nat, StartAttempt(n, a, k)
      PROVE  Data' /\ Saved' /\ UNCHANGED <<status, reason, done>>
  <2>1. Data'
    BY <1>2, Attempting DEF Typed
  <2>. QED  BY <1>2, <2>1, Saves DEF StartAttempt, Typed, Course
<1>3. ASSUME NEW a \in Nat, NEW k \in Nat
      PROVE  Job("backoff", a, k) \in Promises /\ Attempt(a, k, "waiting_retry") \in Attempts
  BY DEF Job, Promises, Results, Attempt, Attempts
<1>4. ASSUME NEW a \in Nat, NEW k \in Nat, job' = [job EXCEPT ![n] = Job("backoff", a, k)],
             UNCHANGED <<disk, state, keys, interrupted>>
      PROVE  Data' /\ Saved' /\ UNCHANGED <<status, reason, done>>
  <2>1. Data'
    BY <1>3, <1>4 DEF Typed, Data
  <2>. QED  BY <1>4, <2>1 DEF Typed, Saved
<1>5. CASE RetryLater(n)
  <2> DEFINE a == job[n].attempt
             k == job[n].key
  <2>0. a \in Nat /\ k \in Nat
    BY DEF Typed, Data, Promises
  <2>1. /\ active' = [active EXCEPT ![n] = Attempt(a, k, "waiting_retry")]
        /\ job' = [job EXCEPT ![n] = Job("backoff", a, k)]
        /\ UNCHANGED <<status, reason, done, results, finished, keys, interrupted>>
        /\ Persist
    BY <1>5 DEF RetryLater
  <2>2. Attempt(a, k, "waiting_retry") \in Attempts /\ Job("backoff", a, k) \in Promises
    BY <1>3, <2>0
  <2> HIDE DEF a, k
  <2>3. active' \in [Node -> Attempts] /\ job' \in [Node -> Promises]
    BY <2>1, <2>2 DEF Typed, Data
  <2>4. Data'
    BY <2>1, <2>3 DEF Typed, Data
  <2>. QED  BY <2>1, <2>4, Saves DEF Typed, Course
<1>. QED  BY <1>1, <1>2, <1>4, <1>5

LEMMA TypedJob ==
    ASSUME Typed, NEW n \in Node, JobStep(n)
    PROVE  Typed'
<1>1. JobFrame
  BY DEF JobStep, Pass, Fail, ChildPauses, RetryLater, Retry
<1>2. job[n].attempt + 1 \in Nat /\ keys[n] + 1 \in Nat
  BY DEF Typed, Data, Promises
<1>3. recovered' \in [Node -> Attempts]
  BY <1>1 DEF JobFrame, Typed, Data
<1>4. \/ \E r \in Results : SettleAs(n, r)
      \/ \E a, k \in Nat : StartAttempt(n, a, k)
      \/ RetryLater(n)
  BY <1>2 DEF JobStep, Pass, Fail, ChildPauses, Retry, Results, Waiting, Cancelled
<1>5. Data' /\ Saved' /\ UNCHANGED <<status, reason, done>>
  BY <1>3, <1>4, Attempted
<1>6. Course' /\ Orders'
  BY <1>1, <1>5 DEF JobFrame, Typed, Course, Orders
<1>. QED  BY <1>5, <1>6 DEF Typed

LEMMA TypedStart ==
    ASSUME Typed, NEW n \in Node, Start(n)
    PROVE  Typed'
<1>1. recovered' \in [Node -> Attempts]
  BY DEF Start, NoAttempt, Attempts, Typed, Data
<1>2. recovered[n].attempt \in Nat /\ recovered[n].key \in Nat /\ keys[n] + 1 \in Nat
  BY DEF Typed, Data, Attempts
<1>3. \/ \E r \in Results : SettleAs(n, r)
      \/ \E a, k \in Nat : StartAttempt(n, a, k)
      \/ \E a, k \in Nat : /\ job' = [job EXCEPT ![n] = Job("backoff", a, k)]
                           /\ UNCHANGED <<disk, state, keys, interrupted>>
  BY <1>2 DEF Start, Results, Cancelled
<1>4. Data' /\ Saved' /\ UNCHANGED <<status, reason, done>>
  BY <1>1, <1>3, Attempted
<1>5. Course' /\ Orders'
  BY ZenonT(40), <1>4 DEF Start, Typed, Course, Orders
<1>. QED  BY <1>4, <1>5 DEF Typed

LEMMA TypedCompensation ==
    ASSUME Typed, NEW n \in Node, NextCompensation(n)
    PROVE  Typed'
<1>1. CASE Effective(n)
  BY SMTT(20), <1>1 DEF NextCompensation, Typed, Data, Saved, Course, Orders
<1>2. CASE ~Effective(n)
  <2>1. /\ CompleteWithoutRun(n, "skipped") /\ Persist
        /\ UNCHANGED <<status, reason, done, job, keys, interrupted>>
    BY <1>2 DEF NextCompensation
  <2>2. Data'
    BY <2>1, Completing DEF Typed, Results
  <2>3. Saved'
    BY <2>1, <2>2, Saves DEF Typed, Course
  <2>4. Course' /\ Orders'
    BY <1>2 DEF NextCompensation, CompleteWithoutRun, Typed, Course, Orders
  <2>. QED  BY <2>2, <2>3, <2>4 DEF Typed
<1>. QED  BY <1>1, <1>2

LEMMA TypedRecord ==
    ASSUME Typed, NEW n \in Node, Record(n)
    PROVE  Typed'
<1>1. /\ NoAttempt \in Attempts /\ NoJob \in Promises
      /\ job[n].result \in Results /\ job[n].at \in Nat
  BY DEF NoAttempt, Attempts, NoJob, Promises, Results, Typed, Data
<1>2. Data'
  BY <1>1 DEF Record, Typed, Data
<1>3. Saved'
  BY <1>2, Saves DEF Record, Typed, Course
<1>4. Course' /\ Orders'
  BY DEF Record, Typed, Course, Orders
<1>. QED  BY <1>2, <1>3, <1>4 DEF Typed

LEMMA TypedCancelWaiting ==
    ASSUME Typed, NEW n \in Node, CancelWaiting(n)
    PROVE  Typed'
<1>1. Data'
  BY DEF CancelWaiting, Typed, Data, Results, Cancelled
<1>2. Saved'
  BY <1>1, Saves DEF CancelWaiting, Typed, Course
<1>3. Course' /\ Orders'
  BY DEF CancelWaiting, Typed, Course, Orders
<1>. QED  BY <1>1, <1>2, <1>3 DEF Typed

(* The mailbox is read and emptied.                                        *)
LEMMA TypedControl ==
    ASSUME Typed, ProcessControl, UNCHANGED <<recovered, job, keys, interrupted>>
    PROVE  /\ Data' /\ Saved' /\ UNCHANGED state
           /\ mailbox' \in Seq(Commands) /\ controlPaused' \in BOOLEAN
           /\ pausedNodes' \subseteq Node /\ cancelledNodes' \subseteq Node
<1>1. PausedAfter(WholeGraph, controlPaused) \in BOOLEAN
  BY DEF PausedAfter, Typed, Orders
<1>2. Data' /\ UNCHANGED state
  BY DEF ProcessControl, Typed, Data
<1>3. Saved'
  BY <1>2, Saves DEF ProcessControl, Typed, Saved, Course
<1>. QED  BY <1>1, <1>2, <1>3 DEF ProcessControl, Typed, Orders

LEMMA TypedGoto ==
    ASSUME Typed, NEW position, Goto(position),
           position \in {"control", "cancelWaiting", "launch", "race", "stuck", "finish"}
    PROVE  Typed'
BY SMTT(20) DEF Goto, Typed, Data, Saved, Course, Orders

LEMMA TypedLoop ==
    ASSUME Typed, Warn \/ LoopTop \/ CancelsDone \/ SettledForControl
    PROVE  Typed'
<1>1. CASE Warn
  <2>1. active' \in [Node -> Attempts]
    BY <1>1 DEF Warn, NoAttempt, Attempts, Typed, Data
  <2>2. Data'
    BY <1>1, <2>1 DEF Warn, Typed, Data
  <2>3. Saved'
    BY <1>1, <2>2, Saves DEF Warn, Typed, Course
  <2>4. Course' /\ Orders'
    BY <1>1 DEF Warn, Typed, Course, Orders
  <2>. QED  BY <2>2, <2>3, <2>4 DEF Typed
<1>2. CASE LoopTop /\ pending = {} /\ InFlight = {} /\ ~Has("waiting_approval")
  BY <1>2 DEF LoopTop, Typed, Data, Saved, Course, Orders
<1>3. CASE LoopTop /\ ~(pending = {} /\ InFlight = {} /\ ~Has("waiting_approval"))
  <2>1. /\ pc' = "cancels" /\ ProcessControl
        /\ UNCHANGED <<pending, compensationPending, recovered, job, aborted,
                       flow, keys, interrupted, rest>>
    BY <1>3 DEF LoopTop
  <2>. QED  BY ZenonT(40), <2>1, TypedControl DEF Typed, Course, Orders
<1>4. CASE CancelsDone
  BY SMTT(20), <1>4 DEF CancelsDone, Route, Typed, Data, Saved, Course, Orders
<1>5. CASE SettledForControl
  <2>1. CASE Return("paused", "approval") \/ Return("paused", "control")
    BY <2>1, TypedReturn
  <2>2. CASE /\ ProcessControl /\ Route
             /\ UNCHANGED <<pending, compensationPending, recovered, job,
                            aborted, asked, launching, main, keys, interrupted, rest>>
    BY <2>2, TypedControl DEF Route, Typed, Course, Orders
  <2>. QED  BY <1>5, <2>1, <2>2 DEF SettledForControl
<1>. QED  BY <1>1, <1>2, <1>3, <1>4, <1>5

LEMMA TypedSettled ==
    ASSUME Typed, SettledForAbort \/ SettledForWaiting \/ SettledForGate \/ ReturnCancelled
    PROVE  Typed'
<1>1. CASE SettledForAbort
  BY <1>1, TypedGoto DEF SettledForAbort
<1>2. CASE SettledForWaiting
  BY <1>2, TypedGoto, TypedReturn DEF SettledForWaiting
<1>3. CASE SettledForGate
  <2>1. status \in {"running", "paused", "passed", "failed", "cancelled"}
        /\ reason \in {"none", "approval", "control", "wait"}
    BY DEF Typed, Course
  <2>. QED  BY <1>3, <2>1, TypedGoto, TypedReturn DEF SettledForGate
<1>4. CASE ReturnCancelled
  BY <1>4, TypedReturn DEF ReturnCancelled
<1>. QED  BY <1>1, <1>2, <1>3, <1>4

LEMMA TypedLaunch ==
    ASSUME Typed, Launch
    PROVE  Typed'
<1>1. PICK chosen \in kSubset(Smaller(MaxConcurrency - Cardinality(InFlight), Cardinality(Ready)),
                              Ready) :
         IF chosen # {}
         THEN /\ launching' = chosen
              /\ pc' = "start"
              /\ UNCHANGED <<disk, state, pending, compensationPending, recovered, job,
                             control, aborted, after, asked, main, keys, interrupted, rest>>
         ELSE IF InFlight # {} THEN Goto("race")
         ELSE IF pending \intersect pausedNodes # {} THEN Return("paused", "control")
         ELSE IF pending # {} THEN Goto("stuck")
         ELSE Goto("finish")
  BY DEF Launch
<1>2. chosen \subseteq Node
  BY DEF kSubset, Ready, Typed, Course
<1>3. CASE chosen # {}
  BY SMTT(20), <1>1, <1>2, <1>3 DEF Typed, Data, Saved, Course, Orders
<1>4. CASE chosen = {}
  BY <1>1, <1>4, TypedGoto, TypedReturn
<1>. QED  BY <1>3, <1>4

LEMMA TypedEnding ==
    ASSUME Typed, Finish \/ ReturnFinished \/ Drained \/ Resolved
    PROVE  Typed'
<1>1. CASE Finish /\ aborted
  BY <1>1, TypedReturn DEF Finish
<1>2. CASE Finish /\ ~aborted
  <2>1. Data'
    BY <1>2 DEF Finish, Typed, Data
  <2>2. Saved'
    BY <1>2, <2>1, Saves DEF Finish, Typed, Saved, Course
  <2>3. Course' /\ Orders'
    BY <1>2 DEF Finish, Typed, Course, Orders
  <2>. QED  BY <2>1, <2>2, <2>3 DEF Typed
<1>3. CASE ReturnFinished
  <2>1. main \in {"running", "paused", "passed", "failed", "cancelled"}
    BY <1>3 DEF ReturnFinished, Typed, Course
  <2>. QED  BY <1>3, <2>1, TypedReturn DEF ReturnFinished
<1>4. CASE Drained
  BY <1>4, TypedOff DEF Drained, Typed, Data, Saved, Orders
<1>5. CASE Resolved
  BY <1>5, TypedGoto DEF Resolved
<1>. QED  BY <1>1, <1>2, <1>3, <1>4, <1>5

LEMMA TypedBegin ==
    ASSUME Typed, NEW mode, NEW roots, Begin(mode, roots), runs < MaxRuns,
           mode = "resume" => disk # NoCheckpoint
    PROVE  Typed'
<1>1. mode = "resume" => /\ disk.results \in [Node -> Results] /\ disk.finished \in [Node -> Nat]
                         /\ disk.active \in [Node -> Attempts]
  BY DEF Typed, Saved, Checkpoints
<1>2. NoAttempt \in Attempts /\ NoAttempts \in [Node -> Attempts] /\ "none" \in Results
  BY DEF NoAttempts, NoAttempt, Attempts, Results
<1> DEFINE res == [n \in Node |-> IF Kept(mode, roots, n) THEN disk.results[n] ELSE "none"]
<1>3. /\ results' = res
      /\ finished' = [n \in Node |-> IF res[n] # "none" THEN disk.finished[n] ELSE 0]
  BY DEF Begin
<1>4. \A n \in Node : res[n] # "none" => mode = "resume"
  BY DEF Kept
<1>5. results' \in [Node -> Results]
  BY <1>1, <1>2, <1>3 DEF Kept
<1>6. finished' \in [Node -> Nat]
  <2> HIDE DEF res
  <2>. QED  BY <1>1, <1>3, <1>4
<1>7. active' \in [Node -> Attempts] /\ recovered' \in [Node -> Attempts]
  BY <1>1, <1>2 DEF Begin
<1>8. interrupted' \in [Node -> Nat] /\ UNCHANGED <<job, keys>>
  BY DEF Begin, Typed, Data
<1>9. Data'
  BY <1>5, <1>6, <1>7, <1>8 DEF Typed, Data
<1>10. Saved'
  BY <1>9, Saves DEF Begin
<1>11. pending' \subseteq Node /\ compensationPending' \subseteq Node
  BY DEF Begin
<1>12. Course'
  BY <1>11 DEF Begin, Typed, Course
<1>13. runs + 1 \in 0 .. MaxRuns
  BY BoundAssumption DEF Typed, Orders
<1>14. Orders'
  BY <1>13 DEF Begin, Typed, Orders
<1>. QED  BY <1>9, <1>10, <1>12, <1>14 DEF Typed

LEMMA TypedOutside ==
    ASSUME Typed, Abort \/ Crash \/ \E command \in Commands : Enqueue(command)
    PROVE  Typed'
<1>1. CASE Abort
  BY <1>1 DEF Abort, Typed, Data, Saved, Course, Orders
<1>2. CASE Crash
  <2>1. interrupted' \in [Node -> Nat]
    BY <1>2 DEF Crash, Typed, Data, Promises
  <2>2. crashes' \in 0 .. MaxCrashes
    BY <1>2, BoundAssumption DEF Crash, Typed, Orders
  <2>. QED  BY <1>2, <2>1, <2>2, TypedOff DEF Crash, Typed, Saved
<1>3. ASSUME NEW command \in Commands, Enqueue(command) PROVE Typed'
  <2>1. mailbox' \in Seq(Commands)
    BY <1>3 DEF Enqueue, Typed, Orders
  <2>2. commands' \in 0 .. MaxCommands
    BY <1>3, BoundAssumption DEF Enqueue, Typed, Orders
  <2>. QED  BY SMTT(20), <1>3, <2>1, <2>2 DEF Enqueue, Typed, Data, Saved, Course, Orders
<1>. QED  BY <1>1, <1>2, <1>3

LEMMA TypedAsk ==
    ASSUME Typed, NEW n \in Node, Ask(n)
    PROVE  Typed'
BY SMTT(20) DEF Ask, Typed, Data, Saved, Course, Orders

LEMMA TypedStep == Inv /\ Typed /\ [Next]_vars => Typed'
<1> SUFFICES ASSUME Inv, Typed, [Next]_vars PROVE Typed'
  OBVIOUS
<1>1. ASSUME StartRun \/ RestartRun \/ \E roots : ResumeRun(roots) PROVE Typed'
  BY <1>1, TypedBegin DEF StartRun, RestartRun, ResumeRun
<1>2. CASE Step
  <2>1. ASSUME NEW n \in Node, NodeStep(n) PROVE Typed'
    BY <2>1, TypedComplete, TypedRecord, TypedCancelWaiting, TypedAsk, TypedStart,
       TypedCompensation DEF NodeStep
  <2>. QED  BY <1>2, <2>1, TypedLoop, TypedSettled, TypedAsked, TypedLaunch, TypedEnding DEF Step
<1>3. ASSUME NEW n \in Node, JobStep(n) PROVE Typed'
  BY <1>3, TypedJob
<1>4. CASE Abort \/ Crash \/ \E command \in Commands : Enqueue(command)
  BY <1>4, TypedOutside
<1>5. CASE UNCHANGED vars
  BY <1>5 DEF vars, Typed, Data, Saved, Course, Orders
<1>6. CASE \E n \in Node : ChildSaves(n)
  BY <1>6 DEF ChildSaves, Typed, Data, Saved, Course, Orders
<1>. QED  BY <1>1, <1>2, <1>3, <1>4, <1>5, <1>6 DEF Next

THEOREM TypesHold == Spec => []Typed
BY TypedInit, TypedStep, Invariance, PTL DEF Spec

(* Every variable has its type, for any Graph, any limits and any bounds.  *)
THEOREM TypeCorrect == Spec => []TypeOK
<1>1. Typed => TypeOK
  BY DEF Typed, Data, Saved, Course, Orders, TypeOK
<1>. QED  BY <1>1, TypesHold, PTL

-----------------------------------------------------------------------------
(* The progress of a run: the scheduler always finds something to do,      *)
(* compensations run in the order of a rollback, and a handler runs after  *)
(* what it depends on.                                                     *)
USE DEF state, control, flow, rest

Started == launching \union InFlight

(* No node is forgotten: it has a result, a promise or is still to do.     *)
Covered ==
    /\ pc # "off" => \A n \in Node : results[n] = "none" => n \in Todo \union InFlight
    /\ \A n \in Node : job[n].phase = "settled" => job[n].result # "none"

(* Compensations start when nothing else is left, in the order of their    *)
(* targets, for an effect that is there.                                   *)
InTurn(n) == Effective(n) /\ \A m \in compensationPending : Before(n, m)

Rollback ==
    /\ \A n \in Started : Kind[n] = "compensation" <=> main # "none"
    /\ pc \in {"finish", "compensate"} \/ main # "none" => pending = {}
    /\ main # "none" => \A n \in Started : InTurn(n)

Turns == Covered /\ Rollback

LEMMA TurnsInit == Init => Turns
BY DEF Init, Turns, Covered, Rollback, Started, InFlight, NoJob, NoResults

LEMMA TurnsOff ==
    ASSUME Off
    PROVE  Turns'
BY DEF Off, Turns, Covered, Rollback, Started, InFlight, NoJob

LEMMA TurnsBegin ==
    ASSUME Inv, NEW mode, NEW roots, Begin(mode, roots), pc = "off"
    PROVE  Turns'
<1>0. /\ pc' = "warn" /\ UNCHANGED <<job, launching, main>>
      /\ pending' = {n \in {m \in Node : results'[m] = "none"} : Kind[n] # "compensation"}
      /\ compensationPending' = {n \in {m \in Node : results'[m] = "none"} :
                                    Kind[n] = "compensation"}
  BY DEF Begin
<1>1. /\ pc' = "warn" /\ UNCHANGED <<job, launching, main>>
      /\ pending' \union compensationPending' = {n \in Node : results'[n] = "none"}
  BY <1>0
<1>2. InFlight = {} /\ launching = {} /\ main = "none"
  BY DEF Inv, Promised, Unsettled, Alone
<1>3. InFlight' = {} /\ Started' = {}
  BY <1>1, <1>2 DEF InFlight, Started
<1>4. Covered'
  BY <1>1, <1>3 DEF Covered, InFlight, Todo
<1>5. Rollback'
  BY <1>1, <1>2, <1>3 DEF Rollback
<1>. QED  BY <1>4, <1>5 DEF Turns

(* Steps that only move the scheduler.                                     *)
LEMMA TurnsMove ==
    ASSUME Inv, Turns, pc # "off",
           UNCHANGED <<results, finished, job, pending, compensationPending, launching, main>>,
           pc' \in {"finish", "compensate"} => pending = {}
    PROVE  Turns'
BY DEF Turns, Covered, Rollback, InTurn, Effective, Before, Latest, Started, Todo, InFlight

(* A node that nothing was started for ends.                               *)
LEMMA TurnsEnd ==
    ASSUME Inv, Turns, NEW n \in pending \union compensationPending, NEW r \in Results \ {"none"},
           pc # "off", main # "none" => Started = {},
           results' = [results EXCEPT ![n] = r],
           pending' = pending \ {n}, compensationPending' = compensationPending \ {n},
           UNCHANGED <<job, launching, main>>,
           pc' \in {"finish", "compensate"} => pc' = pc
    PROVE  Turns'
<1>1. Started' = Started /\ InFlight' = InFlight
  BY DEF Started, InFlight
<1>2. Covered'
  BY <1>1 DEF Inv, Shapes, Turns, Covered, Todo, InFlight
<1>3. Rollback'
  BY <1>1 DEF Turns, Rollback
<1>. QED  BY <1>2, <1>3 DEF Turns

(* A promise goes on, or is made for a node that was chosen.               *)
LEMMA TurnsPromise ==
    ASSUME Inv, Turns, NEW n \in Started, NEW j, j.phase # "none",
           j.phase = "settled" => j.result # "none",
           job' = [job EXCEPT ![n] = j],
           launching' = launching \ {n}, pending' = pending \ {n},
           UNCHANGED <<results, finished, compensationPending, main>>,
           pc # "off", pc' \notin {"finish", "compensate"}
    PROVE  Turns'
<1>1. Started' = Started /\ InFlight' = InFlight \union {n} /\ n \in Node
  BY DEF Started, InFlight, Inv, Shapes
<1>2. Covered'
  BY <1>1 DEF Inv, Shapes, Turns, Covered, Todo, InFlight
<1>3. \A m \in Started : InTurn(m) => InTurn(m)'
  BY DEF InTurn, Effective, Before, Latest
<1>4. Rollback'
  BY <1>1, <1>3 DEF Turns, Rollback
<1>. QED  BY <1>2, <1>4 DEF Turns

LEMMA TurnsRecord ==
    ASSUME Inv, Turns, NEW n \in Node, Record(n)
    PROVE  Turns'
<1>1. /\ results' = [results EXCEPT ![n] = job[n].result] /\ job[n].result # "none"
      /\ job' = [job EXCEPT ![n] = NoJob] /\ n \in InFlight /\ pc # "off"
      /\ UNCHANGED <<pending, compensationPending, launching, main>>
  BY DEF Record, Turns, Covered, InFlight
<1>2. InFlight' = InFlight \ {n}
  BY <1>1 DEF InFlight, NoJob, Inv, Shapes
<1>3. Covered'
  BY <1>1, <1>2 DEF Inv, Shapes, Turns, Covered, Todo, NoJob
<1>4. pc' = "compensate" => main # "none"
  BY DEF Record
<1>5. pc' # "finish"
  BY DEF Record
<1>6. main # "none" => Started' = {}
  <2>1. pc # "start" => launching = {}
    BY DEF Inv, Unsettled
  <2>2. pc \in {"settle", "race", "drain"}
    BY DEF Record
  <2>3. main # "none" => pc = "race"
    BY <2>2 DEF Inv, Alone
  <2>. QED  BY <1>1, <1>2, <2>1, <2>3 DEF Inv, Alone, Started
<1>7. Started' \subseteq Started
  BY <1>1, <1>2 DEF Started
<1>8. Rollback'
  BY <1>1, <1>4, <1>5, <1>6, <1>7 DEF Turns, Rollback
<1>. QED  BY <1>3, <1>8 DEF Turns

LEMMA TurnsLaunch ==
    ASSUME Inv, Turns, Launch
    PROVE  Turns'
<1>1. pc = "launch" /\ main = "none"
  BY DEF Launch, Inv, Alone
<1>2. ASSUME NEW chosen \in SUBSET Ready, launching' = chosen, pc' = "start",
             UNCHANGED <<results, pending, compensationPending, job, main>>
      PROVE  Turns'
  <2>1. chosen \subseteq pending /\ InFlight' = InFlight /\ launching = {}
    BY <1>1, <1>2 DEF Ready, InFlight, Inv, Unsettled
  <2>2. Covered'
    BY <1>1, <1>2, <2>1 DEF Turns, Covered, Todo
  <2>3. Rollback'
    BY <1>1, <1>2, <2>1 DEF Turns, Rollback, Started, Inv, Unsettled
  <2>. QED  BY <2>2, <2>3 DEF Turns
<1>3. ASSUME NEW position \in {"race", "stuck", "finish"}, Goto(position),
             position = "finish" => pending = {}
      PROVE  Turns'
  BY <1>1, <1>3, TurnsMove DEF Goto
<1>4. ASSUME Return("paused", "control") PROVE Turns'
  BY <1>4, TurnsOff DEF Return
<1>. QED  BY <1>2, <1>3, <1>4 DEF Launch, kSubset

LEMMA TurnsCompensation ==
    ASSUME Inv, Turns, NEW n \in Node, NextCompensation(n)
    PROVE  Turns'
<1>1. /\ pc = "compensate" /\ main = "failed" /\ n \in compensationPending
      /\ compensationPending' = compensationPending \ {n}
      /\ \A m \in compensationPending : Before(n, m)
      /\ UNCHANGED <<job, main>>
  BY DEF NextCompensation
<1>2. Started = {} /\ pending = {} /\ launching = {} /\ InFlight = {}
  BY <1>1 DEF Started, Inv, Alone, Unsettled, Turns, Rollback
<1>3. CASE Effective(n)
  <2>1. launching' = {n} /\ pc' = "start" /\ UNCHANGED <<results, finished, pending>>
    BY <1>3 DEF NextCompensation
  <2>2. InFlight' = {} /\ Started' = {n}
    BY <1>1, <1>2, <2>1 DEF InFlight, Started
  <2>3. Covered'
    BY <1>1, <1>2, <2>1, <2>2 DEF Turns, Covered, Todo
  <2>4. InTurn(n)'
    BY <1>1, <1>3, <2>1 DEF InTurn, Effective, Before, Latest
  <2>5. Kind[n] = "compensation"
    BY <1>1 DEF Inv, Unsettled
  <2>6. Rollback'
    BY <1>1, <1>2, <2>1, <2>2, <2>4, <2>5 DEF Rollback
  <2>. QED  BY <2>3, <2>6 DEF Turns
<1>4. CASE ~Effective(n)
  <2>1. /\ results' = [results EXCEPT ![n] = "skipped"] /\ pending' = pending \ {n}
        /\ UNCHANGED <<pc, launching>>
    BY <1>4 DEF NextCompensation, CompleteWithoutRun
  <2>. QED  BY <1>1, <1>2, <2>1, TurnsEnd DEF Results
<1>. QED  BY <1>3, <1>4

LEMMA TurnsComplete ==
    ASSUME Inv, Turns, NEW n \in Node,
           CancelNode(n) \/ CancelPending(n) \/ StopSkip(n) \/ Exclude(n) \/ NotRequired(n)
    PROVE  Turns'
<1>1. /\ \/ results' = [results EXCEPT ![n] = "skipped"]
         \/ results' = [results EXCEPT ![n] = "skipped: cancelled"]
      /\ pending' = pending \ {n}
      /\ UNCHANGED <<pc, job, launching, main>>
  BY DEF CancelNode, CancelPending, StopSkip, Exclude, NotRequired, CompleteWithoutRun
<1>2. "skipped" \in Results \ {"none"} /\ "skipped: cancelled" \in Results \ {"none"}
  BY DEF Results, Cancelled
<1>3. CASE CancelNode(n) \/ CancelPending(n) \/ StopSkip(n) \/ Exclude(n)
  <2>1. /\ n \in pending /\ n \notin compensationPending
        /\ pc \in {"cancels", "cancelWaiting", "resolve"}
        /\ compensationPending' = compensationPending
    BY <1>3 DEF CancelNode, CancelPending, StopSkip, Exclude, Resolvable, Inv, Unsettled
  <2>2. main = "none"
    BY <2>1 DEF Inv, Alone
  <2>3. compensationPending' = compensationPending \ {n}
    BY <2>1
  <2>. QED  BY <1>1, <1>2, <2>1, <2>2, <2>3, TurnsEnd
<1>4. CASE NotRequired(n)
  <2>1. /\ n \in compensationPending /\ pc = "compensate"
        /\ compensationPending' = compensationPending \ {n}
    BY <1>4 DEF NotRequired
  <2>2. Started = {}
    BY <2>1 DEF Started, Inv, Alone, Unsettled
  <2>. QED  BY <1>1, <1>2, <2>1, <2>2, TurnsEnd
<1>. QED  BY <1>3, <1>4

LEMMA TurnsAsked ==
    ASSUME Inv, Turns,
           \/ \E n \in Node : Ask(n)
           \/ \E result \in Results : Answer(result)
           \/ GateWaits \/ WaitWaits \/ AnswerThrows \/ SettledForWait
    PROVE  Turns'
<1>1. CASE (\E n \in Node : Ask(n)) \/ WaitWaits \/ AnswerThrows
  <2>1. pc # "off" /\ pc' \in {"gate", "wait", "settle", "drain"}
    BY <1>1 DEF Ask, WaitWaits, AnswerThrows
  <2>2. UNCHANGED <<results, finished, job, pending, compensationPending, launching, main>>
    BY <1>1 DEF Ask, WaitWaits, AnswerThrows
  <2>3. pc' \notin {"finish", "compensate"}
    BY <2>1
  <2>. QED  BY <2>1, <2>2, <2>3, TurnsMove
<1>2. ASSUME NEW r \in Results \ {"none"}, pc \in {"gate", "wait", "settle"}, asked \in pending,
             results' = [results EXCEPT ![asked] = r], pending' = pending \ {asked},
             UNCHANGED <<compensationPending, job, launching, main>>,
             pc' \in {"resolve", "settle"}
      PROVE  Turns'
  <2>1. main = "none" /\ pc # "off" /\ pc' \notin {"finish", "compensate"}
        /\ asked \notin compensationPending
    BY <1>2 DEF Inv, Alone, Unsettled
  <2>2. /\ compensationPending' = compensationPending \ {asked}
        /\ asked \in pending \union compensationPending
    BY <1>2, <2>1
  <2>3. UNCHANGED <<job, launching, main>>
    BY <1>2
  <2>. QED  BY <1>2, <2>1, <2>2, <2>3, TurnsEnd
<1>3. {"passed", "failed", "skipped", "waiting_approval"} \subseteq Results \ {"none"}
  BY DEF Results, Waiting
<1>4. CASE \E result \in Results : Answer(result)
  BY <1>2, <1>3, <1>4 DEF Answer, Inv, Unsettled
<1>5. CASE GateWaits
  BY <1>2, <1>3, <1>5 DEF GateWaits, CompleteWithoutRun, Inv, Unsettled
<1>6. CASE SettledForWait
  <2>1. pc = "settle" /\ asked \in pending
    BY <1>6 DEF SettledForWait, Settled, Inv, Unsettled
  <2>2. CASE Goto("cancelWaiting")
    BY <2>1, <2>2, TurnsMove DEF Goto
  <2>3. CASE Off
    BY <2>3, TurnsOff
  <2>4. CASE ~aborted /\ StopAfterFailure
    BY <1>2, <1>3, <1>6, <2>1, <2>4 DEF SettledForWait, CompleteWithoutRun
  <2>. QED  BY <1>6, <2>2, <2>3, <2>4 DEF SettledForWait
<1>. QED  BY <1>1, <1>4, <1>5, <1>6

LEMMA TurnsJob ==
    ASSUME Inv, Turns, NEW n \in Node, JobStep(n)
    PROVE  Turns'
<1>1. /\ n \in InFlight /\ n \notin launching /\ n \notin pending
      /\ pc # "off" /\ pc' = pc /\ pc \notin {"finish", "compensate"}
      /\ UNCHANGED <<pending, compensationPending, launching, main>>
  BY DEF JobStep, Pass, Fail, ChildPauses, RetryLater, Retry, JobFrame, Awaiting, InFlight,
     Inv, Unsettled, Todo
<1>2. ASSUME NEW r, SettleAs(n, r), r # "none" PROVE Turns'
  <2>1. PICK t \in Times : job' = [job EXCEPT ![n] = SettledJob(n, r, t)]
    BY <1>2 DEF SettleAs
  <2>2. UNCHANGED <<results, finished>>
    BY <1>2 DEF SettleAs
  <2>. QED  BY <1>1, <1>2, <2>1, <2>2, TurnsPromise DEF SettledJob, Started
<1>3. ASSUME NEW phase \in {"running", "backoff"}, NEW a, NEW k,
             job' = [job EXCEPT ![n] = Job(phase, a, k)], UNCHANGED <<results, finished>>
      PROVE  Turns'
  BY ZenonT(40), <1>1, <1>3, TurnsPromise DEF Job, Started
<1>4. CASE Pass(n) \/ Fail(n) \/ ChildPauses(n)
  BY <1>2, <1>4 DEF Pass, Fail, ChildPauses
<1>5. CASE RetryLater(n)
  BY <1>3, <1>5 DEF RetryLater
<1>6. CASE Retry(n)
  BY <1>2, <1>3, <1>6 DEF Retry, StartAttempt
<1>. QED  BY <1>4, <1>5, <1>6 DEF JobStep

LEMMA TurnsStart ==
    ASSUME Inv, Turns, NEW n \in Node, Start(n)
    PROVE  Turns'
<1>1. /\ n \in Started /\ pc = "start" /\ pc' \in {"start", "race"}
      /\ launching' = launching \ {n} /\ pending' = pending \ {n}
      /\ UNCHANGED <<compensationPending, main>>
  BY DEF Start, Started
<1>2. ASSUME NEW r, SettleAs(n, r), r # "none" PROVE Turns'
  <2>1. PICK t \in Times : job' = [job EXCEPT ![n] = SettledJob(n, r, t)]
    BY <1>2 DEF SettleAs
  <2>2. UNCHANGED <<results, finished>>
    BY <1>2 DEF SettleAs
  <2>. QED  BY <1>1, <1>2, <2>1, <2>2, TurnsPromise DEF SettledJob
<1>3. ASSUME NEW phase \in {"running", "backoff"}, NEW a, NEW k,
             job' = [job EXCEPT ![n] = Job(phase, a, k)], UNCHANGED <<results, finished>>
      PROVE  Turns'
  BY <1>1, <1>3, TurnsPromise DEF Job
<1>. QED  BY <1>2, <1>3 DEF Start, StartAttempt

LEMMA TurnsCancelWaiting ==
    ASSUME Inv, Turns, NEW n \in Node, CancelWaiting(n)
    PROVE  Turns'
<1>1. /\ pc = "cancelWaiting" /\ pc' = pc
      /\ results' = [results EXCEPT ![n] = "skipped: cancelled"]
      /\ UNCHANGED <<job, pending, compensationPending, launching, main>>
  BY DEF CancelWaiting
<1>2. main = "none"
  BY <1>1 DEF Inv, Alone
<1>. QED  BY <1>1, <1>2 DEF Inv, Shapes, Turns, Covered, Rollback, Started, Todo, InFlight

LEMMA TurnsLoop ==
    ASSUME Inv, Turns, Warn \/ LoopTop \/ CancelsDone \/ Resolved \/ SettledForControl
                       \/ SettledForAbort \/ SettledForWaiting \/ SettledForGate
                       \/ ReturnCancelled \/ Drained \/ ReturnFinished \/ Finish
    PROVE  Turns'
<1>1. CASE Warn \/ CancelsDone \/ Resolved
  <2>1. pc # "off" /\ pc' \notin {"finish", "compensate"}
    BY <1>1 DEF Warn, CancelsDone, Route, Resolved, Goto
  <2>. QED  BY <1>1, <2>1, TurnsMove DEF Warn, CancelsDone, Resolved, Goto
<1>2. CASE LoopTop
  <2>1. pc # "off" /\ (pc' \in {"finish", "compensate"} => pending = {})
    BY <1>2 DEF LoopTop
  <2>. QED  BY <1>2, <2>1, TurnsMove DEF LoopTop, ProcessControl
<1>3. CASE SettledForControl
  <2>1. CASE Off
    BY <2>1, TurnsOff
  <2>2. CASE /\ ProcessControl /\ Route
             /\ UNCHANGED <<pending, compensationPending, recovered, job,
                            aborted, asked, launching, main, keys, interrupted, rest>>
    <3>1. pc # "off" /\ pc' \notin {"finish", "compensate"}
      BY <1>3, <2>2 DEF SettledForControl, Settled, Route
    <3>. QED  BY <2>2, <3>1, TurnsMove DEF ProcessControl
  <2>. QED  BY <1>3, <2>1, <2>2 DEF SettledForControl, Return
<1>4. CASE SettledForAbort \/ SettledForWaiting \/ SettledForGate
  <2>1. pc = "settle" /\ \/ Goto("cancelWaiting") \/ Goto("control") \/ Off
    BY <1>4 DEF SettledForAbort, SettledForWaiting, SettledForGate, Settled, Return
  <2>2. CASE Off
    BY <2>2, TurnsOff
  <2>3. CASE Goto("cancelWaiting") \/ Goto("control")
    BY <2>1, <2>3, TurnsMove DEF Goto
  <2>. QED  BY <2>1, <2>2, <2>3
<1>5. CASE ReturnCancelled \/ Drained \/ ReturnFinished
  BY <1>5, TurnsOff DEF ReturnCancelled, Drained, ReturnFinished, Return
<1>6. CASE Finish
  <2>1. CASE Off
    BY <2>1, TurnsOff
  <2>2. CASE ~aborted
    <3>1. /\ pc = "finish" /\ pc' = "compensate" /\ main' \in {"passed", "failed"}
          /\ UNCHANGED <<results, finished, job, pending, compensationPending, launching>>
      BY <1>6, <2>2 DEF Finish
    <3>2. Started' = {} /\ InFlight' = InFlight
      BY <3>1 DEF Started, InFlight, Inv, Alone, Unsettled
    <3>. QED  BY <3>1, <3>2 DEF Turns, Covered, Rollback, Todo
  <2>. QED  BY <1>6, <2>1, <2>2 DEF Finish, Return
<1>. QED  BY <1>1, <1>2, <1>3, <1>4, <1>5, <1>6

LEMMA TurnsStep == Inv /\ Turns /\ [Next]_vars => Turns'
<1> SUFFICES ASSUME Inv, Turns, [Next]_vars PROVE Turns'
  OBVIOUS
<1>1. ASSUME StartRun \/ RestartRun \/ \E roots : ResumeRun(roots) PROVE Turns'
  BY <1>1, TurnsBegin DEF StartRun, RestartRun, ResumeRun
<1>2. CASE Step
  <2>1. ASSUME NEW n \in Node, NodeStep(n) PROVE Turns'
    BY <2>1, TurnsComplete, TurnsRecord, TurnsCancelWaiting, TurnsAsked, TurnsStart,
       TurnsCompensation DEF NodeStep
  <2>. QED  BY <1>2, <2>1, TurnsLoop, TurnsAsked, TurnsLaunch DEF Step
<1>3. ASSUME NEW n \in Node, JobStep(n) PROVE Turns'
  BY <1>3, TurnsJob
<1>4. CASE Crash
  BY <1>4, TurnsOff DEF Crash
<1>5. CASE Abort \/ \E command \in Commands : Enqueue(command)
  <2>1. pc # "off" /\ pc' = pc
    BY <1>5 DEF Abort, Enqueue
  <2>2. UNCHANGED <<results, finished, job, pending, compensationPending, launching, main>>
    BY <1>5 DEF Abort, Enqueue
  <2>. QED  BY <2>1, <2>2, TurnsMove DEF Turns, Rollback
<1>6. CASE Aside
  BY <1>6, AsideKeeps DEF Turns, Covered, Rollback, InTurn, Effective, Before, Latest, Started, Todo,
     InFlight
<1>. QED  BY <1>1, <1>2, <1>3, <1>4, <1>5, <1>6 DEF Next, Aside

THEOREM TurnsHold == Spec => []Turns
BY TurnsInit, TurnsStep, Invariance, PTL DEF Spec

-----------------------------------------------------------------------------
(* Among nodes that wait for one another one waits for none of them; it is *)
(* ready, and at least one ready node starts.                              *)
LEMMA SomethingReady ==
    ASSUME Inv, Turns, pc = "launch", InFlight = {}, pending # {},
           pending \intersect pausedNodes = {}
    PROVE  Ready # {}
<1>1. PICK n \in pending : DependsOn[n] \intersect pending = {}
  BY AcyclicAssumption DEF Inv, Shapes
<1>2. n \in Node /\ Kind[n] # "compensation" /\ launching = {}
  BY <1>1 DEF Inv, Shapes, Unsettled
<1>3. ASSUME NEW d \in DependsOn[n] PROVE results[d] # "none"
  <2>1. d \in Node /\ Kind[d] # "compensation" /\ d \notin pending
    BY <1>1, <1>2, GraphAssumption
  <2>2. d \notin compensationPending
    BY <2>1 DEF Inv, Unsettled
  <2>. QED  BY <1>2, <2>1, <2>2 DEF Turns, Covered, Todo
<1>. QED  BY <1>1, <1>3 DEF Ready, DependenciesDone

LEMMA SomethingStarts ==
    ASSUME Inv, Turns, pc = "launch", InFlight = {}, Ready # {}
    PROVE  {} \notin kSubset(Smaller(MaxConcurrency - Cardinality(InFlight), Cardinality(Ready)),
                             Ready)
<1>1. IsFiniteSet(Ready)
  <2>1. Ready \subseteq Node
    BY DEF Ready, Inv, Shapes
  <2>. QED  BY <2>1, GraphAssumption, FS_Subset
<1>2. Cardinality(Ready) \in Nat \ {0} /\ Cardinality({}) = 0
  BY <1>1, FS_EmptySet, FS_CardinalityType
<1>3. MaxConcurrency - Cardinality(InFlight) \in Nat \ {0}
  BY <1>2, GraphAssumption
<1>4. Smaller(MaxConcurrency - Cardinality(InFlight), Cardinality(Ready)) # 0
  BY <1>2, <1>3 DEF Smaller
<1>. QED  BY <1>2, <1>4 DEF kSubset

LEMMA NeverStuckStep == Inv /\ Turns /\ NeverStuck /\ [Next]_vars => NeverStuck'
<1> SUFFICES ASSUME Inv, Turns, pc # "stuck", [Next]_vars PROVE pc' # "stuck"
  BY DEF NeverStuck
<1>1. CASE Launch
  <2>1. pc = "launch"
    BY <1>1 DEF Launch
  <2>2. CASE InFlight = {} /\ pending # {} /\ pending \intersect pausedNodes = {}
    <3>1. ASSUME NEW chosen \in kSubset(Smaller(MaxConcurrency - Cardinality(InFlight),
                                                Cardinality(Ready)), Ready)
          PROVE  chosen # {}
      BY <2>1, <2>2, SomethingReady, SomethingStarts
    <3>. QED  BY <1>1, <3>1 DEF Launch
  <2>3. CASE ~(InFlight = {} /\ pending # {} /\ pending \intersect pausedNodes = {})
    BY <1>1, <2>3 DEF Launch, Goto, Return, Off
  <2>. QED  BY <2>2, <2>3
<1>2. ASSUME NEW n \in Node, NodeStep(n) PROVE pc' # "stuck"
  BY <1>2, GraphAssumption DEF NodeStep, CancelNode, Record, CancelWaiting, CancelPending,
     StopSkip, Exclude, Ask, Start, NextCompensation, NotRequired
<1>3. CASE SettledForControl \/ SettledForAbort \/ SettledForWaiting \/ SettledForGate
           \/ SettledForWait \/ ReturnCancelled
  BY <1>3 DEF SettledForControl, SettledForAbort, SettledForWaiting, SettledForGate,
     SettledForWait, ReturnCancelled, Settled, Route, Goto, Return, Off
<1>4. CASE Warn \/ LoopTop \/ CancelsDone \/ Resolved \/ GateWaits \/ WaitWaits \/ AnswerThrows
           \/ Drained \/ Finish \/ ReturnFinished \/ \E result \in Results : Answer(result)
  BY <1>4 DEF Warn, LoopTop, CancelsDone, Route, Resolved, GateWaits, WaitWaits, AnswerThrows,
     Drained, Finish, ReturnFinished, Answer, Goto, Return, Off
<1>5. ASSUME StartRun \/ RestartRun \/ \E roots : ResumeRun(roots) PROVE pc' # "stuck"
  BY <1>5 DEF StartRun, RestartRun, ResumeRun, Begin
<1>6. ASSUME NEW n \in Node, JobStep(n) PROVE pc' # "stuck"
  BY <1>6 DEF JobStep, Pass, Fail, ChildPauses, RetryLater, Retry, JobFrame
<1>7. CASE Abort \/ Crash \/ \E command \in Commands : Enqueue(command)
  BY <1>7 DEF Abort, Crash, Enqueue, Off
<1>8. CASE Aside
  BY <1>8, AsideKeeps
<1>. QED  BY <1>1, <1>2, <1>3, <1>4, <1>5, <1>6, <1>7, <1>8 DEF Next, Step, Aside

(* "Graph scheduler made no progress" is never thrown, for any Graph       *)
(* without a cycle: when nothing is in flight or paused, something starts. *)
THEOREM AlwaysProgress == Spec => []NeverStuck
<1>1. Init => NeverStuck
  BY DEF Init, NeverStuck
<1>. QED  BY <1>1, NeverStuckStep, Invariance, TurnsHold, PTL DEF Spec

-----------------------------------------------------------------------------
(* The time of a compensation's latest target is a number.                 *)
LEMMA LatestIsNatural ==
    ASSUME Data, NEW n \in Node, Kind[n] = "compensation"
    PROVE  Latest(n) \in Nat
<1> DEFINE S == {finished[t] : t \in Compensates[n]}
<1>1. Compensates[n] # {} /\ Compensates[n] \subseteq Node
  BY GraphAssumption
<1>2. finished \in [Node -> Nat]
  BY DEF Data
<1>3. IsFiniteSet(S)
  <2>1. IsFiniteSet({finished[m] : m \in Node})
    BY <1>2, FiniteRange
  <2>2. S \subseteq {finished[m] : m \in Node}
    BY <1>1
  <2> HIDE DEF S
  <2>. QED  BY <2>1, <2>2, FS_Subset
<1>4. S # {} /\ S \in SUBSET Nat
  BY <1>1, <1>2
<1>5. Max(S) \in S
  <2> HIDE DEF S
  <2>. QED  BY <1>3, <1>4, MaxExists
<1>. QED  BY <1>4, <1>5 DEF Latest

(* A compensation runs alone, after all forward work, for a target that    *)
(* passed, and after the compensations of all later targets.               *)
THEOREM RollbackInOrder == Spec => []RollbackOrder
<1>1. Inv /\ Turns /\ Typed => RollbackOrder
  <2> SUFFICES ASSUME Inv, Turns, Typed, NEW n \in Node, Kind[n] = "compensation",
                      job[n].phase = "running"
               PROVE  /\ InFlight = {n} /\ pending = {} /\ Effective(n)
                      /\ \A m \in Node : Kind[m] = "compensation" /\ Latest(m) > Latest(n)
                                            => disk.results[m] # "none"
    BY DEF RollbackOrder
  <2>1. n \in InFlight /\ n \in Started
    BY DEF InFlight, Started
  <2>2. main # "none" /\ pending = {} /\ InTurn(n)
    BY <2>1 DEF Turns, Rollback
  <2>3. pc = "race" /\ launching = {}
    BY <2>1, <2>2 DEF Inv, Alone, Unsettled
  <2>4. InFlight = {n}
    BY <2>1, <2>2, <2>3 DEF Inv, Alone
  <2>5. ASSUME NEW m \in Node, Kind[m] = "compensation", Latest(m) > Latest(n)
        PROVE  disk.results[m] # "none"
    <3>1. Latest(m) \in Nat /\ Latest(n) \in Nat
      BY <2>5, LatestIsNatural DEF Typed
    <3>2. m # n /\ m \notin compensationPending
      BY <2>2, <2>5, <3>1 DEF InTurn, Before
    <3>3. results[m] # "none"
      BY <2>2, <2>3, <2>4, <3>2 DEF Turns, Covered, Todo
    <3>. QED  BY <2>3, <3>3 DEF Inv, Mirrored
  <2>. QED  BY <2>2, <2>4, <2>5 DEF InTurn
<1>. QED  BY <1>1, Invariance, TurnsHold, TypesHold, PTL

-----------------------------------------------------------------------------
(* Graphs without waits, and whose compensations depend on forward nodes.  *)
(* A wait that pauses while others settle may go on with a child Graph     *)
(* paused beside it, and compensations do not order themselves by their    *)
(* dependencies.                                                           *)
Forward ==
    \A n \in Node : Kind[n] # "wait" /\ \A d \in DependsOn[n] : Kind[d] # "compensation"

(* What n depends on has ended, in the way that n is made for.             *)
Fits(n) ==
    \A d \in DependsOn[n] :
        /\ results[d] \notin Waiting \union {"none"}
        /\ Condition[n] = {} /\ Kind[n] \notin {"join", "compensation"} => results[d] = "passed"

NothingWaits == \A n \in Node : results[n] \notin Waiting

(* The scheduler goes on past the top of its loop only if nothing waits.   *)
Past == {"resolve", "gate", "launch", "start", "finish", "compensate"}

Fit ==
    /\ \A n \in Started : Fits(n)
    /\ pc \in Past \/ main # "none" => NothingWaits
    /\ pc = "launch" => \A n \in pending : DependenciesDone(n) => ~Excluded(n)
    /\ \A n \in Node : results[n] # "waiting_signal" /\ job[n].result # "waiting_signal"
    /\ \A n \in Node : job[n].result = "waiting_approval" => Kind[n] = "subgraph"
    /\ pc # "wait" /\ after # "wait"

LEMMA FitInit == Init => Fit
BY DEF Init, Fit, Past, Waiting, Started, InFlight, NoJob, NoResults

LEMMA FitOff ==
    ASSUME Off
    PROVE  Fit'
BY DEF Off, Fit, Past, Waiting, Started, InFlight, NoJob, NoResults

LEMMA FitBegin ==
    ASSUME Inv, Fit, NEW mode, NEW roots, Begin(mode, roots), pc = "off"
    PROVE  Fit'
<1>1. /\ pc' = "warn" /\ UNCHANGED <<job, launching, main, after>>
      /\ results' = [n \in Node |-> IF Kept(mode, roots, n) THEN disk.results[n] ELSE "none"]
  BY DEF Begin
<1>2. InFlight = {} /\ launching = {} /\ main = "none"
  BY DEF Inv, Promised, Unsettled, Alone
<1>3. Started' = {}
  BY <1>1, <1>2 DEF InFlight, Started
<1>4. \A n \in Node : results'[n] # "waiting_signal"
  BY <1>1 DEF Kept, Waiting
<1>. QED  BY <1>1, <1>2, <1>3, <1>4 DEF Fit, Past

LEMMA FitMove ==
    ASSUME Fit, UNCHANGED <<results, job, pending, launching, main>>,
           pc' \in Past => pc \in Past \/ NothingWaits,
           pc' = "launch" => \A n \in pending : DependenciesDone(n) => ~Excluded(n),
           pc' # "wait", after' # "wait"
    PROVE  Fit'
<1>1. \A n \in Node : Fits(n) => Fits(n)'
  BY DEF Fits
<1>2. NothingWaits' <=> NothingWaits
  BY DEF NothingWaits
<1>3. \A n : DependenciesDone(n)' = DependenciesDone(n) /\ Excluded(n)' = Excluded(n)
  BY DEF DependenciesDone, Excluded, Matches, StatusOf
<1>. QED  BY <1>1, <1>2, <1>3 DEF Fit, Fits, Started, InFlight

(* A result, once there, is what the nodes behind it started from.         *)
LEMMA FitResult ==
    ASSUME Inv, Fit, NEW n \in Node, results[n] = "none", NEW r, r # "waiting_signal",
           results' = [results EXCEPT ![n] = r],
           r \in Waiting => pc' \notin Past /\ main' = "none",
           main' = main, Started' \subseteq Started,
           \A m \in Node : job'[m].result = job[m].result \/ job'[m].result = "none",
           pc' # "launch", pc' # "wait", after' = after \/ after' # "wait",
           pc' \in Past => pc \in Past \/ main # "none"
    PROVE  Fit'
<1>1. ASSUME NEW m \in Started PROVE Fits(m)'
  <2>1. \A d \in DependsOn[m] : d # n
    BY DEF Fit, Fits
  <2>2. \A d \in DependsOn[m] : results'[d] = results[d]
    BY <2>1 DEF Inv, Shapes
  <2>. QED  BY <2>2 DEF Fit, Fits
<1>2. r \notin Waiting /\ NothingWaits => NothingWaits'
  BY DEF NothingWaits, Inv, Shapes
<1>3. \A m \in Node : results'[m] # "waiting_signal"
  BY DEF Fit, Inv, Shapes
<1>. QED  BY <1>1, <1>2, <1>3 DEF Fit

LEMMA FitPromise ==
    ASSUME Inv, Fit, NEW n \in Started, NEW j, j.phase # "none",
           j.result # "waiting_signal", j.result = "waiting_approval" => Kind[n] = "subgraph",
           job' = [job EXCEPT ![n] = j],
           launching' = launching \ {n},
           UNCHANGED <<results, main, after>>,
           pc' = pc \/ (pc = "start" /\ pc' = "race"), pc # "launch"
    PROVE  Fit'
<1>1. Started' = Started /\ n \in Node
  BY DEF Started, InFlight, Inv, Shapes
<1>2. \A m : Fits(m)' = Fits(m)
  BY DEF Fits
<1>3. NothingWaits' <=> NothingWaits
  BY DEF NothingWaits
<1>4. pc' # "launch" /\ pc' # "wait" /\ (pc' \in Past => pc \in Past)
  BY DEF Fit, Past
<1>5. \A m \in Node : /\ job'[m].result # "waiting_signal"
                      /\ job'[m].result = "waiting_approval" => Kind[m] = "subgraph"
  BY DEF Fit, Inv, Shapes
<1>. QED  BY <1>1, <1>2, <1>3, <1>4, <1>5 DEF Fit

LEMMA FitRecord ==
    ASSUME Inv, Turns, Fit, NEW n \in Node, Record(n)
    PROVE  Fit'
<1>1. /\ results' = [results EXCEPT ![n] = job[n].result] /\ job[n].phase = "settled"
      /\ job' = [job EXCEPT ![n] = NoJob] /\ n \in InFlight
      /\ UNCHANGED <<after, launching, main>>
  BY DEF Record, InFlight
<1>2. results[n] = "none" /\ Started' \subseteq Started
  BY <1>1 DEF Inv, Shapes, Promised, Started, InFlight, NoJob
<1>3. pc \in {"settle", "race", "drain"} /\ (main # "none" => pc = "race")
  BY DEF Record, Inv, Alone
<1>4. job[n].result \in Waiting => main = "none"
  <2>1. n \in Started
    BY <1>1 DEF Started
  <2>. QED  BY <2>1 DEF Fit, Waiting, Turns, Rollback
<1>5. \/ pc' = pc \/ (main = "none" /\ pc' = "control")
      \/ (main # "none" /\ pc' = "compensate")
  BY <1>3 DEF Record
<1>6. \A m \in Node : job'[m].result = job[m].result \/ job'[m].result = "none"
  BY <1>1 DEF NoJob, Inv, Shapes
<1>7. job[n].result # "waiting_signal"
  BY DEF Fit
<1>8. /\ job[n].result \in Waiting => pc' \notin Past
      /\ pc' \in Past => main # "none"
      /\ pc' # "launch" /\ pc' # "wait"
  BY <1>3, <1>4, <1>5 DEF Past
<1>. QED  BY <1>1, <1>2, <1>4, <1>6, <1>7, <1>8, FitResult

LEMMA FitJob ==
    ASSUME Inv, Fit, NEW n \in Node, JobStep(n)
    PROVE  Fit'
<1>1. /\ n \in InFlight /\ n \notin launching
      /\ pc' = pc /\ pc # "launch"
      /\ UNCHANGED <<launching, main, after>>
  BY DEF JobStep, Pass, Fail, ChildPauses, RetryLater, Retry, JobFrame, Awaiting, InFlight,
     Inv, Unsettled, Todo
<1>2. ASSUME NEW r, SettleAs(n, r), r # "waiting_signal",
             r = "waiting_approval" => Kind[n] = "subgraph"
      PROVE  Fit'
  <2>1. PICK t \in Times : job' = [job EXCEPT ![n] = SettledJob(n, r, t)]
    BY <1>2 DEF SettleAs
  <2>2. SettledJob(n, r, t).phase = "settled" /\ SettledJob(n, r, t).result = r
    BY DEF SettledJob
  <2>3. n \in Started /\ launching' = launching \ {n} /\ results' = results
    BY <1>1, <1>2 DEF SettleAs, Started
  <2>. QED  BY <1>1, <1>2, <2>1, <2>2, <2>3, FitPromise
<1>3. ASSUME NEW phase \in {"running", "backoff"}, NEW a, NEW k,
             job' = [job EXCEPT ![n] = Job(phase, a, k)], results' = results
      PROVE  Fit'
  BY <1>1, <1>3, FitPromise DEF Job, Started
<1>4. CASE Pass(n) \/ Fail(n) \/ ChildPauses(n)
  BY <1>2, <1>4 DEF Pass, Fail, ChildPauses
<1>5. CASE RetryLater(n)
  BY <1>3, <1>5 DEF RetryLater
<1>6. CASE Retry(n)
  BY <1>2, <1>3, <1>6 DEF Retry, StartAttempt
<1>. QED  BY <1>4, <1>5, <1>6 DEF JobStep

LEMMA FitStart ==
    ASSUME Inv, Fit, NEW n \in Node, Start(n)
    PROVE  Fit'
<1>1. /\ n \in Started /\ pc = "start" /\ pc' \in {"start", "race"}
      /\ launching' = launching \ {n}
      /\ UNCHANGED <<main, after>>
  BY DEF Start, Started
<1>2. ASSUME NEW r, SettleAs(n, r), r \notin Waiting PROVE Fit'
  <2>1. PICK t \in Times : job' = [job EXCEPT ![n] = SettledJob(n, r, t)]
    BY <1>2 DEF SettleAs
  <2>. QED  BY <1>1, <1>2, <2>1, FitPromise DEF SettleAs, SettledJob, Waiting
<1>3. ASSUME NEW phase \in {"running", "backoff"}, NEW a, NEW k,
             job' = [job EXCEPT ![n] = Job(phase, a, k)], results' = results
      PROVE  Fit'
  BY <1>1, <1>3, FitPromise DEF Job
<1>. QED  BY <1>2, <1>3 DEF Start, StartAttempt, Waiting

LEMMA FitEnds ==
    ASSUME Inv, Fit, NEW n \in Node,
           CancelNode(n) \/ CancelPending(n) \/ StopSkip(n) \/ Exclude(n) \/ NotRequired(n)
    PROVE  Fit'
<1>1. /\ \/ results' = [results EXCEPT ![n] = "skipped"]
         \/ results' = [results EXCEPT ![n] = "skipped: cancelled"]
      /\ UNCHANGED <<pc, job, launching, main, after>>
  BY DEF CancelNode, CancelPending, StopSkip, Exclude, NotRequired, CompleteWithoutRun
<1>2. results[n] = "none" /\ pc # "launch"
  BY DEF CancelNode, CancelPending, StopSkip, Exclude, Resolvable, NotRequired, Inv, Unsettled,
     Todo
<1>3. Started' = Started
  BY <1>1 DEF Started, InFlight
<1>4. pc # "wait" /\ "skipped" \notin Waiting /\ "skipped: cancelled" \notin Waiting
  BY DEF Fit, Waiting
<1>. QED  BY <1>1, <1>2, <1>3, <1>4, FitResult DEF Waiting

LEMMA FitCancelWaiting ==
    ASSUME Inv, Fit, NEW n \in Node, CancelWaiting(n)
    PROVE  Fit'
<1>1. /\ pc = "cancelWaiting" /\ pc' = pc
      /\ results' = [results EXCEPT ![n] = "skipped: cancelled"]
      /\ UNCHANGED <<job, launching, main, after>>
  BY DEF CancelWaiting
<1>2. main' = "none" /\ Started' = {}
  BY <1>1 DEF Inv, Alone, Unsettled, Started, InFlight
<1>. QED  BY <1>1, <1>2 DEF Fit, Past, Inv, Shapes

LEMMA FitAsked ==
    ASSUME Inv, Fit, Forward,
           \/ \E n \in Node : Ask(n)
           \/ \E result \in Results : Answer(result)
           \/ GateWaits \/ WaitWaits \/ AnswerThrows \/ SettledForWait
    PROVE  Fit'
<1>1. ASSUME NEW n \in Node, Ask(n) PROVE Fit'
  <2>1. pc = "resolve" /\ pc' = "gate" /\ UNCHANGED <<results, job, pending, launching, main, after>>
    BY <1>1 DEF Ask, Forward
  <2>. QED  BY <2>1, FitMove DEF Past, Fit
<1>2. CASE AnswerThrows
  <2>1. pc' = "drain" /\ UNCHANGED <<results, job, pending, launching, main, after>>
    BY <1>2 DEF AnswerThrows
  <2>. QED  BY <2>1, FitMove DEF Past, Fit
<1>3. ASSUME NEW r, pc = "gate", r # "waiting_signal",
             results' = [results EXCEPT ![asked] = r],
             UNCHANGED <<job, launching, main>>,
             \/ pc' = "resolve" /\ after' = after /\ r \notin Waiting
             \/ pc' = "settle" /\ after' = "gate"
      PROVE  Fit'
  <2>1. asked \in Node /\ results[asked] = "none" /\ main = "none"
    BY <1>3 DEF Inv, Shapes, Unsettled, Todo, Alone
  <2>2. Started' = Started
    BY <1>3 DEF Started, InFlight
  <2>3. r \in Waiting => pc' \notin Past
    BY <1>3 DEF Past
  <2>4. pc' # "launch" /\ pc' # "wait" /\ pc \in Past
    BY <1>3 DEF Past
  <2>. QED  BY <1>3, <2>1, <2>2, <2>3, <2>4, FitResult
<1>4. CASE \E result \in Results : Answer(result)
  BY <1>3, <1>4 DEF Answer, Waiting, Fit
<1>5. CASE GateWaits
  BY <1>3, <1>5 DEF GateWaits, CompleteWithoutRun
<1>6. ~WaitWaits /\ ~SettledForWait
  BY DEF WaitWaits, SettledForWait, Settled, Fit
<1>. QED  BY <1>1, <1>2, <1>4, <1>5, <1>6

LEMMA FitLaunch ==
    ASSUME Inv, Fit, Launch
    PROVE  Fit'
<1>1. pc = "launch" /\ main = "none" /\ NothingWaits /\ launching = {}
  BY DEF Launch, Inv, Alone, Unsettled, Fit, Past
<1>2. ASSUME NEW chosen \in SUBSET Ready, launching' = chosen, pc' = "start",
             UNCHANGED <<results, pending, job, main, after>>
      PROVE  Fit'
  <2>1. ASSUME NEW m \in Ready PROVE Fits(m)
    <3>1. m \in pending /\ m \in Node /\ DependenciesDone(m) /\ ~Excluded(m)
      BY <1>1 DEF Ready, Fit, Inv, Shapes
    <3>2. \A d \in DependsOn[m] : d \in Node
      BY <3>1, GraphAssumption
    <3>. QED  BY <1>1, <3>1, <3>2 DEF Fits, NothingWaits, DependenciesDone, Excluded
  <2>2. Started' = chosen \union InFlight
    BY <1>2 DEF Started, InFlight
  <2>3. \A m \in Started' : Fits(m)
    BY <2>1, <2>2 DEF Fit, Started
  <2>4. \A m : Fits(m)' = Fits(m)
    BY <1>2 DEF Fits
  <2>5. NothingWaits'
    BY <1>1, <1>2 DEF NothingWaits
  <2>. QED  BY <1>2, <2>3, <2>4, <2>5 DEF Fit
<1>3. ASSUME NEW position \in {"race", "stuck", "finish"}, Goto(position)
      PROVE  Fit'
  BY <1>1, <1>3, FitMove DEF Goto, Fit
<1>4. ASSUME Return("paused", "control") PROVE Fit'
  BY <1>4, FitOff DEF Return
<1>. QED  BY <1>2, <1>3, <1>4 DEF Launch, kSubset

(* A compensation starts when every forward node has ended.                *)
LEMMA FitCompensation ==
    ASSUME Inv, Turns, Fit, Forward, NEW n \in Node, NextCompensation(n)
    PROVE  Fit'
<1>1. /\ pc = "compensate" /\ main = "failed" /\ n \in compensationPending
      /\ UNCHANGED <<job, main, after>>
  BY DEF NextCompensation
<1>2. /\ pending = {} /\ launching = {} /\ InFlight = {} /\ NothingWaits
      /\ Kind[n] = "compensation"
  BY <1>1 DEF Inv, Alone, Unsettled, Turns, Rollback, Fit
<1>3. CASE Effective(n)
  <2>1. launching' = {n} /\ pc' = "start" /\ UNCHANGED <<results, pending>>
    BY <1>3 DEF NextCompensation
  <2>2. Started' = {n}
    BY <1>1, <1>2, <2>1 DEF InFlight, Started
  <2>3. ASSUME NEW d \in DependsOn[n] PROVE results[d] \notin Waiting \union {"none"}
    <3>1. d \in Node /\ Kind[d] # "compensation"
      BY GraphAssumption DEF Forward
    <3>2. d \notin compensationPending
      BY <3>1 DEF Inv, Unsettled
    <3>. QED  BY <1>1, <1>2, <3>1, <3>2 DEF Turns, Covered, Todo, NothingWaits
  <2>4. Fits(n)'
    BY <1>2, <2>1, <2>3 DEF Fits
  <2>5. NothingWaits'
    BY <1>2, <2>1 DEF NothingWaits
  <2>. QED  BY <1>1, <2>1, <2>2, <2>4, <2>5 DEF Fit
<1>4. CASE ~Effective(n)
  <2>1. results' = [results EXCEPT ![n] = "skipped"] /\ UNCHANGED <<pc, launching>>
    BY <1>4 DEF NextCompensation, CompleteWithoutRun
  <2>2. results[n] = "none"
    BY <1>1 DEF Inv, Unsettled, Todo
  <2>3. Started' = Started
    BY <1>1, <2>1 DEF Started, InFlight
  <2>. QED  BY <1>1, <2>1, <2>2, <2>3, FitResult DEF Waiting
<1>. QED  BY <1>3, <1>4

LEMMA FitLoop ==
    ASSUME Inv, Fit, Warn \/ LoopTop \/ CancelsDone \/ Resolved \/ SettledForControl
                     \/ SettledForAbort \/ SettledForWaiting \/ SettledForGate
                     \/ ReturnCancelled \/ Drained \/ ReturnFinished \/ Finish
    PROVE  Fit'
<1>0. NothingWaits <=> ~Has("waiting_approval")
  BY DEF Fit, NothingWaits, Has, Waiting
<1>1. CASE Warn \/ LoopTop
  <2>1. /\ pc' \in {"control", "cancels", "finish"}
        /\ pc' = "finish" => NothingWaits
        /\ UNCHANGED <<results, job, pending, launching, main, after>>
    BY <1>0, <1>1 DEF Warn, LoopTop, ProcessControl
  <2>. QED  BY <2>1, FitMove DEF Past, Fit
<1>2. ASSUME Route \/ (pc' = "settle" /\ after' = "control"),
             UNCHANGED <<results, job, pending, launching, main>>
      PROVE  Fit'
  <2>1. /\ pc' \in {"settle", "resolve"}
        /\ pc' = "resolve" => NothingWaits
        /\ after' # "wait"
    BY <1>0, <1>2 DEF Route
  <2>. QED  BY <1>2, <2>1, FitMove DEF Past
<1>3. CASE CancelsDone
  BY <1>2, <1>3 DEF CancelsDone
<1>4. CASE SettledForControl
  BY <1>2, <1>4, FitOff DEF SettledForControl, ProcessControl, Return
<1>5. CASE Resolved
  <2>1. /\ pc = "resolve" /\ pc' = "launch"
        /\ UNCHANGED <<results, job, pending, launching, main, after>>
        /\ \A n \in pending : DependenciesDone(n) => ~Excluded(n)
    BY <1>5 DEF Resolved, Goto
  <2>. QED  BY <2>1, FitMove DEF Past, Fit
<1>6. CASE SettledForAbort \/ SettledForWaiting \/ SettledForGate
  <2>1. Goto("cancelWaiting") \/ Goto("control") \/ Off
    BY <1>6 DEF SettledForAbort, SettledForWaiting, SettledForGate, Return
  <2>2. CASE Goto("cancelWaiting") \/ Goto("control")
    BY <2>2, FitMove DEF Goto, Past, Fit
  <2>. QED  BY <2>1, <2>2, FitOff
<1>7. CASE ReturnCancelled \/ Drained \/ ReturnFinished
  BY <1>7, FitOff DEF ReturnCancelled, Drained, ReturnFinished, Return
<1>8. CASE Finish
  <2>1. CASE Off
    BY <2>1, FitOff
  <2>2. CASE ~aborted
    <3>1. /\ pc = "finish" /\ pc' = "compensate"
          /\ UNCHANGED <<results, job, pending, launching, after>>
      BY <1>8, <2>2 DEF Finish
    <3>2. NothingWaits' /\ \A n \in Started : Fits(n)'
      BY <3>1 DEF Fit, Past, NothingWaits, Fits
    <3>. QED  BY <3>1, <3>2 DEF Fit, Started, InFlight
  <2>. QED  BY <1>8, <2>1, <2>2 DEF Finish, Return
<1>. QED  BY <1>1, <1>3, <1>4, <1>5, <1>6, <1>7, <1>8

LEMMA FitStep == Forward /\ Inv /\ Turns /\ Fit /\ [Next]_vars => Fit'
<1> SUFFICES ASSUME Forward, Inv, Turns, Fit, [Next]_vars PROVE Fit'
  OBVIOUS
<1>1. ASSUME StartRun \/ RestartRun \/ \E roots : ResumeRun(roots) PROVE Fit'
  BY <1>1, FitBegin DEF StartRun, RestartRun, ResumeRun
<1>2. CASE Step
  <2>1. ASSUME NEW n \in Node, NodeStep(n) PROVE Fit'
    BY <2>1, FitEnds, FitRecord, FitCancelWaiting, FitAsked, FitStart, FitCompensation
       DEF NodeStep
  <2>. QED  BY <1>2, <2>1, FitLoop, FitAsked, FitLaunch DEF Step
<1>3. ASSUME NEW n \in Node, JobStep(n) PROVE Fit'
  BY <1>3, FitJob
<1>4. CASE Crash
  BY <1>4, FitOff DEF Crash
<1>5. CASE (Abort \/ \E command \in Commands : Enqueue(command)) \/ Aside
  <2>1. UNCHANGED <<pc, results, job, pending, launching, main, after>>
    BY <1>5, AsideKeeps DEF Abort, Enqueue
  <2>. QED  BY <2>1, FitMove DEF Fit
<1>. QED  BY <1>1, <1>2, <1>3, <1>4, <1>5 DEF Next, Aside

(* In a Graph without waits, and whose compensations depend on forward     *)
(* nodes, a handler runs only after the checkpoint has the results of all  *)
(* it depends on, passed ones unless it is made for others.                *)
THEOREM DependenciesFirstCommitted ==
    ASSUME Forward
    PROVE  Spec => []DependenciesCommitted
<1>1. Inv /\ Fit => DependenciesCommitted
  <2> SUFFICES ASSUME Inv, Fit, NEW n \in Node, job[n].phase = "running", NEW d \in DependsOn[n]
               PROVE  /\ disk.results[d] \notin Waiting \union {"none"}
                      /\ Condition[n] = {} /\ Kind[n] \notin {"join", "compensation"}
                           => disk.results[d] = "passed"
    BY DEF DependenciesCommitted
  <2>1. n \in InFlight /\ n \in Started /\ Fits(n)
    BY DEF InFlight, Started, Fit
  <2>2. disk.results = results
    BY <2>1 DEF Inv, Promised, Mirrored
  <2>. QED  BY <2>1, <2>2 DEF Fits
<1>. QED  BY <1>1, FitInit, FitStep, Invariance, TurnsHold, PTL DEF Spec

-----------------------------------------------------------------------------
(* Runs that nothing pauses and nobody aborts: their nodes work, join or   *)
(* compensate, and no operator gives the command "pause".                  *)
Unattended ==
    /\ \A n \in Node : Kind[n] \in {"work", "join", "compensation"}
    /\ "pause" \notin Operations
    /\ ~MayAbort

(* What results are there.                                                 *)
Ordinary == {"none", "passed", "failed", "skipped"}

Quiet ==
    /\ pc \notin {"gate", "wait", "drain", "cancelWaiting", "settle"}
    /\ ~aborted /\ ~controlPaused /\ pausedNodes = {}
    /\ \A i \in DOMAIN mailbox : mailbox[i].op # "pause"
    /\ \A n \in Node : results[n] \in Ordinary /\ job[n].result \in Ordinary
    /\ disk # NoCheckpoint => \A n \in Node : disk.results[n] \in Ordinary

LEMMA QuietInit == Init => Quiet
BY DEF Init, Quiet, Ordinary, NoJob, NoResults

LEMMA QuietOff ==
    ASSUME Off, \A n \in Node : disk'.results[n] \in Ordinary
    PROVE  Quiet'
BY DEF Off, Quiet, Ordinary, NoJob, NoResults

(* The last command about a target is one of those in the mailbox.         *)
LEMMA NothingPauses ==
    ASSUME Typed, Quiet, NEW target, NEW old, ~old
    PROVE  ~PausedAfter(target, old)
<1> DEFINE about == {i \in DOMAIN mailbox : mailbox[i].node = target /\ mailbox[i].op # "cancel"}
<1>1. Len(mailbox) \in Nat /\ DOMAIN mailbox = 1 .. Len(mailbox)
  BY DEF Typed, Orders
<1>2. about \subseteq 1 .. Len(mailbox)
  BY <1>1
<1>3. about \in SUBSET Nat /\ IsFiniteSet(about)
  <2>1. IsFiniteSet(1 .. Len(mailbox)) /\ 1 .. Len(mailbox) \subseteq Nat
    BY <1>1, FS_Interval
  <2> HIDE DEF about
  <2>. QED  BY <1>2, <2>1, FS_Subset
<1>4. about # {} => Max(about) \in about
  <2> HIDE DEF about
  <2>. QED  BY <1>3, MaxExists
<1>5. about # {} => mailbox[Max(about)].op # "pause"
  BY <1>4 DEF Quiet
<1>. QED  BY <1>5 DEF PausedAfter

(* Steps of a scheduler that write no other results.                       *)
LEMMA QuietMove ==
    ASSUME Quiet, Inv', pc # "off", pc' \notin {"off", "gate", "wait", "drain", "cancelWaiting", "settle"},
           ~aborted', ~controlPaused', pausedNodes' = {},
           mailbox' = mailbox \/ \A i \in DOMAIN mailbox' : mailbox'[i].op # "pause",
           \A n \in Node : results'[n] \in Ordinary /\ job'[n].result \in Ordinary
    PROVE  Quiet'
BY DEF Quiet, Inv, Mirrored

LEMMA QuietBegin ==
    ASSUME Inv, Inv', Quiet, NEW mode, NEW roots, Begin(mode, roots), pc = "off",
           mode = "resume" => disk # NoCheckpoint
    PROVE  Quiet'
<1>1. /\ pc' = "warn" /\ UNCHANGED <<job, control, aborted>>
      /\ \A n \in Node : results'[n] \in Ordinary
  BY DEF Begin, Kept, Quiet, Ordinary
<1>2. disk'.results = results'
  BY <1>1 DEF Inv, Mirrored
<1>. QED  BY <1>1, <1>2 DEF Quiet

LEMMA QuietNode ==
    ASSUME Unattended, Inv, Inv', Turns, Quiet, NEW n \in Node, NodeStep(n)
    PROVE  Quiet'
<1>1. CASE CancelNode(n) \/ StopSkip(n) \/ Exclude(n) \/ NotRequired(n)
  <2>1. /\ results' = [results EXCEPT ![n] = "skipped"] /\ pc' = pc /\ pc # "off"
        /\ UNCHANGED <<job, aborted, mailbox, controlPaused, pausedNodes>>
    BY <1>1 DEF CancelNode, StopSkip, Exclude, NotRequired, CompleteWithoutRun
  <2>2. \A m \in Node : results'[m] \in Ordinary
    BY <2>1 DEF Quiet, Ordinary, Inv, Shapes
  <2>. QED  BY <2>1, <2>2, QuietMove DEF Quiet
<1>2. CASE NextCompensation(n)
  <2>1. /\ results' = results \/ results' = [results EXCEPT ![n] = "skipped"]
        /\ pc = "compensate" /\ pc' \in {"compensate", "start"}
        /\ UNCHANGED <<job, aborted, mailbox, controlPaused, pausedNodes>>
    BY <1>2 DEF NextCompensation, CompleteWithoutRun
  <2>2. \A m \in Node : results'[m] \in Ordinary
    BY <2>1 DEF Quiet, Ordinary, Inv, Shapes
  <2>. QED  BY <2>1, <2>2, QuietMove DEF Quiet
<1>3. CASE Record(n)
  <2>1. /\ results' = [results EXCEPT ![n] = job[n].result]
        /\ job' = [job EXCEPT ![n] = NoJob]
        /\ pc = "race" /\ pc' \in {"control", "compensate"}
        /\ UNCHANGED <<aborted, mailbox, controlPaused, pausedNodes>>
    BY <1>3 DEF Record, Quiet
  <2>2. \A m \in Node : results'[m] \in Ordinary /\ job'[m].result \in Ordinary
    BY <2>1 DEF Quiet, Ordinary, NoJob, Inv, Shapes
  <2>. QED  BY <2>1, <2>2, QuietMove DEF Quiet
<1>4. CASE Start(n)
  <2>1. /\ results' = results /\ pc = "start" /\ pc' \in {"start", "race"}
        /\ UNCHANGED <<aborted, mailbox, controlPaused, pausedNodes>>
    BY <1>4 DEF Start, StartAttempt, Quiet
  <2>2. ASSUME NEW phase, NEW a, NEW k, job' = [job EXCEPT ![n] = Job(phase, a, k)]
        PROVE  \A m \in Node : job'[m].result \in Ordinary
    BY <2>2 DEF Quiet, Ordinary, Job, Inv, Shapes
  <2>3. \A m \in Node : job'[m].result \in Ordinary
    <3>1. ~aborted
      BY DEF Quiet
    <3>2. \/ job' = [job EXCEPT ![n] = Job("backoff", recovered[n].attempt, recovered[n].key)]
          \/ job' = [job EXCEPT ![n] = Job("running", recovered[n].attempt, recovered[n].key)]
          \/ job' = [job EXCEPT ![n] = Job("running", 1, keys[n] + 1)]
      BY <1>4, <3>1 DEF Start, StartAttempt
    <3>. QED  BY <2>2, <3>2
  <2>. QED  BY <2>1, <2>3, QuietMove DEF Quiet
<1>5. ~CancelWaiting(n) /\ ~CancelPending(n) /\ ~Ask(n)
  BY DEF CancelWaiting, CancelPending, Ask, Quiet, Unattended
<1>. QED  BY <1>1, <1>2, <1>3, <1>4, <1>5 DEF NodeStep

LEMMA QuietJob ==
    ASSUME Unattended, Inv, Inv', Quiet, NEW n \in Node, JobStep(n)
    PROVE  Quiet'
<1>1. /\ pc # "off" /\ UNCHANGED <<pc, results, aborted, mailbox, controlPaused, pausedNodes>>
  BY DEF JobStep, Pass, Fail, ChildPauses, RetryLater, Retry, SettleAs, StartAttempt, JobFrame,
     Awaiting
<1>2. ASSUME NEW j, j.result \in Ordinary, job' = [job EXCEPT ![n] = j] PROVE Quiet'
  <2>1. \A m \in Node : job'[m].result \in Ordinary
    BY <1>2 DEF Quiet, Inv, Shapes
  <2>. QED  BY <1>1, <2>1, QuietMove DEF Quiet
<1>3. CASE Pass(n) \/ Fail(n)
  <2>1. PICK r \in {"passed", "failed"} : SettleAs(n, r)
    BY <1>3 DEF Pass, Fail, Quiet
  <2>2. PICK t \in Times : job' = [job EXCEPT ![n] = SettledJob(n, r, t)]
    BY <2>1 DEF SettleAs
  <2>3. SettledJob(n, r, t).result \in Ordinary
    BY DEF SettledJob, Ordinary
  <2>. QED  BY <1>2, <2>2, <2>3
<1>4. CASE RetryLater(n) \/ Retry(n)
  <2>1. \A phase, a, k : Job(phase, a, k).result \in Ordinary
    BY DEF Job, Ordinary
  <2>2. ~aborted
    BY DEF Quiet
  <2>. QED  BY <1>2, <1>4, <2>1, <2>2 DEF RetryLater, Retry, StartAttempt
<1>5. ~ChildPauses(n)
  BY DEF ChildPauses, Unattended
<1>. QED  BY <1>3, <1>4, <1>5 DEF JobStep

LEMMA QuietLoop ==
    ASSUME Inv, Inv', Typed, Quiet, Warn \/ LoopTop \/ CancelsDone \/ Resolved \/ Launch
    PROVE  Quiet'
<1>0. ~Has("waiting_approval")
  BY DEF Has, Quiet, Ordinary
<1>1. CASE Warn \/ CancelsDone \/ Resolved
  <2>1. /\ pc # "off" /\ pc' \in {"control", "resolve", "launch"}
        /\ UNCHANGED <<results, job, aborted, mailbox, controlPaused, pausedNodes>>
    BY <1>0, <1>1 DEF Warn, CancelsDone, Route, Resolved, Goto, Quiet
  <2>. QED  BY <2>1, QuietMove DEF Quiet
<1>2. CASE LoopTop
  <2>1. /\ pc # "off" /\ pc' \in {"cancels", "finish"}
        /\ UNCHANGED <<results, job, aborted>>
    BY <1>2 DEF LoopTop, ProcessControl
  <2>2. CASE ProcessControl
    <3>1. ~PausedAfter(WholeGraph, controlPaused)
      BY NothingPauses DEF Quiet
    <3>2. \A n \in Node : ~PausedAfter(n, n \in pausedNodes)
      BY NothingPauses DEF Quiet
    <3>3. ~controlPaused' /\ pausedNodes' = {} /\ mailbox' = <<>>
      BY <2>2, <3>1, <3>2 DEF ProcessControl
    <3>5. \A i \in DOMAIN mailbox' : mailbox'[i].op # "pause"
      BY <3>3
    <3>. QED  BY <2>1, <3>3, <3>5, QuietMove DEF Quiet
  <2>3. CASE UNCHANGED control
    BY <2>1, <2>3, QuietMove DEF Quiet
  <2>. QED  BY <1>2, <2>2, <2>3 DEF LoopTop
<1>3. CASE Launch
  <2>1. /\ pc = "launch" /\ pc' \in {"start", "race", "stuck", "finish"}
        /\ UNCHANGED <<results, job, aborted, mailbox, controlPaused, pausedNodes>>
    BY <1>3 DEF Launch, Goto, Quiet
  <2>. QED  BY <2>1, QuietMove DEF Quiet
<1>. QED  BY <1>1, <1>2, <1>3

LEMMA QuietEnds ==
    ASSUME Inv, Inv', Quiet, Finish \/ ReturnFinished \/ Crash
    PROVE  Quiet'
<1>1. CASE Finish
  <2>1. /\ pc = "finish" /\ pc' = "compensate"
        /\ UNCHANGED <<results, job, aborted, mailbox, controlPaused, pausedNodes>>
    BY <1>1 DEF Finish, Quiet
  <2>. QED  BY <2>1, QuietMove DEF Quiet
<1>2. CASE ReturnFinished
  <2>1. Off /\ disk'.results = results
    BY <1>2 DEF ReturnFinished, Return, Checkpoint
  <2>. QED  BY <2>1, QuietOff DEF Quiet
<1>3. CASE Crash
  <2>1. Off /\ disk'.results = results
    BY <1>3 DEF Crash, Inv, Mirrored
  <2>. QED  BY <2>1, QuietOff DEF Quiet
<1>. QED  BY <1>1, <1>2, <1>3

LEMMA QuietStep ==
    Unattended /\ Inv /\ Inv' /\ Turns /\ Typed /\ Quiet /\ [Next]_vars => Quiet'
<1> SUFFICES ASSUME Unattended, Inv, Inv', Turns, Typed, Quiet, [Next]_vars PROVE Quiet'
  OBVIOUS
<1>1. ASSUME StartRun \/ RestartRun \/ \E roots : ResumeRun(roots) PROVE Quiet'
  BY <1>1, QuietBegin DEF StartRun, RestartRun, ResumeRun
<1>2. ~(\/ SettledForControl \/ SettledForAbort \/ SettledForWaiting \/ SettledForGate
        \/ SettledForWait \/ ReturnCancelled \/ GateWaits \/ WaitWaits \/ AnswerThrows
        \/ Drained \/ Abort \/ \E result \in Results : Answer(result))
  BY DEF SettledForControl, SettledForAbort, SettledForWaiting, SettledForGate, SettledForWait,
     Settled, ReturnCancelled, GateWaits, WaitWaits, AnswerThrows, Drained, Abort, Answer, Quiet,
     Unattended
<1>3. CASE Step
  BY <1>2, <1>3, QuietNode, QuietLoop, QuietEnds DEF Step
<1>4. ASSUME NEW n \in Node, JobStep(n) PROVE Quiet'
  BY <1>4, QuietJob
<1>5. ASSUME NEW command \in Commands, Enqueue(command) PROVE Quiet'
  <2>1. /\ pc # "off" /\ pc' = pc /\ mailbox' = Append(mailbox, command)
        /\ UNCHANGED <<results, job, aborted, controlPaused, pausedNodes>>
    BY <1>5 DEF Enqueue
  <2>2. command.op # "pause"
    BY DEF Commands, Unattended
  <2>3. mailbox \in Seq(Commands)
    BY DEF Typed, Orders
  <2>4. \A i \in DOMAIN mailbox' : mailbox'[i].op # "pause"
    BY <2>1, <2>2, <2>3 DEF Quiet
  <2>. QED  BY <2>1, <2>4, QuietMove DEF Quiet
<1>6. CASE Aside
  BY <1>6, AsideKeeps DEF Quiet
<1>. QED  BY <1>1, <1>2, <1>3, <1>4, <1>5, <1>6, QuietEnds DEF Next, Aside

-----------------------------------------------------------------------------
(* Once there is a checkpoint there always is one, and no key is made      *)
(* before.                                                                 *)
OnDisk ==
    \/ disk \in Checkpoints
    \/ pc = "off" /\ \A n \in Node : keys[n] = 0 /\ interrupted[n] = 0

LEMMA OnDiskInit == Init => OnDisk
BY DEF Init, OnDisk

LEMMA PersistSaves ==
    ASSUME Typed', Persist
    PROVE  disk' \in Checkpoints
BY DEF Typed, Data, Course, Persist, Checkpoint, Checkpoints

LEMMA ReturnSaves ==
    ASSUME Typed, NEW st \in {"running", "paused", "passed", "failed", "cancelled"},
           NEW why \in {"none", "approval", "control", "wait"}, Return(st, why)
    PROVE  disk' \in Checkpoints
BY DEF Typed, Data, Return, Checkpoint, Checkpoints

LEMMA CheckpointStays ==
    ASSUME Inv, Typed, Typed', Next, disk \in Checkpoints
    PROVE  disk' \in Checkpoints
<1>1. ASSUME NEW n \in Node, NodeStep(n) PROVE disk' = disk \/ Persist
  BY <1>1 DEF NodeStep, CancelNode, Record, CancelWaiting, CancelPending, StopSkip, Exclude, Ask,
     Start, SettleAs, StartAttempt, NextCompensation, NotRequired
<1>2. ASSUME NEW n \in Node, JobStep(n) \/ ChildSaves(n) PROVE disk' = disk \/ Persist
  BY <1>2 DEF JobStep, ChildSaves, Pass, Fail, ChildPauses, RetryLater, Retry, SettleAs, StartAttempt
<1>3. ASSUME \/ Warn \/ LoopTop \/ CancelsDone \/ Resolved \/ GateWaits \/ WaitWaits
             \/ AnswerThrows \/ Drained \/ SettledForAbort \/ Abort \/ Crash
             \/ (\E result \in Results : Answer(result)) \/ \E command \in Commands : Enqueue(command)
      PROVE  disk' = disk \/ Persist
  BY <1>3 DEF Warn, LoopTop, ProcessControl, CancelsDone, Resolved, GateWaits, WaitWaits,
     AnswerThrows, Drained, SettledForAbort, Abort, Crash, Answer, Enqueue, Goto
<1>4. ASSUME StartRun \/ RestartRun \/ \E roots : ResumeRun(roots) PROVE Persist
  BY <1>4 DEF StartRun, RestartRun, ResumeRun, Begin
<1>5. CASE SettledForControl \/ SettledForWaiting \/ SettledForGate \/ ReturnCancelled \/ Launch
           \/ Finish \/ ReturnFinished
  <2>1. \/ disk' = disk \/ Persist
        \/ Return("paused", "approval") \/ Return("paused", "control") \/ Return(status, reason)
        \/ Return("cancelled", "none") \/ (Return(main, "none") /\ pc = "compensate")
    BY <1>5 DEF SettledForControl, ProcessControl, SettledForWaiting, SettledForGate,
       ReturnCancelled, Launch, Finish, ReturnFinished, Goto
  <2>2. /\ status \in {"running", "paused"} /\ reason \in {"none", "approval"}
        /\ pc = "compensate" => main \in {"passed", "failed"}
    BY DEF Typed, Course
  <2>. QED  BY <2>1, <2>2, PersistSaves, ReturnSaves
<1>6. CASE SettledForWait
  <2>1. CASE \E t \in Times :
                disk' = Checkpoint("paused", "wait", FALSE,
                                   [results EXCEPT ![asked] = "waiting_signal"],
                                   [finished EXCEPT ![asked] = t], active)
    <3>1. PICK t \in Times : disk' = Checkpoint("paused", "wait", FALSE,
                                                [results EXCEPT ![asked] = "waiting_signal"],
                                                [finished EXCEPT ![asked] = t], active)
      BY <2>1
    <3>2. t \in Nat
      BY TimesAreNatural DEF Typed
    <3>3. /\ [results EXCEPT ![asked] = "waiting_signal"] \in [Node -> Results]
          /\ [finished EXCEPT ![asked] = t] \in [Node -> Nat] /\ active \in [Node -> Attempts]
      BY <3>2 DEF Typed, Data, Results, Waiting
    <3>. QED  BY <3>1, <3>3 DEF Checkpoint, Checkpoints
  <2>2. CASE disk' = disk \/ Persist
    BY <2>2, PersistSaves
  <2>. QED  BY <1>6, <2>1, <2>2 DEF SettledForWait, Goto
<1>. QED  BY <1>1, <1>2, <1>3, <1>4, <1>5, <1>6, PersistSaves DEF Next, Step

(* Nothing happens to a Graph that nobody owns but that a run begins.      *)
LEMMA OnlyBegins ==
    ASSUME pc = "off", Next
    PROVE  StartRun \/ RestartRun \/ \E roots : ResumeRun(roots)
<1>1. ~Step
  BY DEF Step, NodeStep, Warn, LoopTop, CancelsDone, SettledForControl,
     SettledForAbort, SettledForWaiting, SettledForGate, SettledForWait, Settled,
     ReturnCancelled, Resolved, Answer, GateWaits, WaitWaits, AnswerThrows, Drained, Launch,
     Finish, ReturnFinished, CancelNode, Record, CancelWaiting, CancelPending, StopSkip,
     Exclude, Ask, Start, NextCompensation, NotRequired
<1>2. ~(\/ Abort \/ Crash \/ (\E n \in Node : JobStep(n) \/ ChildSaves(n))
        \/ \E command \in Commands : Enqueue(command))
  BY DEF Abort, Crash, Enqueue, ChildSaves, JobStep, Pass, Fail, ChildPauses, RetryLater, Retry, Awaiting
<1>. QED  BY <1>1, <1>2 DEF Next

LEMMA OnDiskStep == Inv /\ Typed /\ Typed' /\ OnDisk /\ [Next]_vars => OnDisk'
<1> SUFFICES ASSUME Inv, Typed, Typed', OnDisk, [Next]_vars PROVE OnDisk'
  OBVIOUS
<1>1. CASE Next /\ disk \in Checkpoints
  BY <1>1, CheckpointStays DEF OnDisk
<1>2. CASE Next /\ disk \notin Checkpoints
  <2>1. pc = "off"
    BY <1>2 DEF OnDisk
  <2>2. StartRun \/ RestartRun \/ \E roots : ResumeRun(roots)
    BY <1>2, <2>1, OnlyBegins
  <2>3. Persist
    BY <2>2 DEF StartRun, RestartRun, ResumeRun, Begin
  <2>. QED  BY <2>3, PersistSaves DEF OnDisk
<1>3. CASE UNCHANGED vars
  BY <1>3 DEF vars, OnDisk
<1>. QED  BY <1>1, <1>2, <1>3

THEOREM OnDiskHolds == Spec => []OnDisk
BY OnDiskInit, OnDiskStep, Invariance, TypesHold, PTL DEF Spec

(* Where nothing pauses a run and the process dies once at most, the keys  *)
(* of a node without a result count its attempts: they are those of the    *)
(* attempt that it makes, or that it is to go on with.                     *)
Owed(n, result, a) ==
    result = "none" =>
        \/ a.phase = "none" /\ keys[n] = 0 /\ interrupted[n] = 0
        \/ a = Attempt(keys[n], keys[n], "running") /\ interrupted[n] = keys[n]
        \/ /\ a = Attempt(keys[n], keys[n], "waiting_retry")
           /\ keys[n] <= MaxRetries[n] /\ interrupted[n] = 0

Promise(n) ==
    /\ interrupted[n] = 0
    /\ job[n].attempt = keys[n] /\ job[n].key = keys[n]
    /\ job[n].phase = "backoff" => keys[n] <= MaxRetries[n]
    /\ job[n].phase = "settled" => job[n].result \in {"passed", "failed"}

Keyed ==
    \A n \in Node :
        /\ keys[n] <= MaxRetries[n] + 1
        /\ pc = "off" /\ disk # NoCheckpoint => Owed(n, disk.results[n], disk.active[n])
        /\ pc # "off" /\ job[n].phase = "none" => Owed(n, results[n], recovered[n])
        /\ job[n].phase # "none" => Promise(n)
        /\ job[n].phase # "settled" => job[n].result = "none"

(* Before the process has died nothing is to be gone on with, and what is  *)
(* in the journal is under way.                                            *)
FirstLife ==
    crashes = 0 => \A n \in Node :
        /\ interrupted[n] = 0 /\ recovered[n].phase = "none"
        /\ pc = "off" /\ disk # NoCheckpoint => disk.results[n] # "none"
        /\ job[n].phase = "none" => active[n].phase = "none"
        /\ job[n].phase \in {"running", "settled"} =>
              active[n] = Attempt(keys[n], keys[n], "running")
        /\ job[n].phase = "backoff" => active[n] = Attempt(keys[n], keys[n], "waiting_retry")

Counts == Keyed /\ FirstLife

LEMMA CountsInit == Init => Counts
<1> SUFFICES ASSUME Init PROVE Counts
  OBVIOUS
<1>1. \A n \in Node : MaxRetries[n] \in Nat
  BY GraphAssumption
<1>. QED  BY <1>1 DEF Init, Counts, Keyed, FirstLife, NoJob, NoAttempts, NoAttempt

(* The scheduler moves, or ends nodes that nothing was started for.        *)
LEMMA CountsMove ==
    ASSUME Counts, pc # "off", pc' # "off", UNCHANGED <<keys, interrupted, job, crashes>>,
           \A n \in Node : \/ results'[n] = results[n] /\ recovered'[n] = recovered[n]
                           \/ results'[n] # "none" /\ recovered'[n].phase = "none",
           \A n \in Node : \/ active'[n] = active[n]
                           \/ job[n].phase = "none" /\ active'[n].phase = "none"
    PROVE  Counts'
<1>1. Keyed'
  <2>1. \A n \in Node : job[n].phase = "none" => Owed(n, results[n], recovered[n])'
    BY DEF Counts, Keyed, Owed
  <2>2. \A n \in Node : job[n].phase # "none" => Promise(n)'
    BY DEF Counts, Keyed, Promise
  <2>. QED  BY <2>1, <2>2 DEF Counts, Keyed
<1>2. FirstLife'
  BY DEF Counts, FirstLife
<1>. QED  BY <1>1, <1>2 DEF Counts

LEMMA CountsStay ==
    ASSUME Counts, pc # "off", pc' # "off",
           UNCHANGED <<keys, interrupted, job, crashes, results, recovered, active>>
    PROVE  Counts'
<1>1. UNCHANGED <<keys, interrupted, job, crashes>>
  OBVIOUS
<1>2. \A n \in Node : \/ results'[n] = results[n] /\ recovered'[n] = recovered[n]
                      \/ results'[n] # "none" /\ recovered'[n].phase = "none"
  OBVIOUS
<1>3. \A n \in Node : \/ active'[n] = active[n]
                      \/ job[n].phase = "none" /\ active'[n].phase = "none"
  OBVIOUS
<1>. QED  BY <1>1, <1>2, <1>3, CountsMove

(* A promise is made or goes on, and the journal with it.                  *)
LEMMA CountsPromise ==
    ASSUME Inv, Typed, Counts, pc # "off", pc' # "off", NEW n \in Node, NEW j,
           job' = [job EXCEPT ![n] = j], j.phase # "none",
           \A m \in Node \ {n} : keys'[m] = keys[m] /\ interrupted'[m] = interrupted[m]
                                 /\ active'[m] = active[m] /\ recovered'[m] = recovered[m],
           UNCHANGED <<results, crashes>>,
           recovered'[n] = recovered[n] \/ recovered'[n].phase = "none",
           keys'[n] <= MaxRetries[n] + 1, interrupted'[n] = 0,
           j.attempt = keys'[n], j.key = keys'[n],
           j.phase = "backoff" => keys'[n] <= MaxRetries[n],
           IF j.phase = "settled" THEN j.result \in {"passed", "failed"} ELSE j.result = "none",
           crashes = 0 /\ j.phase \in {"running", "settled"} =>
               active'[n] = Attempt(keys'[n], keys'[n], "running"),
           crashes = 0 /\ j.phase = "backoff" =>
               active'[n] = Attempt(keys'[n], keys'[n], "waiting_retry")
    PROVE  Counts'
<1>1. \A m \in Node \ {n} : job'[m] = job[m]
  BY DEF Inv, Shapes
<1>2. job'[n] = j
  BY DEF Inv, Shapes
<1>3. Keyed'
  <2>1. ASSUME NEW m \in Node \ {n}, job[m].phase = "none" PROVE Owed(m, results[m], recovered[m])'
    BY <2>1 DEF Counts, Keyed, Owed
  <2>2. ASSUME NEW m \in Node \ {n}, job[m].phase # "none" PROVE Promise(m)'
    BY <1>1, <2>2 DEF Counts, Keyed, Promise
  <2>3. Promise(n)'
    BY <1>2 DEF Promise
  <2>. QED  BY <1>1, <1>2, <2>1, <2>2, <2>3 DEF Counts, Keyed
<1>4. FirstLife'
  BY <1>1, <1>2 DEF Counts, FirstLife
<1>. QED  BY <1>3, <1>4 DEF Counts

(* An attempt under a new key, or under the one of the attempt before.      *)
LEMMA KeyMade ==
    ASSUME Typed, NEW n \in Node, NEW k \in Nat, k >= keys[n], StartAttempt(n, k, k)
    PROVE  /\ job' = [job EXCEPT ![n] = Job("running", k, k)]
           /\ keys'[n] = k /\ interrupted'[n] = 0
           /\ active'[n] = Attempt(k, k, "running")
           /\ \A m \in Node \ {n} : keys'[m] = keys[m] /\ interrupted'[m] = interrupted[m]
                                   /\ active'[m] = active[m]
<1>1. /\ keys \in [Node -> Nat] /\ interrupted \in [Node -> Nat] /\ active \in [Node -> Attempts]
  BY DEF Typed, Data
<1>2. keys'[n] = k /\ \A m \in Node \ {n} : keys'[m] = keys[m]
  <2>1. keys' = [keys EXCEPT ![n] = IF k > keys[n] THEN k ELSE keys[n]]
    BY DEF StartAttempt
  <2>2. keys'[n] = IF k > keys[n] THEN k ELSE keys[n]
    BY <1>1, <2>1
  <2>3. (IF k > keys[n] THEN k ELSE keys[n]) = k
    BY <1>1
  <2>. QED  BY <1>1, <2>1, <2>2, <2>3
<1>3. /\ interrupted'[n] = 0
      /\ active'[n] = Attempt(k, k, "running")
      /\ \A m \in Node \ {n} : interrupted'[m] = interrupted[m] /\ active'[m] = active[m]
  BY <1>1 DEF StartAttempt
<1>. QED  BY <1>2, <1>3 DEF StartAttempt

LEMMA CountsJob ==
    ASSUME Unattended, Inv, Typed, Quiet, Counts, NEW n \in Node, JobStep(n)
    PROVE  Counts'
<1>0. /\ pc # "off" /\ pc' # "off" /\ ~aborted /\ job[n].phase # "none"
      /\ UNCHANGED <<results, crashes, recovered>>
  BY DEF JobStep, Pass, Fail, ChildPauses, RetryLater, Retry, SettleAs, StartAttempt, JobFrame,
     Awaiting, Quiet
<1>1. /\ keys \in [Node -> Nat] /\ interrupted \in [Node -> Nat] /\ active \in [Node -> Attempts]
      /\ keys[n] <= MaxRetries[n] + 1 /\ Promise(n) /\ MaxRetries[n] \in Nat
  BY <1>0, GraphAssumption DEF Counts, Keyed, Typed, Data
<1>2. CASE Pass(n) \/ Fail(n)
  <2>1. PICK r \in {"passed", "failed"} : SettleAs(n, r)
    BY <1>0, <1>2 DEF Pass, Fail
  <2>2. PICK t \in Times : job' = [job EXCEPT ![n] = SettledJob(n, r, t)]
    BY <2>1 DEF SettleAs
  <2>3. job[n].phase = "running" /\ UNCHANGED <<keys, interrupted, active>>
    BY <1>2, <2>1 DEF Pass, Fail, SettleAs
  <2> DEFINE j == SettledJob(n, r, t)
  <2>4. j.phase = "settled" /\ j.result = r /\ j.attempt = keys[n] /\ j.key = keys[n]
    BY <1>1 DEF SettledJob, Promise
  <2>5. crashes = 0 => active[n] = Attempt(keys[n], keys[n], "running")
    BY <2>3 DEF Counts, FirstLife
  <2> HIDE DEF j
  <2>6. job' = [job EXCEPT ![n] = j]
    BY <2>2 DEF j
  <2>. QED  BY <1>0, <1>1, <2>3, <2>4, <2>5, <2>6, CountsPromise DEF Promise
<1>3. CASE RetryLater(n)
  <2> DEFINE j == Job("backoff", job[n].attempt, job[n].key)
  <2>1. /\ job' = [job EXCEPT ![n] = j] /\ UNCHANGED <<keys, interrupted>>
        /\ active' = [active EXCEPT ![n] = Attempt(keys[n], keys[n], "waiting_retry")]
        /\ keys[n] <= MaxRetries[n]
    BY <1>1, <1>3 DEF RetryLater, Promise
  <2>2. j.phase = "backoff" /\ j.result = "none" /\ j.attempt = keys[n] /\ j.key = keys[n]
    BY <1>1 DEF Job, Promise
  <2> HIDE DEF j
  <2>3. /\ active'[n] = Attempt(keys[n], keys[n], "waiting_retry")
        /\ \A m \in Node \ {n} : active'[m] = active[m]
    BY <1>1, <2>1
  <2>. QED  BY <1>0, <1>1, <2>1, <2>2, <2>3, CountsPromise DEF Promise
<1>4. CASE Retry(n)
  <2>1. job[n].phase = "backoff" /\ StartAttempt(n, keys[n] + 1, keys[n] + 1)
    BY <1>0, <1>1, <1>4 DEF Retry, Promise
  <2>2. keys[n] <= MaxRetries[n]
    BY <1>1, <2>1 DEF Promise
  <2> DEFINE j == Job("running", keys[n] + 1, keys[n] + 1)
  <2>4. j.phase = "running" /\ j.result = "none" /\ j.attempt = keys[n] + 1 /\ j.key = keys[n] + 1
    BY DEF Job
  <2>5. /\ job' = [job EXCEPT ![n] = j]
        /\ keys'[n] = keys[n] + 1 /\ interrupted'[n] = 0
        /\ active'[n] = Attempt(keys[n] + 1, keys[n] + 1, "running")
        /\ \A m \in Node \ {n} : keys'[m] = keys[m] /\ interrupted'[m] = interrupted[m]
                                /\ active'[m] = active[m]
    BY <1>1, <2>1, KeyMade
  <2> HIDE DEF j
  <2>6. keys'[n] <= MaxRetries[n] + 1
    BY <1>1, <2>2, <2>5
  <2>. QED  BY <1>0, <2>4, <2>5, <2>6, CountsPromise
<1>5. ~ChildPauses(n)
  BY DEF ChildPauses, Unattended
<1>. QED  BY <1>2, <1>3, <1>4, <1>5 DEF JobStep

LEMMA CountsStart ==
    ASSUME Inv, Typed, Quiet, Counts, NEW n \in Node, Start(n)
    PROVE  Counts'
<1>0. /\ pc # "off" /\ pc' # "off" /\ ~aborted
      /\ job[n].phase = "none" /\ results[n] = "none"
      /\ UNCHANGED <<results, crashes>>
      /\ recovered' = [recovered EXCEPT ![n] = NoAttempt]
  BY DEF Start, StartAttempt, Quiet, Inv, Unsettled, Todo
<1>1. /\ keys \in [Node -> Nat] /\ interrupted \in [Node -> Nat] /\ active \in [Node -> Attempts]
      /\ recovered \in [Node -> Attempts] /\ MaxRetries[n] \in Nat
  BY GraphAssumption DEF Typed, Data
<1>2. Owed(n, "none", recovered[n]) /\ keys[n] <= MaxRetries[n] + 1
  BY <1>0 DEF Counts, Keyed
<1>3. recovered'[n].phase = "none" /\ \A m \in Node \ {n} : recovered'[m] = recovered[m]
  BY <1>0, <1>1 DEF NoAttempt
<1>4. crashes = 0 => recovered[n].phase = "none"
  BY DEF Counts, FirstLife
<1>5. CASE recovered[n].phase = "waiting_retry"
  <2> DEFINE j == Job("backoff", keys[n], keys[n])
  <2>1. recovered[n] = Attempt(keys[n], keys[n], "waiting_retry")
        /\ keys[n] <= MaxRetries[n] /\ interrupted[n] = 0
    BY <1>2, <1>5 DEF Owed, Attempt
  <2>2. job' = [job EXCEPT ![n] = j] /\ UNCHANGED <<keys, interrupted, active>>
    BY <1>5, <2>1 DEF Start, Attempt
  <2>3. j.phase = "backoff" /\ j.result = "none" /\ j.attempt = keys[n] /\ j.key = keys[n]
    BY DEF Job
  <2> HIDE DEF j
  <2>. QED  BY <1>0, <1>2, <1>3, <1>4, <1>5, <2>1, <2>2, <2>3, CountsPromise
<1>6. ASSUME NEW k \in Nat, StartAttempt(n, k, k), k >= keys[n], k <= MaxRetries[n] + 1
      PROVE  Counts'
  <2> DEFINE j == Job("running", k, k)
  <2>2. j.phase = "running" /\ j.result = "none" /\ j.attempt = k /\ j.key = k
    BY DEF Job
  <2>3. /\ job' = [job EXCEPT ![n] = j]
        /\ keys'[n] = k /\ interrupted'[n] = 0
        /\ active'[n] = Attempt(k, k, "running")
        /\ \A m \in Node \ {n} : keys'[m] = keys[m] /\ interrupted'[m] = interrupted[m]
                                /\ active'[m] = active[m]
    BY <1>6, KeyMade
  <2> HIDE DEF j
  <2>. QED  BY <1>0, <1>3, <1>6, <2>2, <2>3, CountsPromise
<1>7. CASE recovered[n].phase = "running"
  <2>1. recovered[n] = Attempt(keys[n], keys[n], "running")
    BY <1>2, <1>7 DEF Owed, Attempt
  <2>2. StartAttempt(n, recovered[n].attempt, recovered[n].key)
    BY <1>0, <1>7 DEF Start
  <2>3. recovered[n].attempt = keys[n] /\ recovered[n].key = keys[n]
    BY <2>1 DEF Attempt
  <2>4. StartAttempt(n, keys[n], keys[n])
    BY <2>2, <2>3
  <2>. QED  BY <1>1, <1>2, <1>6, <2>4
<1>8. CASE recovered[n].phase = "none"
  <2>1. keys[n] = 0
    BY <1>2, <1>8 DEF Owed, Attempt
  <2>2. StartAttempt(n, 1, keys[n] + 1)
    BY <1>0, <1>8 DEF Start
  <2>3. keys[n] + 1 = 1
    BY <2>1
  <2>4. StartAttempt(n, 1, 1)
    BY <2>2, <2>3
  <2>5. 1 >= keys[n] /\ 1 <= MaxRetries[n] + 1
    BY <1>1, <2>1
  <2>. QED  BY <1>6, <2>4, <2>5
<1>. QED  BY <1>1, <1>5, <1>7, <1>8 DEF Attempts

LEMMA CountsRecord ==
    ASSUME Inv, Typed, Quiet, Counts, NEW n \in Node, Record(n)
    PROVE  Counts'
<1>1. /\ pc # "off" /\ pc' # "off" /\ job[n].phase = "settled"
      /\ job' = [job EXCEPT ![n] = NoJob]
      /\ results' = [results EXCEPT ![n] = job[n].result]
      /\ active' = [active EXCEPT ![n] = NoAttempt]
      /\ UNCHANGED <<keys, interrupted, recovered, crashes>>
  BY DEF Record, Quiet
<1>2. Promise(n)
  BY <1>1 DEF Counts, Keyed
<1>3. /\ job'[n] = NoJob /\ results'[n] # "none" /\ active'[n].phase = "none"
      /\ \A m \in Node \ {n} : job'[m] = job[m] /\ results'[m] = results[m] /\ active'[m] = active[m]
  BY <1>1, <1>2 DEF Inv, Shapes, NoAttempt, Promise
<1>4. Keyed'
  <2>1. ASSUME NEW m \in Node \ {n}, job[m].phase = "none" PROVE Owed(m, results[m], recovered[m])'
    BY <1>1, <1>3, <2>1 DEF Counts, Keyed, Owed
  <2>2. ASSUME NEW m \in Node \ {n}, job[m].phase # "none" PROVE Promise(m)'
    BY <1>1, <1>3, <2>2 DEF Counts, Keyed, Promise
  <2>3. Owed(n, results[n], recovered[n])'
    BY <1>3 DEF Owed
  <2>. QED  BY <1>1, <1>3, <2>1, <2>2, <2>3 DEF Counts, Keyed, NoJob
<1>5. FirstLife'
  BY <1>1, <1>3 DEF Counts, FirstLife, NoJob
<1>. QED  BY <1>4, <1>5 DEF Counts

(* A run is not asked to run anything again, and at most one process dies. *)
DiesOnce == ~MayRerun /\ MaxCrashes <= 1

LEMMA CountsBegin ==
    ASSUME DiesOnce, Inv, Typed, Quiet, Counts, OnDisk,
           StartRun \/ RestartRun \/ \E n \in Node : \E roots \in SUBSET {n} : ResumeRun(roots)
    PROVE  Counts'
<1>0. /\ pc = "off" /\ pc' = "warn" /\ UNCHANGED <<keys, job, crashes>>
      /\ \A n \in Node : job[n].phase = "none"
  BY DEF StartRun, RestartRun, ResumeRun, Begin, Inv, Promised, InFlight
<1>1. \A n \in Node : keys[n] <= MaxRetries[n] + 1 /\ job[n].result = "none"
  BY <1>0 DEF Counts, Keyed
<1>2. SUFFICES ASSUME NEW n \in Node
               PROVE  /\ Owed(n, results[n], recovered[n])'
                      /\ crashes = 0 => interrupted'[n] = 0 /\ recovered'[n].phase = "none"
                                        /\ active'[n].phase = "none"
  BY <1>0, <1>1 DEF Counts, Keyed, FirstLife
<1>3. CASE StartRun
  <2>1. keys[n] = 0
    BY <1>0, <1>3, CheckpointAssumption DEF StartRun, OnDisk
  <2>2. recovered'[n] = NoAttempt /\ interrupted'[n] = 0 /\ active'[n] = NoAttempt
    BY <1>3 DEF StartRun, Begin, NoAttempts
  <2>. QED  BY <1>0, <2>1, <2>2 DEF Owed, NoAttempt
<1>4. ~RestartRun
  BY DEF RestartRun, DiesOnce
<1>5. CASE \E m \in Node : \E roots \in SUBSET {m} : ResumeRun(roots)
  <2>1. ResumeRun({})
    BY <1>5 DEF ResumeRun, DiesOnce
  <2>2. disk # NoCheckpoint /\ Loadable(disk) /\ Begin("resume", {})
    BY <2>1 DEF ResumeRun
  <2>3. Closure({}) = {}
    BY DEF Closure
  <2>4. /\ results'[n] = disk.results[n] /\ recovered'[n] = disk.active[n]
        /\ interrupted'[n] = interrupted[n] /\ active'[n] = disk.active[n]
    BY <2>2, <2>3 DEF Begin, Kept, Quiet, Ordinary, Waiting, Cancelled
  <2>5. Owed(n, disk.results[n], disk.active[n])
    BY <1>0, <2>2 DEF Counts, Keyed
  <2>6. crashes = 0 => interrupted[n] = 0 /\ disk.active[n].phase = "none"
    BY <1>0, <2>2 DEF Counts, FirstLife, Loadable, OneRecordPerNode
  <2>. QED  BY <1>0, <2>4, <2>5, <2>6 DEF Owed
<1>. QED  BY <1>3, <1>4, <1>5

LEMMA CountsCrash ==
    ASSUME DiesOnce, Inv, Typed, Counts, Crash
    PROVE  Counts'
<1>1. crashes = 0 /\ crashes' # 0
  BY BoundAssumption DEF Crash, DiesOnce, Typed, Orders
<1>2. /\ pc' = "off" /\ disk' = disk /\ disk.results = results /\ disk.active = active
      /\ keys' = keys /\ \A n \in Node : job'[n] = NoJob
  BY DEF Crash, Off, Inv, Mirrored
<1>3. ASSUME NEW n \in Node PROVE Owed(n, disk.results[n], disk.active[n])'
  <2>1. interrupted'[n] = IF job[n].phase = "running" \/ job[n].result \in {"passed", "failed"}
                          THEN job[n].key ELSE interrupted[n]
    BY DEF Crash
  <2>2. interrupted[n] = 0 /\ recovered[n].phase = "none" /\ pc # "off"
    BY <1>1 DEF Counts, FirstLife, Crash
  <2>3. CASE job[n].phase = "none"
    <3>1. interrupted'[n] = 0 /\ active[n].phase = "none"
      BY <1>1, <2>1, <2>2, <2>3 DEF Counts, Keyed, FirstLife
    <3>2. Owed(n, results[n], recovered[n])
      BY <2>2, <2>3 DEF Counts, Keyed
    <3>. QED  BY <1>2, <2>2, <3>1, <3>2 DEF Owed, Attempt
  <2>4. CASE job[n].phase \in {"running", "settled"}
    <3>1. active[n] = Attempt(keys[n], keys[n], "running") /\ Promise(n)
      BY <1>1, <2>4 DEF Counts, Keyed, FirstLife
    <3>2. interrupted'[n] = keys[n]
      BY <2>1, <2>4, <3>1 DEF Promise
    <3>. QED  BY <1>2, <3>1, <3>2 DEF Owed
  <2>5. CASE job[n].phase = "backoff"
    <3>1. active[n] = Attempt(keys[n], keys[n], "waiting_retry") /\ Promise(n)
      BY <1>1, <2>5 DEF Counts, Keyed, FirstLife
    <3>2. interrupted'[n] = 0
      BY <2>1, <2>2, <2>5 DEF Counts, Keyed
    <3>. QED  BY <1>2, <2>5, <3>1, <3>2 DEF Owed, Promise
  <2>. QED  BY <2>3, <2>4, <2>5 DEF Typed, Data, Promises
<1>4. \A n \in Node : keys[n] <= MaxRetries[n] + 1
  BY DEF Counts, Keyed
<1>. QED  BY <1>1, <1>2, <1>3, <1>4 DEF Counts, Keyed, FirstLife, NoJob

LEMMA CountsReturn ==
    ASSUME Inv, Typed, Turns, Counts, ReturnFinished
    PROVE  Counts'
<1>1. /\ pc = "compensate" /\ compensationPending = {} /\ Off
      /\ disk'.results = results /\ UNCHANGED <<keys, interrupted, crashes>>
  BY DEF ReturnFinished, Return, Checkpoint
<1>2. \A n \in Node : results[n] # "none"
  BY <1>1 DEF Turns, Covered, Rollback, Todo, Inv, Alone, Unsettled
<1>3. /\ pc' = "off" /\ \A n \in Node : job'[n] = NoJob /\ recovered'[n].phase = "none"
                                      /\ active'[n].phase = "none"
  BY <1>1 DEF Off, NoAttempts, NoAttempt
<1>4. \A n \in Node : keys[n] <= MaxRetries[n] + 1 /\ (crashes = 0 => interrupted[n] = 0)
  BY DEF Counts, Keyed, FirstLife
<1>5. Keyed'
  BY <1>1, <1>2, <1>3, <1>4 DEF Keyed, Owed, NoJob
<1>6. FirstLife'
  BY <1>1, <1>2, <1>3, <1>4 DEF FirstLife, NoJob
<1>. QED  BY <1>5, <1>6 DEF Counts

LEMMA CountsNode ==
    ASSUME Unattended, Inv, Typed, Quiet, Counts, NEW n \in Node, NodeStep(n)
    PROVE  Counts'
<1>1. CASE CancelNode(n) \/ StopSkip(n) \/ Exclude(n) \/ NotRequired(n)
           \/ (NextCompensation(n) /\ ~Effective(n))
  <2>1. /\ CompleteWithoutRun(n, "skipped") /\ pc # "off" /\ pc' = pc
        /\ UNCHANGED <<keys, interrupted, job, crashes>>
    BY <1>1 DEF CancelNode, StopSkip, Exclude, NotRequired, NextCompensation
  <2>2. job[n].phase = "none"
    BY <1>1 DEF CancelNode, StopSkip, Exclude, Resolvable, NotRequired, NextCompensation, Inv,
       Unsettled, Todo
  <2>3. /\ results'[n] # "none" /\ recovered'[n].phase = "none" /\ active'[n].phase = "none"
        /\ \A m \in Node \ {n} : /\ results'[m] = results[m] /\ recovered'[m] = recovered[m]
                                 /\ active'[m] = active[m]
    BY <2>1 DEF CompleteWithoutRun, NoAttempt, Inv, Shapes
  <2>4. \A m \in Node : \/ results'[m] = results[m] /\ recovered'[m] = recovered[m]
                        \/ results'[m] # "none" /\ recovered'[m].phase = "none"
    BY <2>3
  <2>5. \A m \in Node : \/ active'[m] = active[m]
                        \/ job[m].phase = "none" /\ active'[m].phase = "none"
    BY <2>2, <2>3
  <2>. QED  BY <2>1, <2>4, <2>5, CountsMove
<1>2. CASE NextCompensation(n) /\ Effective(n)
  <2>1. /\ pc # "off" /\ pc' = "start"
        /\ UNCHANGED <<keys, interrupted, job, crashes, results, recovered, active>>
    BY <1>2 DEF NextCompensation
  <2>. QED  BY <2>1, CountsStay
<1>3. ~CancelWaiting(n) /\ ~CancelPending(n) /\ ~Ask(n)
  BY DEF CancelWaiting, CancelPending, Ask, Quiet, Unattended
<1>. QED  BY <1>1, <1>2, <1>3, CountsRecord, CountsStart DEF NodeStep

LEMMA CountsLoop ==
    ASSUME Inv, Typed, Turns, Quiet, Counts,
           \/ Warn \/ LoopTop \/ CancelsDone \/ Resolved \/ Launch \/ Finish
           \/ \E command \in Commands : Enqueue(command)
    PROVE  Counts'
<1>0. ~Has("waiting_approval")
  BY DEF Has, Quiet, Ordinary
<1>1. CASE Warn
  <2>1. /\ pc # "off" /\ pc' = "control" /\ UNCHANGED <<keys, interrupted, job, crashes, results, recovered>>
        /\ \A n \in Node : job[n].phase = "none"
    BY <1>1 DEF Warn, Inv, Promised, InFlight
  <2>2. \A n \in Node : \/ active'[n] = active[n]
                        \/ job[n].phase = "none" /\ active'[n].phase = "none"
    BY <1>1, <2>1 DEF Warn, NoAttempt
  <2>3. UNCHANGED <<keys, interrupted, job, crashes>>
    BY <2>1
  <2>4. \A n \in Node : \/ results'[n] = results[n] /\ recovered'[n] = recovered[n]
                        \/ results'[n] # "none" /\ recovered'[n].phase = "none"
    BY <2>1
  <2>. QED  BY <2>1, <2>2, <2>3, <2>4, CountsMove
<1>2. CASE LoopTop \/ CancelsDone \/ Resolved \/ Finish \/ \E command \in Commands : Enqueue(command)
  <2>1. /\ pc # "off" /\ pc' # "off"
        /\ UNCHANGED <<keys, interrupted, job, crashes, results, recovered, active>>
    BY <1>0, <1>2 DEF LoopTop, ProcessControl, CancelsDone, Route, Resolved, Goto, Finish,
       Enqueue, Quiet
  <2>. QED  BY <2>1, CountsStay
<1>3. CASE Launch
  <2>1. /\ pc # "off" /\ pc' # "off"
        /\ UNCHANGED <<keys, interrupted, job, crashes, results, recovered, active>>
    BY <1>3 DEF Launch, Goto, Quiet
  <2>. QED  BY <2>1, CountsStay
<1>. QED  BY <1>1, <1>2, <1>3

LEMMA CountsStep ==
    /\ Unattended /\ DiesOnce
    /\ Inv /\ Typed /\ Turns /\ Quiet /\ OnDisk /\ Counts /\ [Next]_vars
    => Counts'
<1> SUFFICES ASSUME Unattended, DiesOnce, Inv, Typed, Turns, Quiet, OnDisk, Counts, [Next]_vars
             PROVE  Counts'
  OBVIOUS
<1>1. CASE StartRun \/ RestartRun \/ \E n \in Node : \E roots \in SUBSET {n} : ResumeRun(roots)
  BY <1>1, CountsBegin
<1>2. CASE Step
  <2>1. ~(\/ SettledForControl \/ SettledForAbort \/ SettledForWaiting \/ SettledForGate
          \/ SettledForWait \/ ReturnCancelled \/ GateWaits \/ WaitWaits \/ AnswerThrows
          \/ Drained \/ \E result \in Results : Answer(result))
    BY DEF SettledForControl, SettledForAbort, SettledForWaiting, SettledForGate, SettledForWait,
       Settled, ReturnCancelled, GateWaits, WaitWaits, AnswerThrows, Drained, Answer, Quiet
  <2>. QED  BY <1>2, <2>1, CountsNode, CountsLoop, CountsReturn DEF Step
<1>3. ASSUME NEW n \in Node, JobStep(n) PROVE Counts'
  BY <1>3, CountsJob
<1>4. ~Abort
  BY DEF Abort, Unattended
<1>5. CASE Aside
  BY <1>5, AsideKeeps DEF Counts, Keyed, FirstLife, Owed, Promise
<1>. QED  BY <1>1, <1>2, <1>3, <1>4, <1>5, CountsLoop, CountsCrash DEF Next, Aside

(* Where nothing pauses a Graph, its process dies at most once, and it is  *)
(* not run again, a node gets one attempt more than its retries.           *)
THEOREM AttemptsAreLimited ==
    ASSUME Unattended, DiesOnce
    PROVE  Spec => []RetryLimit
<1>1. Counts => RetryLimit
  BY DEF Counts, Keyed, RetryLimit
<1>. QED  BY <1>1, QuietInit, QuietStep, CountsInit, CountsStep, OnDiskHolds, Invariance,
     TurnsHold, TypesHold, PTL DEF Spec

(* Only the start of a node and its retries run a handler.                 *)
LEMMA HandlerRuns ==
    ASSUME Inv, Next, NEW n \in Node, job[n].phase # "running", job'[n].phase = "running"
    PROVE  Start(n) \/ Retry(n)
<1>1. ASSUME NEW m \in Node, NodeStep(m) PROVE Start(n)
  <2>1. CASE Record(m)
    BY <2>1 DEF Record, NoJob, Inv, Shapes
  <2>2. CASE Start(m)
    <3>1. \A k \in Node \ {m} : job'[k] = job[k]
      BY <2>2 DEF Start, StartAttempt, SettleAs, Inv, Shapes
    <3>. QED  BY <2>2, <3>1
  <2>3. CASE job' = job
    BY <2>3
  <2>. QED  BY <1>1, <2>1, <2>2, <2>3 DEF NodeStep, CancelNode, CancelWaiting, CancelPending,
       StopSkip, Exclude, Ask, NextCompensation, NotRequired
<1>2. ASSUME NEW m \in Node, JobStep(m) PROVE Retry(n)
  <2>1. CASE Retry(m)
    <3>1. \A k \in Node \ {m} : job'[k] = job[k]
      BY <2>1 DEF Retry, StartAttempt, SettleAs, Inv, Shapes
    <3>. QED  BY <2>1, <3>1
  <2>2. ~(Pass(m) \/ Fail(m) \/ ChildPauses(m) \/ RetryLater(m))
    BY DEF Pass, Fail, ChildPauses, RetryLater, SettleAs, SettledJob, Job, Inv, Shapes
  <2>. QED  BY <1>2, <2>1, <2>2 DEF JobStep
<1>3. Off => job'[n] = NoJob
  BY DEF Off
<1>4. ~(StartRun \/ RestartRun \/ \E roots : ResumeRun(roots))
  BY DEF StartRun, RestartRun, ResumeRun, Begin
<1>5. ~(\/ Warn \/ LoopTop \/ CancelsDone \/ Resolved \/ GateWaits \/ WaitWaits \/ AnswerThrows
        \/ Drained \/ Abort \/ Crash \/ SettledForAbort \/ (\E m \in Node : ChildSaves(m))
        \/ (\E result \in Results : Answer(result)) \/ \E command \in Commands : Enqueue(command))
  BY <1>3 DEF ChildSaves, Warn, LoopTop, CancelsDone, Resolved, GateWaits, WaitWaits, AnswerThrows, Drained,
     Abort, Crash, SettledForAbort, Answer, Enqueue, Goto, NoJob
<1>6. ASSUME \/ SettledForControl \/ SettledForWaiting \/ SettledForGate \/ SettledForWait
             \/ ReturnCancelled \/ Launch \/ Finish \/ ReturnFinished
      PROVE  FALSE
  <2>1. job' = job \/ Off
    BY <1>6 DEF SettledForControl, SettledForWaiting, SettledForGate, SettledForWait,
       ReturnCancelled, Launch, Finish, ReturnFinished, Return, Goto
  <2>. QED  BY <1>3, <2>1 DEF NoJob
<1>. QED  BY <1>1, <1>2, <1>4, <1>5, <1>6 DEF Next, Step

(* There a handler that a crash interrupted is called again only under the *)
(* key it was called with.                                                 *)
THEOREM KeysAreKept ==
    ASSUME Unattended, DiesOnce
    PROVE  Spec => SameKey
<1> DEFINE CalledAgain ==
       \A n \in Node :
          interrupted[n] # 0 /\ job[n].phase # "running" /\ job'[n].phase = "running"
            => job'[n].key = interrupted[n]
<1>1. ASSUME Inv, Typed, Quiet, Counts, Next, NEW n \in Node,
             interrupted[n] # 0, job[n].phase # "running", job'[n].phase = "running"
      PROVE  job'[n].key = interrupted[n]
  <2>1. Start(n)
    BY <1>1, HandlerRuns DEF Retry, Counts, Keyed, Promise
  <2>2. /\ job[n].phase = "none" /\ results[n] = "none" /\ pc # "off"
    BY <1>1, <2>1 DEF Start, Inv, Unsettled, Todo
  <2>3. Owed(n, "none", recovered[n])
    BY <1>1, <2>2 DEF Counts, Keyed
  <2>4. recovered[n] = Attempt(keys[n], keys[n], "running") /\ interrupted[n] = keys[n]
    BY <1>1, <2>1, <2>3 DEF Owed
  <2>5. StartAttempt(n, recovered[n].attempt, recovered[n].key)
    <3>1. recovered[n].phase = "running" /\ ~aborted
      BY <1>1, <2>4 DEF Attempt, Quiet
    <3>. QED  BY <2>1, <3>1 DEF Start
  <2>6. job'[n] = Job("running", recovered[n].attempt, recovered[n].key)
    BY <1>1, <2>5 DEF StartAttempt, Inv, Shapes
  <2>. QED  BY <2>4, <2>6 DEF Job, Attempt
<1>2. Inv /\ Typed /\ Quiet /\ Counts /\ [Next]_vars => [CalledAgain]_vars
  BY <1>1
<1>. QED  BY <1>2, QuietInit, QuietStep, CountsInit, CountsStep, OnDiskHolds, Invariance,
     TurnsHold, TypesHold, PTL DEF Spec, SameKey

-----------------------------------------------------------------------------
(* Graphs whose nodes always end after what they depend on: there are no   *)
(* waits and no stop policies, compensations depend on forward nodes, and  *)
(* nobody aborts a run, cancels a node or runs one again.                  *)
Undisturbed ==
    /\ Forward /\ StopNodes = {}
    /\ ~MayAbort /\ ~MayRerun /\ "cancel" \notin Operations

(* Nothing is cancelled but by the drain after a callback that threw, and  *)
(* gates are asked, not started.                                           *)
Steady ==
    /\ aborted => pc = "drain"
    /\ pc # "cancelWaiting" /\ after # "abort"
    /\ cancelledNodes = {} /\ \A i \in DOMAIN mailbox : mailbox[i].op # "cancel"
    /\ pc # "drain" => \A n \in Node : results[n] \notin Cancelled /\ job[n].result \notin Cancelled
    /\ \A n \in Started : Kind[n] # "gate" /\ \A d \in DependsOn[n] : results[d] \notin Cancelled
    /\ pc = "gate" => Kind[asked] = "gate" /\ DependenciesDone(asked)
    /\ pc = "launch" => \A n \in Ready : Kind[n] # "gate"

LEMMA SteadyInit == Init => Steady
<1> SUFFICES ASSUME Init PROVE Steady
  OBVIOUS
<1>1. Started = {}
  BY DEF Init, Started, InFlight, NoJob
<1>2. ~aborted /\ pc = "off" /\ after = "none" /\ cancelledNodes = {} /\ mailbox = <<>>
  BY DEF Init
<1>3. \A n \in Node : results[n] = "none" /\ job[n].result = "none"
  BY DEF Init, NoResults, NoJob
<1>4. \A i \in DOMAIN mailbox : mailbox[i].op # "cancel"
  BY <1>2
<1>5. "none" \notin Cancelled
  BY DEF Cancelled
<1>. QED  BY <1>1, <1>2, <1>3, <1>4, <1>5 DEF Steady

LEMMA SteadyOff ==
    ASSUME Off
    PROVE  Steady'
<1>1. Started' = {}
  BY DEF Off, Started, InFlight, NoJob
<1>2. ~aborted' /\ pc' = "off" /\ after' = "none" /\ cancelledNodes' = {} /\ mailbox' = <<>>
  BY DEF Off
<1>3. \A n \in Node : results'[n] = "none" /\ job'[n].result = "none"
  BY DEF Off, NoResults, NoJob
<1>4. \A i \in DOMAIN mailbox' : mailbox'[i].op # "cancel"
  BY <1>2
<1>5. "none" \notin Cancelled
  BY DEF Cancelled
<1>. QED  BY <1>1, <1>2, <1>3, <1>4, <1>5 DEF Steady

LEMMA SteadyBegin ==
    ASSUME Inv, Steady, NEW mode, NEW roots, Begin(mode, roots), pc = "off"
    PROVE  Steady'
<1>1. /\ pc' = "warn" /\ UNCHANGED <<job, control, aborted, flow>>
      /\ results' = [n \in Node |-> IF Kept(mode, roots, n) THEN disk.results[n] ELSE "none"]
  BY DEF Begin
<1>2. InFlight = {} /\ launching = {}
  BY DEF Inv, Promised, Unsettled
<1>3. Started' = {}
  BY <1>1, <1>2 DEF InFlight, Started
<1>4. \A n \in Node : results'[n] \notin Cancelled
  BY <1>1 DEF Kept, Cancelled
<1>. QED  BY <1>1, <1>3, <1>4 DEF Steady

LEMMA SteadyMove ==
    ASSUME Steady, UNCHANGED <<results, job>>, Started' = Started,
           aborted' => pc' = "drain", pc = "drain" => pc' = "drain",
           pc' # "cancelWaiting", after' # "abort", cancelledNodes' = {},
           \A i \in DOMAIN mailbox' : mailbox'[i].op # "cancel",
           pc' = "gate" => (Kind[asked] = "gate")' /\ DependenciesDone(asked)',
           pc' = "launch" => \A n \in Ready' : Kind[n] # "gate"
    PROVE  Steady'
BY DEF Steady

LEMMA SteadyEnd ==
    ASSUME Inv, Fit, Steady, NEW n \in Node, results[n] = "none", NEW r,
           results' = [results EXCEPT ![n] = r], Started' \subseteq Started,
           \A m \in Node : job'[m].result = job[m].result \/ job'[m].result = "none",
           r \in Cancelled => pc = "drain", (pc = "drain") <=> (pc' = "drain"),
           pc' \notin {"cancelWaiting", "gate", "launch"}, after' # "abort",
           UNCHANGED <<aborted, mailbox, cancelledNodes>>
    PROVE  Steady'
<1>1. ASSUME NEW m \in Started', NEW d \in DependsOn[m] PROVE results'[d] \notin Cancelled
  <2>1. m \in Started /\ results[d] # "none" /\ results[d] \notin Cancelled
    BY <1>1 DEF Fit, Fits, Steady
  <2>2. results'[d] = results[d]
    BY <2>1 DEF Inv, Shapes
  <2>. QED  BY <2>1, <2>2
<1>2. \A m \in Node : results'[m] = results[m] \/ results'[m] = r
  BY DEF Inv, Shapes
<1>3. "none" \notin Cancelled
  BY DEF Cancelled
<1>4. pc' # "drain" => \A m \in Node : results'[m] \notin Cancelled /\ job'[m].result \notin Cancelled
  BY <1>2, <1>3 DEF Steady
<1>. QED  BY <1>1, <1>4 DEF Steady

LEMMA SteadyPromise ==
    ASSUME Inv, Steady, NEW n \in Started, NEW j, j.phase # "none",
           job' = [job EXCEPT ![n] = j], launching' = launching \ {n},
           j.result \in Cancelled => pc = "drain",
           pc' = pc \/ (pc = "start" /\ pc' = "race"), pc # "launch",
           UNCHANGED <<results, aborted, mailbox, cancelledNodes, after, asked>>
    PROVE  Steady'
<1>1. Started' = Started /\ n \in Node
  BY DEF Started, InFlight, Inv, Shapes
<1>2. \A m \in Node : job'[m].result = job[m].result \/ job'[m].result = j.result
  BY DEF Inv, Shapes
<1>3. DependenciesDone(asked)' <=> DependenciesDone(asked)
  BY DEF DependenciesDone
<1>. QED  BY <1>1, <1>2, <1>3 DEF Steady

LEMMA SteadyJob ==
    ASSUME Inv, Steady, NEW n \in Node, JobStep(n)
    PROVE  Steady'
<1>1. /\ n \in Started /\ launching' = launching \ {n} /\ pc' = pc /\ pc # "launch"
      /\ UNCHANGED <<results, aborted, mailbox, cancelledNodes, after, asked>>
  BY DEF JobStep, Pass, Fail, ChildPauses, RetryLater, Retry, JobFrame, Awaiting, Started,
     InFlight, Inv, Unsettled, Todo, SettleAs, StartAttempt
<1>2. ASSUME NEW r, SettleAs(n, r), r \in Cancelled => pc = "drain" PROVE Steady'
  <2>1. PICK t \in Times : job' = [job EXCEPT ![n] = SettledJob(n, r, t)]
    BY <1>2 DEF SettleAs
  <2> DEFINE j == SettledJob(n, r, t)
  <2>2. j.phase # "none" /\ j.result = r /\ job' = [job EXCEPT ![n] = j]
    BY <2>1 DEF SettledJob
  <2> HIDE DEF j
  <2>. QED  BY <1>1, <1>2, <2>2, SteadyPromise
<1>3. ASSUME NEW phase \in {"running", "backoff"}, NEW a, NEW k,
             job' = [job EXCEPT ![n] = Job(phase, a, k)]
      PROVE  Steady'
  <2> DEFINE j == Job(phase, a, k)
  <2>2. j.phase # "none" /\ j.result \notin Cancelled /\ job' = [job EXCEPT ![n] = j]
    BY <1>3 DEF Job, Cancelled
  <2> HIDE DEF j
  <2>. QED  BY <1>1, <2>2, SteadyPromise
<1>4. CASE Pass(n) \/ Fail(n) \/ ChildPauses(n)
  <2>1. "passed" \notin Cancelled /\ "failed" \notin Cancelled /\ "waiting_approval" \notin Cancelled
    BY DEF Cancelled
  <2>2. aborted => pc = "drain"
    BY DEF Steady
  <2>. QED  BY <1>2, <1>4, <2>1, <2>2 DEF Pass, Fail, ChildPauses
<1>5. CASE RetryLater(n)
  BY <1>3, <1>5 DEF RetryLater
<1>6. CASE Retry(n)
  <2>1. aborted => pc = "drain"
    BY DEF Steady
  <2>. QED  BY <1>2, <1>3, <1>6, <2>1 DEF Retry, StartAttempt
<1>. QED  BY <1>4, <1>5, <1>6 DEF JobStep

LEMMA SteadyStart ==
    ASSUME Inv, Steady, NEW n \in Node, Start(n)
    PROVE  Steady'
<1>1. /\ n \in Started /\ pc = "start" /\ pc' \in {"start", "race"} /\ ~aborted
      /\ launching' = launching \ {n}
      /\ UNCHANGED <<results, aborted, mailbox, cancelledNodes, after, asked>>
  BY DEF Start, Started, SettleAs, StartAttempt, Steady
<1>3. ASSUME NEW phase \in {"running", "backoff"}, NEW a, NEW k,
             job' = [job EXCEPT ![n] = Job(phase, a, k)]
      PROVE  Steady'
  <2> DEFINE j == Job(phase, a, k)
  <2>2. j.phase # "none" /\ j.result \notin Cancelled /\ job' = [job EXCEPT ![n] = j]
    BY <1>3 DEF Job, Cancelled
  <2> HIDE DEF j
  <2>. QED  BY <1>1, <2>2, SteadyPromise
<1>. QED  BY <1>1, <1>3 DEF Start, StartAttempt

LEMMA SteadyNode ==
    ASSUME Undisturbed, Inv, Turns, Fit, Steady, NEW n \in Node, NodeStep(n)
    PROVE  Steady'
<1>0. /\ "skipped" \notin Cancelled /\ after # "abort" /\ cancelledNodes = {}
      /\ aborted => pc = "drain"
  BY DEF Cancelled, Steady
<1>1. CASE Exclude(n) \/ NotRequired(n) \/ (NextCompensation(n) /\ ~Effective(n))
  <2>1. /\ results' = [results EXCEPT ![n] = "skipped"]
        /\ pc' = pc /\ pc \in {"resolve", "compensate"}
        /\ UNCHANGED <<job, launching, after, aborted, mailbox, cancelledNodes>>
    BY <1>1 DEF Exclude, NotRequired, NextCompensation, CompleteWithoutRun
  <2>2. results[n] = "none"
    BY <1>1 DEF Exclude, Resolvable, NotRequired, NextCompensation, Inv, Unsettled, Todo
  <2>3. Started' = Started
    BY <2>1 DEF Started, InFlight
  <2>. QED  BY <1>0, <2>1, <2>2, <2>3, SteadyEnd
<1>2. CASE NextCompensation(n) /\ Effective(n)
  <2>1. /\ pc = "compensate" /\ pc' = "start" /\ launching' = {n} /\ n \in compensationPending
        /\ UNCHANGED <<results, job, after, aborted, mailbox, cancelledNodes>>
    BY <1>2 DEF NextCompensation
  <2>2. Started' = {n}
    BY <2>1 DEF Started, InFlight, Inv, Alone
  <2>3. \A m \in Node : results'[m] \notin Cancelled /\ job'[m].result \notin Cancelled
    BY <2>1 DEF Steady
  <2>4. DependsOn[n] \subseteq Node /\ ~aborted' /\ Kind[n] # "gate"
    BY <1>0, <2>1, GraphAssumption DEF Inv, Unsettled
  <2>. QED  BY <1>0, <2>1, <2>2, <2>3, <2>4 DEF Steady
<1>3. CASE Record(n)
  <2>1. /\ results' = [results EXCEPT ![n] = job[n].result] /\ job[n].phase = "settled"
        /\ job' = [job EXCEPT ![n] = NoJob]
        /\ pc \in {"settle", "race", "drain"}
        /\ pc' = pc \/ (pc = "race" /\ pc' \in {"control", "compensate"})
        /\ UNCHANGED <<launching, after, aborted, mailbox, cancelledNodes>>
    BY <1>3 DEF Record
  <2>2. results[n] = "none" /\ Started' \subseteq Started
    BY <2>1 DEF Inv, Shapes, Promised, Started, InFlight, NoJob
  <2>3. \A m \in Node : job'[m].result = job[m].result \/ job'[m].result = "none"
    BY <2>1 DEF NoJob, Inv, Shapes
  <2>4. job[n].result \in Cancelled => pc = "drain"
    BY DEF Steady
  <2>. QED  BY <1>0, <2>1, <2>2, <2>3, <2>4, SteadyEnd
<1>4. CASE Ask(n)
  <2>1. /\ pc = "resolve" /\ pc' = "gate" /\ asked' = n /\ DependenciesDone(n) /\ Kind[n] = "gate"
        /\ UNCHANGED <<results, job, launching, after, aborted, mailbox, cancelledNodes>>
    BY <1>4 DEF Ask, Resolvable, Undisturbed, Forward
  <2>2. (Kind[asked] = "gate")' /\ DependenciesDone(asked)' /\ Started' = Started
    BY <2>1 DEF DependenciesDone, Started, InFlight
  <2>. QED  BY <1>0, <2>1, <2>2, SteadyMove DEF Steady
<1>5. ~(CancelNode(n) \/ CancelWaiting(n) \/ CancelPending(n) \/ StopSkip(n))
  BY DEF CancelNode, CancelWaiting, CancelPending, StopSkip, StopAfterFailure, Steady, Undisturbed
<1>. QED  BY <1>1, <1>2, <1>3, <1>4, <1>5, SteadyStart DEF NodeStep

LEMMA SteadyAnswer ==
    ASSUME Inv, Fit, Steady,
           GateWaits \/ AnswerThrows \/ \E result \in Results : Answer(result)
    PROVE  Steady'
<1>0. /\ "passed" \notin Cancelled /\ "failed" \notin Cancelled /\ "waiting_approval" \notin Cancelled
      /\ after # "abort" /\ pc # "wait"
  BY DEF Cancelled, Steady, Fit
<1>1. CASE GateWaits \/ \E result \in Results : Answer(result)
  <2>1. PICK r \in {"passed", "failed", "waiting_approval"} :
            results' = [results EXCEPT ![asked] = r]
    BY <1>1 DEF GateWaits, CompleteWithoutRun, Answer
  <2>2. /\ pc = "gate" /\ pc' \in {"resolve", "settle"} /\ after' # "abort"
        /\ UNCHANGED <<job, launching, aborted, mailbox, cancelledNodes>>
    BY <1>0, <1>1 DEF GateWaits, CompleteWithoutRun, Answer
  <2>3. asked \in Node /\ results[asked] = "none" /\ Started' = Started
    BY <2>2 DEF Inv, Shapes, Unsettled, Todo, Started, InFlight
  <2>. QED  BY <1>0, <2>1, <2>2, <2>3, SteadyEnd
<1>2. CASE AnswerThrows
  <2>1. /\ pc' = "drain" /\ UNCHANGED <<results, job, launching, after, mailbox, cancelledNodes>>
    BY <1>2 DEF AnswerThrows
  <2>2. Started' = Started
    BY <2>1 DEF Started, InFlight
  <2>. QED  BY <1>0, <2>1, <2>2, SteadyMove DEF Steady
<1>. QED  BY <1>1, <1>2

LEMMA SteadyLoop ==
    ASSUME Inv, Turns, Fit, Steady,
           \/ Warn \/ LoopTop \/ CancelsDone \/ SettledForControl \/ SettledForWaiting
           \/ SettledForGate \/ Resolved \/ Launch \/ Finish
    PROVE  Steady'
<1>0. /\ after # "abort" /\ cancelledNodes = {} /\ (aborted => pc = "drain")
      /\ \A i \in DOMAIN mailbox : mailbox[i].op # "cancel"
  BY DEF Steady
<1>1. CASE Off
  BY <1>1, SteadyOff
<1>2. ASSUME UNCHANGED <<results, job, aborted>>, Started' = Started, pc # "drain",
             pc' \notin {"drain", "cancelWaiting", "gate"}, after' # "abort",
             pc' = "launch" => \A n \in Ready' : Kind[n] # "gate",
             ProcessControl \/ UNCHANGED control
      PROVE  Steady'
  <2>1. CASE UNCHANGED control
    BY <1>0, <1>2, <2>1, SteadyMove
  <2>2. CASE ProcessControl
    <3>1. mailbox' = <<>>
      BY <2>2 DEF ProcessControl
    <3>2. cancelledNodes' = {}
      <4>1. \A n \in Node : \A i \in DOMAIN mailbox : mailbox[i] # [op |-> "cancel", node |-> n]
        BY <1>0
      <4>. QED  BY <1>0, <2>2, <4>1 DEF ProcessControl
    <3>3. \A i \in DOMAIN mailbox' : mailbox'[i].op # "cancel"
      BY <3>1
    <3>. QED  BY <1>0, <1>2, <3>2, <3>3, SteadyMove
  <2>. QED  BY <1>2, <2>1, <2>2
<1>3. CASE Warn \/ LoopTop \/ CancelsDone \/ Resolved \/ (SettledForControl /\ ~Off)
  <2>1. /\ UNCHANGED <<results, job, aborted, launching>> /\ pc \notin {"drain", "start"}
        /\ ProcessControl \/ UNCHANGED control
    BY <1>3 DEF Warn, LoopTop, CancelsDone, Resolved, SettledForControl, Settled, ProcessControl,
       Goto, Return
  <2>2. ~aborted
    BY <1>0, <2>1
  <2>3. pc' \in {"control", "cancels", "finish", "settle", "resolve", "launch"} /\ after' # "abort"
    BY <1>0, <1>3, <2>2 DEF Warn, LoopTop, CancelsDone, Resolved, SettledForControl, Settled, Route,
       Goto, Return
  <2>4. Started' = Started
    BY <2>1 DEF Started, InFlight
  <2>5. pc' = "launch" => \A n \in Ready' : Kind[n] # "gate"
    <3>1. ~Resolved => pc' # "launch"
      BY <1>3, <2>2 DEF Warn, LoopTop, CancelsDone, SettledForControl, Route, Return
    <3>2. Resolved => \A n \in Ready' : Kind[n] # "gate"
      BY DEF Resolved, Goto, Ready, DependenciesDone
    <3>. QED  BY <3>1, <3>2
  <2>. QED  BY <1>2, <2>1, <2>3, <2>4, <2>5
<1>4. CASE SettledForWaiting \/ SettledForGate
  <2>1. ~aborted
    BY <1>0, <1>4 DEF SettledForWaiting, SettledForGate, Settled
  <2>. QED  BY <1>1, <1>4, <2>1 DEF SettledForWaiting, SettledForGate, Return
<1>5. CASE Launch
  <2>1. CASE launching' \subseteq Ready /\ pc' = "start" /\ UNCHANGED <<results, job, aborted, control, after>>
    <3>1. pc = "launch" /\ pc # "drain" /\ launching = {}
      BY <1>5 DEF Launch, Inv, Unsettled
    <3>2. \A n \in Node : results'[n] \notin Cancelled /\ job'[n].result \notin Cancelled
      BY <2>1, <3>1 DEF Steady
    <3>3. Started' \subseteq Node /\ \A n \in Node : DependsOn[n] \subseteq Node
      BY <2>1, GraphAssumption DEF Started, InFlight, Ready, Inv, Shapes
    <3>4. \A n \in Started' : Kind[n] # "gate"
      BY <1>5, <2>1, <3>1 DEF Started, InFlight, Steady
    <3>. QED  BY <1>0, <2>1, <3>1, <3>2, <3>3, <3>4 DEF Steady
  <2>2. CASE \E position \in {"race", "stuck", "finish"} : Goto(position)
    <3>1. /\ UNCHANGED <<results, job, aborted, control, launching, after>>
          /\ pc' \notin {"drain", "cancelWaiting", "gate", "launch"}
      BY <2>2 DEF Goto
    <3>2. pc # "drain" /\ Started' = Started
      BY <1>5, <3>1 DEF Launch, Started, InFlight
    <3>. QED  BY <1>0, <1>2, <3>1, <3>2
  <2>3. \/ launching' \subseteq Ready /\ pc' = "start" /\ UNCHANGED <<results, job, aborted, control, after>>
        \/ \E position \in {"race", "stuck", "finish"} : Goto(position)
        \/ Off
    BY <1>5 DEF Launch, kSubset, Return
  <2>. QED  BY <1>1, <2>1, <2>2, <2>3
<1>6. CASE Finish
  <2>1. pc = "finish" /\ ~aborted
    BY <1>0, <1>6 DEF Finish
  <2>2. /\ UNCHANGED <<results, job, aborted, control, launching, after>> /\ pc' = "compensate"
    BY <1>6, <2>1 DEF Finish
  <2>3. Started' = Started
    BY <2>2 DEF Started, InFlight
  <2>. QED  BY <1>0, <1>2, <2>1, <2>2, <2>3
<1>. QED  BY <1>1, <1>3, <1>4, <1>5, <1>6

LEMMA SteadyStep ==
    Undisturbed /\ Inv /\ Typed /\ Turns /\ Fit /\ Steady /\ [Next]_vars => Steady'
<1> SUFFICES ASSUME Undisturbed, Inv, Typed, Turns, Fit, Steady, [Next]_vars PROVE Steady'
  OBVIOUS
<1>1. CASE StartRun \/ RestartRun \/ \E roots : ResumeRun(roots)
  BY <1>1, SteadyBegin DEF StartRun, RestartRun, ResumeRun
<1>2. CASE Step
  <2>1. ~(SettledForAbort \/ SettledForWait \/ ReturnCancelled \/ WaitWaits)
    BY DEF SettledForAbort, SettledForWait, Settled, ReturnCancelled, WaitWaits, Steady, Fit
  <2>2. CASE Drained \/ ReturnFinished
    BY <2>2, SteadyOff DEF Drained, ReturnFinished, Return
  <2>. QED  BY <1>2, <2>1, <2>2, SteadyNode, SteadyLoop, SteadyAnswer DEF Step
<1>3. ASSUME NEW n \in Node, JobStep(n) PROVE Steady'
  BY <1>3, SteadyJob
<1>4. CASE Crash
  BY <1>4, SteadyOff DEF Crash
<1>5. ASSUME NEW command \in Commands, Enqueue(command) PROVE Steady'
  <2>1. /\ pc' = pc /\ mailbox' = Append(mailbox, command)
        /\ UNCHANGED <<results, job, launching, aborted, after, asked, cancelledNodes>>
    BY <1>5 DEF Enqueue
  <2>2. command.op # "cancel"
    BY DEF Commands, Undisturbed
  <2>3. mailbox \in Seq(Commands)
    BY DEF Typed, Orders
  <2>4. \A i \in DOMAIN mailbox' : mailbox'[i].op # "cancel"
    BY <2>1, <2>2, <2>3 DEF Steady
  <2>5. /\ Started' = Started /\ (DependenciesDone(asked)' <=> DependenciesDone(asked))
        /\ Ready' = Ready
    BY <1>5, <2>1 DEF Enqueue, Started, InFlight, DependenciesDone, Ready
  <2>. QED  BY <2>1, <2>4, <2>5, SteadyMove DEF Steady
<1>6. ~Abort
  BY DEF Abort, Undisturbed
<1>7. CASE Aside
  BY <1>7, AsideKeeps DEF Steady, Started, InFlight, DependenciesDone, Ready
<1>. QED  BY <1>1, <1>2, <1>3, <1>4, <1>5, <1>6, <1>7 DEF Next, Aside

-----------------------------------------------------------------------------
(* Results that a node behind them cannot have started from.               *)
Undone == Waiting \union Cancelled \union {"none"}

(* An attempt, or a promise, within the retries of its node.               *)
Within(a, n) ==
    /\ a.attempt <= MaxRetries[n] + 1
    /\ a.phase # "none" => a.attempt >= 1
    /\ a.phase \in {"waiting_retry", "backoff"} => a.attempt <= MaxRetries[n]

(* What has a result has no attempt, and came after what it depends on.    *)
Grounded(res, attempts) ==
    \A n \in Node :
        /\ Within(attempts[n], n)
        /\ attempts[n].phase # "none" => res[n] = "none" /\ Kind[n] # "gate"
        /\ res[n] # "none" => \A d \in DependsOn[n] : res[d] \notin Undone

Ground ==
    /\ disk # NoCheckpoint => Grounded(disk.results, disk.active)
    /\ \A n \in Node : Within(job[n], n) /\ Within(recovered[n], n)

LEMMA NothingWithin ==
    ASSUME NEW n \in Node
    PROVE  Within(NoAttempt, n) /\ Within(NoJob, n)
<1>1. MaxRetries[n] \in Nat
  BY GraphAssumption
<1>. QED  BY <1>1 DEF Within, NoAttempt, NoJob

LEMMA GroundInit == Init => Ground
BY NothingWithin DEF Init, Ground, NoAttempts

LEMMA GroundOff ==
    ASSUME Inv, OnDisk, Ground, pc # "off", Off, disk'.results = results, disk'.active = active
    PROVE  Ground'
<1>1. Grounded(results, active)
  BY CheckpointAssumption DEF Ground, Inv, Mirrored, OnDisk
<1>2. Grounded(disk'.results, disk'.active)
  BY <1>1
<1>3. \A n \in Node : job'[n] = NoJob /\ recovered'[n] = NoAttempt
  BY DEF Off, NoAttempts
<1>. QED  BY <1>2, <1>3, NothingWithin DEF Ground, Grounded, Within

(* In memory, while a scheduler owns the Graph.                            *)
LEMMA GroundInMemory ==
    ASSUME Inv, OnDisk, Ground, pc # "off"
    PROVE  Grounded(results, active)
BY CheckpointAssumption DEF Ground, Inv, Mirrored, OnDisk

LEMMA GroundOn ==
    ASSUME Inv', pc' # "off", Grounded(results', active'),
           \A n \in Node : Within(job'[n], n) /\ Within(recovered'[n], n)
    PROVE  Ground'
<1>1. disk'.results = results' /\ disk'.active = active'
  BY DEF Inv, Mirrored
<1>2. Grounded(disk'.results, disk'.active)
  BY <1>1
<1>. QED  BY <1>2 DEF Ground, Grounded, Within

(* Attempts that are as before or gone.                                    *)
LEMMA GroundMove ==
    ASSUME Inv, Inv', OnDisk, Ground, pc # "off", pc' # "off",
           UNCHANGED <<results, job>>,
           \A n \in Node : active'[n] = active[n] \/ active'[n] = NoAttempt,
           \A n \in Node : recovered'[n] = recovered[n] \/ recovered'[n] = NoAttempt
    PROVE  Ground'
<1>1. Grounded(results', active')
  BY GroundInMemory, NothingWithin DEF Grounded, NoAttempt
<1>2. \A n \in Node : Within(job'[n], n) /\ Within(recovered'[n], n)
  BY NothingWithin DEF Ground
<1>. QED  BY <1>1, <1>2, GroundOn

(* A node ends after what it depends on.                                   *)
LEMMA GroundEnd ==
    ASSUME Inv, Inv', OnDisk, Ground, pc # "off", pc' # "off",
           NEW n \in Node, results[n] = "none", NEW r, results' = [results EXCEPT ![n] = r],
           \A d \in DependsOn[n] : results[d] \notin Undone,
           active'[n].phase = "none", Within(active'[n], n),
           \A m \in Node \ {n} : active'[m] = active[m],
           \A m \in Node : recovered'[m] = recovered[m] \/ recovered'[m] = NoAttempt,
           \A m \in Node : job'[m] = job[m] \/ job'[m] = NoJob
    PROVE  Ground'
<1>0. "none" \in Undone
  BY DEF Undone
<1>1. ASSUME NEW m \in Node, results'[m] # "none", NEW d \in DependsOn[m]
      PROVE  results'[d] \notin Undone
  <2>1. results[d] \notin Undone
    BY <1>1, GroundInMemory DEF Grounded, Inv, Shapes
  <2>2. results'[d] = results[d]
    BY <1>0, <2>1 DEF Inv, Shapes
  <2>. QED  BY <2>1, <2>2
<1>2. \A m \in Node \ {n} : results'[m] = results[m]
  BY DEF Inv, Shapes
<1>3. Grounded(results', active')
  BY <1>1, <1>2, GroundInMemory DEF Grounded
<1>4. \A m \in Node : Within(job'[m], m) /\ Within(recovered'[m], m)
  BY NothingWithin DEF Ground
<1>. QED  BY <1>3, <1>4, GroundOn

(* A promise is made or goes on.                                           *)
LEMMA GroundPromise ==
    ASSUME Inv, Inv', OnDisk, Ground, pc # "off", pc' # "off",
           NEW n \in Node, results[n] = "none", Kind[n] # "gate", results' = results,
           NEW j, job' = [job EXCEPT ![n] = j], Within(j, n), Within(active'[n], n),
           \A m \in Node \ {n} : active'[m] = active[m],
           \A m \in Node : recovered'[m] = recovered[m] \/ recovered'[m] = NoAttempt
    PROVE  Ground'
<1>1. Grounded(results', active')
  BY GroundInMemory DEF Grounded
<1>2. \A m \in Node : Within(job'[m], m) /\ Within(recovered'[m], m)
  BY NothingWithin DEF Ground, Inv, Shapes
<1>. QED  BY <1>1, <1>2, GroundOn

LEMMA GroundBegin ==
    ASSUME Undisturbed, Inv, Inv', Ground,
           StartRun \/ RestartRun \/ \E n \in Node : \E roots \in SUBSET {n} : ResumeRun(roots)
    PROVE  Ground'
<1>0. /\ pc' = "warn" /\ job' = job
  BY DEF StartRun, RestartRun, ResumeRun, Begin
<1>1. CASE StartRun
  <2>1. \A n \in Node : /\ results'[n] = "none"
                        /\ active'[n] = NoAttempt /\ recovered'[n] = NoAttempt
    BY <1>1 DEF StartRun, Begin, Kept, NoAttempts
  <2>2. Grounded(results', active')
    BY <2>1, NothingWithin DEF Grounded, NoAttempt
  <2>. QED  BY <1>0, <2>1, <2>2, NothingWithin, GroundOn DEF Ground
<1>2. ~RestartRun
  BY DEF RestartRun, Undisturbed
<1>3. CASE \E n \in Node : \E roots \in SUBSET {n} : ResumeRun(roots)
  <2>1. ResumeRun({})
    BY <1>3 DEF ResumeRun, Undisturbed
  <2>2. Begin("resume", {}) /\ Grounded(disk.results, disk.active)
    BY <2>1 DEF ResumeRun, Ground
  <2>3. Closure({}) = {}
    BY DEF Closure
  <2>4. \A n \in Node : results'[n] = IF disk.results[n] \in Undone THEN "none" ELSE disk.results[n]
    BY <2>2, <2>3 DEF Begin, Kept, Undone
  <2>5. \A n \in Node : active'[n] = disk.active[n] /\ recovered'[n] = disk.active[n]
    BY <2>2, <2>3 DEF Begin
  <2>6. "none" \in Undone
    BY DEF Undone
  <2>7. \A n \in Node : DependsOn[n] \subseteq Node
    BY GraphAssumption
  <2>8. Grounded(results', active')
    BY <2>2, <2>4, <2>5, <2>6, <2>7 DEF Grounded
  <2>. QED  BY <1>0, <2>2, <2>5, <2>8, GroundOn DEF Ground, Grounded
<1>. QED  BY <1>1, <1>2, <1>3

LEMMA GroundAttempt ==
    ASSUME Inv, Inv', Typed, OnDisk, Ground, pc # "off", pc' # "off",
           NEW n \in Node, results[n] = "none", Kind[n] # "gate",
           NEW a \in Nat, NEW k, 1 <= a, a <= MaxRetries[n] + 1, StartAttempt(n, a, k),
           \A m \in Node : recovered'[m] = recovered[m] \/ recovered'[m] = NoAttempt
    PROVE  Ground'
<1> DEFINE j == Job("running", a, k)
<1>1. Within(j, n)
  BY DEF Job, Within
<1>2. Within(Attempt(a, k, "running"), n)
  BY DEF Attempt, Within
<1>3. /\ active'[n] = Attempt(a, k, "running") /\ \A m \in Node \ {n} : active'[m] = active[m]
      /\ job' = [job EXCEPT ![n] = j] /\ results' = results
  BY DEF StartAttempt, Inv, Shapes
<1> HIDE DEF j
<1>. QED  BY <1>1, <1>2, <1>3, GroundPromise

LEMMA GroundJob ==
    ASSUME Inv, Inv', Typed, OnDisk, Steady, Ground, NEW n \in Node, JobStep(n)
    PROVE  Ground'
<1>0. /\ pc # "off" /\ pc' # "off" /\ recovered' = recovered /\ job[n].phase # "none"
      /\ results[n] = "none" /\ Kind[n] # "gate"
  BY DEF JobStep, Pass, Fail, ChildPauses, RetryLater, Retry, JobFrame, Awaiting, Inv, Promised,
     InFlight, Steady, Started
<1>1. /\ job[n].attempt \in Nat /\ MaxRetries[n] \in Nat /\ Within(job[n], n)
      /\ job[n].attempt >= 1 /\ Within(active[n], n)
  BY <1>0, GraphAssumption, GroundInMemory DEF Typed, Data, Promises, Ground, Within, Grounded
<1>2. ASSUME NEW r, SettleAs(n, r) PROVE Ground'
  <2>1. PICK t \in Times : job' = [job EXCEPT ![n] = SettledJob(n, r, t)]
    BY <1>2 DEF SettleAs
  <2> DEFINE j == SettledJob(n, r, t)
  <2>2. Within(j, n) /\ job' = [job EXCEPT ![n] = j]
    BY <1>1, <2>1 DEF SettledJob, Within
  <2> HIDE DEF j
  <2>. QED  BY <1>0, <1>1, <1>2, <2>2, GroundPromise DEF SettleAs
<1>3. CASE Pass(n) \/ Fail(n) \/ ChildPauses(n)
  BY <1>2, <1>3 DEF Pass, Fail, ChildPauses
<1>4. CASE RetryLater(n)
  <2> DEFINE j == Job("backoff", job[n].attempt, job[n].key)
             a == Attempt(job[n].attempt, job[n].key, "waiting_retry")
  <2>1. job[n].attempt <= MaxRetries[n]
    BY <1>4 DEF RetryLater
  <2>2. Within(j, n) /\ Within(a, n)
    BY <1>1, <2>1 DEF Job, Attempt, Within
  <2>3. /\ job' = [job EXCEPT ![n] = j] /\ results' = results
        /\ active'[n] = a /\ \A m \in Node \ {n} : active'[m] = active[m]
    BY <1>4 DEF RetryLater, Inv, Shapes
  <2> HIDE DEF j, a
  <2>. QED  BY <1>0, <2>2, <2>3, GroundPromise
<1>5. CASE Retry(n)
  <2>1. job[n].attempt <= MaxRetries[n]
    BY <1>1, <1>5 DEF Retry, Within
  <2>2. job[n].attempt + 1 \in Nat /\ 1 <= job[n].attempt + 1 /\ job[n].attempt + 1 <= MaxRetries[n] + 1
    BY <1>1, <2>1
  <2>. QED  BY <1>0, <1>2, <1>5, <2>2, GroundAttempt DEF Retry
<1>. QED  BY <1>3, <1>4, <1>5 DEF JobStep

LEMMA GroundStart ==
    ASSUME Inv, Inv', Typed, OnDisk, Steady, Ground, NEW n \in Node, Start(n)
    PROVE  Ground'
<1>0. /\ pc = "start" /\ pc' \in {"start", "race"} /\ n \in launching
      /\ recovered' = [recovered EXCEPT ![n] = NoAttempt]
  BY DEF Start
<1>1. /\ pc # "off" /\ pc' # "off" /\ ~aborted /\ results[n] = "none" /\ Kind[n] # "gate"
      /\ \A m \in Node : recovered'[m] = recovered[m] \/ recovered'[m] = NoAttempt
  BY <1>0 DEF Steady, Started, Inv, Shapes, Unsettled, Todo
<1>2. /\ recovered[n] \in Attempts /\ recovered[n].attempt \in Nat /\ MaxRetries[n] \in Nat
      /\ Within(recovered[n], n) /\ Within(active[n], n)
  BY <1>1, GraphAssumption, GroundInMemory DEF Typed, Data, Attempts, Ground, Grounded
<1>3. CASE recovered[n].phase = "waiting_retry"
  <2> DEFINE j == Job("backoff", recovered[n].attempt, recovered[n].key)
  <2>1. Within(j, n)
    BY <1>2, <1>3 DEF Job, Within
  <2>2. job' = [job EXCEPT ![n] = j] /\ UNCHANGED <<results, active>>
    BY <1>3 DEF Start
  <2> HIDE DEF j
  <2>. QED  BY <1>1, <1>2, <2>1, <2>2, GroundPromise
<1>4. CASE recovered[n].phase = "running"
  <2>1. StartAttempt(n, recovered[n].attempt, recovered[n].key)
    BY <1>1, <1>4 DEF Start
  <2>2. 1 <= recovered[n].attempt /\ recovered[n].attempt <= MaxRetries[n] + 1
    BY <1>2, <1>4 DEF Within
  <2>. QED  BY <1>1, <1>2, <2>1, <2>2, GroundAttempt
<1>5. CASE recovered[n].phase = "none"
  <2>1. StartAttempt(n, 1, keys[n] + 1)
    BY <1>1, <1>5 DEF Start
  <2>2. 1 \in Nat /\ 1 <= 1 /\ 1 <= MaxRetries[n] + 1
    BY <1>2
  <2>. QED  BY <1>1, <2>1, <2>2, GroundAttempt
<1>. QED  BY <1>2, <1>3, <1>4, <1>5 DEF Attempts

LEMMA GroundNode ==
    ASSUME Undisturbed, Inv, Inv', Typed, Turns, Fit, Steady, OnDisk, Ground,
           NEW n \in Node, NodeStep(n)
    PROVE  Ground'
<1>0. \A m \in Node : DependsOn[m] \subseteq Node
  BY GraphAssumption
<1>1. CASE Exclude(n) \/ NotRequired(n) \/ (NextCompensation(n) /\ ~Effective(n))
  <2>1. /\ CompleteWithoutRun(n, "skipped")
        /\ pc' = pc /\ pc \in {"resolve", "compensate"} /\ job' = job
    BY <1>1 DEF Exclude, NotRequired, NextCompensation
  <2>2. results[n] = "none"
    BY <1>1 DEF Exclude, Resolvable, NotRequired, NextCompensation, Inv, Unsettled, Todo
  <2>3. \A d \in DependsOn[n] : results[d] # "none"
    <3>1. CASE Exclude(n)
      BY <3>1 DEF Exclude, Resolvable, DependenciesDone
    <3>2. CASE n \in compensationPending /\ pc = "compensate"
      <4>1. pending = {} /\ launching = {} /\ InFlight = {} /\ Kind[n] = "compensation"
        BY <3>2 DEF Inv, Alone, Unsettled, Turns, Rollback
      <4>2. ASSUME NEW d \in DependsOn[n] PROVE results[d] # "none"
        <5>1. d \in Node /\ Kind[d] # "compensation"
          BY <1>0 DEF Undisturbed, Forward
        <5>2. d \notin compensationPending
          BY <5>1 DEF Inv, Unsettled
        <5>. QED  BY <3>2, <4>1, <5>1, <5>2 DEF Turns, Covered, Todo
      <4>. QED  BY <4>2
    <3>. QED  BY <1>1, <3>1, <3>2 DEF NotRequired, NextCompensation
  <2>4. \A d \in Node : results[d] \notin Waiting /\ results[d] \notin Cancelled
    BY <2>1 DEF Fit, Past, NothingWaits, Steady
  <2>5. \A d \in DependsOn[n] : results[d] \notin Undone
    BY <1>0, <2>3, <2>4 DEF Undone
  <2>6. /\ results' = [results EXCEPT ![n] = "skipped"]
        /\ active'[n] = NoAttempt /\ \A m \in Node \ {n} : active'[m] = active[m]
        /\ \A m \in Node : recovered'[m] = recovered[m] \/ recovered'[m] = NoAttempt
    BY <2>1 DEF CompleteWithoutRun, Inv, Shapes
  <2>7. active'[n].phase = "none" /\ Within(active'[n], n)
    BY <2>6, NothingWithin DEF NoAttempt
  <2>. QED  BY <2>1, <2>2, <2>5, <2>6, <2>7, GroundEnd
<1>2. CASE (NextCompensation(n) /\ Effective(n)) \/ Ask(n)
  <2>1. /\ pc \in {"compensate", "resolve"} /\ pc' \in {"start", "gate"}
        /\ UNCHANGED <<results, job, active, recovered>>
    BY <1>2 DEF NextCompensation, Ask, Undisturbed, Forward
  <2>. QED  BY <2>1, GroundMove
<1>3. CASE Record(n)
  <2>1. /\ results' = [results EXCEPT ![n] = job[n].result] /\ n \in InFlight
        /\ job' = [job EXCEPT ![n] = NoJob] /\ active' = [active EXCEPT ![n] = NoAttempt]
        /\ pc \in {"settle", "race", "drain"} /\ pc' # "off" /\ recovered' = recovered
    BY <1>3 DEF Record, InFlight
  <2>2. results[n] = "none" /\ n \in Started
    BY <2>1 DEF Inv, Promised, Started
  <2>3. \A d \in DependsOn[n] : results[d] \notin Undone
    BY <2>2 DEF Fit, Fits, Steady, Undone
  <2>4. /\ active'[n] = NoAttempt /\ \A m \in Node \ {n} : active'[m] = active[m]
        /\ \A m \in Node : job'[m] = job[m] \/ job'[m] = NoJob
    BY <2>1 DEF Inv, Shapes
  <2>5. active'[n].phase = "none" /\ Within(active'[n], n)
    BY <2>4, NothingWithin DEF NoAttempt
  <2>. QED  BY <2>1, <2>2, <2>3, <2>4, <2>5, GroundEnd
<1>4. ~(CancelNode(n) \/ CancelWaiting(n) \/ CancelPending(n) \/ StopSkip(n))
  BY DEF CancelNode, CancelWaiting, CancelPending, StopSkip, StopAfterFailure, Steady, Undisturbed
<1>. QED  BY <1>1, <1>2, <1>3, <1>4, GroundStart DEF NodeStep

LEMMA GroundAnswer ==
    ASSUME Inv, Inv', Fit, Steady, OnDisk, Ground,
           GateWaits \/ \E result \in Results : Answer(result)
    PROVE  Ground'
<1>1. /\ pc = "gate" /\ pc' # "off" /\ job' = job
      /\ active' = active \/ active' = [active EXCEPT ![asked] = NoAttempt]
      /\ recovered' = recovered \/ recovered' = [recovered EXCEPT ![asked] = NoAttempt]
      /\ \E r : results' = [results EXCEPT ![asked] = r]
  BY DEF GateWaits, CompleteWithoutRun, Answer, Fit
<1>2. asked \in Node /\ results[asked] = "none" /\ Kind[asked] = "gate"
  BY <1>1 DEF Inv, Shapes, Unsettled, Todo, Steady
<1>3. \A d \in DependsOn[asked] : results[d] \notin Undone
  <2>1. DependsOn[asked] \subseteq Node
    BY <1>2, GraphAssumption
  <2>2. \A d \in Node : results[d] \notin Waiting /\ results[d] \notin Cancelled
    BY <1>1 DEF Fit, Past, NothingWaits, Steady
  <2>. QED  BY <1>1, <2>1, <2>2 DEF Steady, DependenciesDone, Undone
<1>4. active[asked].phase = "none" /\ Within(active[asked], asked)
  BY <1>1, <1>2, GroundInMemory DEF Grounded
<1>5. /\ active'[asked].phase = "none" /\ Within(active'[asked], asked)
      /\ \A m \in Node \ {asked} : active'[m] = active[m]
      /\ \A m \in Node : recovered'[m] = recovered[m] \/ recovered'[m] = NoAttempt
  BY <1>1, <1>2, <1>4, NothingWithin DEF NoAttempt, Inv, Shapes
<1>. QED  BY <1>1, <1>2, <1>3, <1>5, GroundEnd

LEMMA GroundReturn ==
    ASSUME Inv, OnDisk, Ground, pc # "off", NEW st, NEW why, Return(st, why)
    PROVE  Ground'
BY GroundOff DEF Return, Checkpoint

LEMMA GroundLoop ==
    ASSUME Inv, Inv', Steady, OnDisk, Ground,
           \/ Warn \/ LoopTop \/ CancelsDone \/ Resolved \/ AnswerThrows \/ SettledForControl
           \/ SettledForWaiting \/ SettledForGate \/ Launch \/ Finish \/ ReturnFinished
           \/ Drained \/ Crash \/ \E command \in Commands : Enqueue(command)
    PROVE  Ground'
<1>1. CASE Warn
  <2>1. /\ pc # "off" /\ pc' # "off" /\ UNCHANGED <<results, job, recovered>>
        /\ \A n \in Node : active'[n] = active[n] \/ active'[n] = NoAttempt
    BY <1>1 DEF Warn
  <2>. QED  BY <2>1, GroundMove
<1>2. ASSUME pc # "off", pc' # "off", UNCHANGED <<results, job, active, recovered>> PROVE Ground'
  BY <1>2, GroundMove
<1>3. CASE LoopTop \/ CancelsDone \/ Resolved \/ AnswerThrows \/ \E command \in Commands : Enqueue(command)
  BY <1>2, <1>3 DEF LoopTop, ProcessControl, CancelsDone, Route, Resolved, AnswerThrows, Enqueue, Goto
<1>4. CASE SettledForControl \/ SettledForWaiting \/ SettledForGate \/ Launch \/ Finish \/ ReturnFinished
  <2>1. pc # "off"
    BY <1>4 DEF SettledForControl, SettledForWaiting, SettledForGate, Settled, Launch, Finish,
       ReturnFinished
  <2>2. \/ \E st, why : Return(st, why)
        \/ pc' # "off" /\ UNCHANGED <<results, job, active, recovered>>
    BY <1>4 DEF SettledForControl, SettledForWaiting, SettledForGate, Launch, Finish,
       ReturnFinished, Goto, ProcessControl, Route
  <2>. QED  BY <1>2, <2>1, <2>2, GroundReturn
<1>5. CASE Drained \/ Crash
  <2>1. /\ pc # "off" /\ Off /\ disk' = disk
    BY <1>5 DEF Drained, Crash
  <2>. QED  BY <2>1, GroundOff DEF Inv, Mirrored
<1>. QED  BY <1>1, <1>3, <1>4, <1>5

LEMMA GroundStep ==
    /\ Undisturbed
    /\ Inv /\ Inv' /\ Typed /\ Turns /\ Fit /\ Steady /\ OnDisk /\ Ground /\ [Next]_vars
    => Ground'
<1> SUFFICES ASSUME Undisturbed, Inv, Inv', Typed, Turns, Fit, Steady, OnDisk, Ground, [Next]_vars
             PROVE  Ground'
  OBVIOUS
<1>1. CASE Step
  <2>1. ~(SettledForAbort \/ SettledForWait \/ ReturnCancelled \/ WaitWaits)
    BY DEF SettledForAbort, SettledForWait, Settled, ReturnCancelled, WaitWaits, Steady, Fit
  <2>. QED  BY <1>1, <2>1, GroundNode, GroundAnswer, GroundLoop DEF Step
<1>2. ASSUME NEW n \in Node, JobStep(n) PROVE Ground'
  BY <1>2, GroundJob
<1>3. ~Abort
  BY DEF Abort, Undisturbed
<1>4. CASE Aside
  BY <1>4, AsideKeeps DEF Ground, Grounded, Within
<1>. QED  BY <1>1, <1>2, <1>3, <1>4, GroundBegin, GroundLoop DEF Next, Aside

-----------------------------------------------------------------------------
(* The status of a run says whether something waits for approval, and the  *)
(* checkpoint has it.                                                      *)
Standing ==
    /\ status = "paused" <=> Has("waiting_approval")
    /\ reason = "approval" <=> Has("waiting_approval")
    /\ pc # "off" => disk.status = status /\ disk.reason = reason /\ disk.done = FALSE
    /\ pc = "settle" /\ after \in {"waiting", "gate"} => Has("waiting_approval")
    /\ main = "passed" => pc = "compensate" /\ \A n \in Node : results[n] \notin Failed

LEMMA StandingInit == Init => Standing
BY DEF Init, Standing, Has, NoResults

LEMMA StandingOff ==
    ASSUME Off
    PROVE  Standing'
BY DEF Off, Standing, Has, NoResults

LEMMA StandingBegin ==
    ASSUME Inv, NEW mode, NEW roots, Begin(mode, roots), pc = "off"
    PROVE  Standing'
<1>1. /\ pc' = "warn" /\ status' = "running" /\ reason' = "none" /\ done' = FALSE /\ main' = main
      /\ disk'.status = status' /\ disk'.reason = reason' /\ disk'.done = done'
      /\ \A n \in Node : results'[n] # "waiting_approval"
  BY DEF Begin, Persist, Checkpoint, Kept, Waiting
<1>2. main = "none"
  BY DEF Inv, Alone
<1>. QED  BY <1>1, <1>2 DEF Standing, Has

(* Steps that keep all results.                                            *)
LEMMA StandingMove ==
    ASSUME Typed, Standing, pc # "off", UNCHANGED <<results, status, reason, done>>,
           disk' = disk \/ Persist,
           pc' = "settle" /\ after' \in {"waiting", "gate"} => Has("waiting_approval"),
           main' = "passed" => pc' = "compensate" /\ \A n \in Node : results[n] \notin Failed
    PROVE  Standing'
<1>1. done' = FALSE /\ (Has("waiting_approval")' <=> Has("waiting_approval"))
  BY DEF Typed, Course, Has
<1>2. disk'.status = status' /\ disk'.reason = reason' /\ disk'.done = FALSE
  BY <1>1 DEF Standing, Persist, Checkpoint
<1>. QED  BY <1>1, <1>2 DEF Standing

(* A node ends.                                                            *)
LEMMA StandingEnd ==
    ASSUME Inv, Typed, Standing, pc # "off", NEW n \in Node, results[n] = "none", NEW r,
           results' = [results EXCEPT ![n] = r], done' = done, Persist,
           status' = IF r = "waiting_approval" THEN "paused" ELSE status,
           reason' = IF r = "waiting_approval" THEN "approval" ELSE reason,
           pc' = "settle" /\ after' \in {"waiting", "gate"} =>
               r = "waiting_approval" \/ Has("waiting_approval"),
           main' = main, main = "passed" => r \notin Failed /\ pc' = pc
    PROVE  Standing'
<1>1. Has("waiting_approval")' <=> (r = "waiting_approval" \/ Has("waiting_approval"))
  BY DEF Has, Inv, Shapes
<1>2. disk'.status = status' /\ disk'.reason = reason' /\ disk'.done = FALSE
  BY DEF Persist, Checkpoint, Typed, Course
<1>3. main' = "passed" => pc' = "compensate" /\ \A m \in Node : results'[m] \notin Failed
  BY DEF Standing, Inv, Shapes
<1>. QED  BY <1>1, <1>2, <1>3 DEF Standing

LEMMA StandingJob ==
    ASSUME Typed, Standing, NEW n \in Node, JobStep(n)
    PROVE  Standing'
<1>1. /\ pc # "off" /\ pc # "compensate" /\ UNCHANGED <<pc, after, main, results, status, reason, done>>
      /\ disk' = disk \/ Persist
  BY DEF JobStep, Pass, Fail, ChildPauses, RetryLater, Retry, JobFrame, Awaiting, SettleAs,
     StartAttempt
<1>. QED  BY <1>1, StandingMove DEF Standing

LEMMA StandingNode ==
    ASSUME Undisturbed, Inv, Typed, Fit, Steady, Standing, NEW n \in Node, NodeStep(n)
    PROVE  Standing'
<1>1. CASE Exclude(n) \/ NotRequired(n) \/ (NextCompensation(n) /\ ~Effective(n))
  <2>1. /\ results' = [results EXCEPT ![n] = "skipped"] /\ Persist
        /\ pc' = pc /\ pc \in {"resolve", "compensate"}
        /\ UNCHANGED <<status, reason, done, after, main>>
    BY <1>1 DEF Exclude, NotRequired, NextCompensation, CompleteWithoutRun
  <2>2. results[n] = "none"
    BY <1>1 DEF Exclude, Resolvable, NotRequired, NextCompensation, Inv, Unsettled, Todo
  <2>3. "skipped" \notin Failed
    BY DEF Failed
  <2>. QED  BY <2>1, <2>2, <2>3, StandingEnd
<1>2. CASE (NextCompensation(n) /\ Effective(n)) \/ Ask(n) \/ Start(n)
  <2>1. pc # "off" /\ pc' # "settle" /\ main' = main /\ main # "passed"
    BY <1>2 DEF NextCompensation, Ask, Start, Undisturbed, Forward, Standing
  <2>2. UNCHANGED <<results, status, reason, done>> /\ (disk' = disk \/ Persist)
    BY <1>2 DEF NextCompensation, Ask, Start, SettleAs, StartAttempt
  <2>. QED  BY <2>1, <2>2, StandingMove
<1>3. CASE Record(n)
  <2>1. /\ results' = [results EXCEPT ![n] = job[n].result] /\ job[n].phase = "settled" /\ Persist
        /\ status' = IF job[n].result = "waiting_approval" THEN "paused" ELSE status
        /\ reason' = IF job[n].result = "waiting_approval" THEN "approval" ELSE reason
        /\ pc \in {"settle", "race", "drain"} /\ (pc' = pc \/ pc' \in {"control", "compensate"})
        /\ UNCHANGED <<done, after, main>>
    BY <1>3 DEF Record
  <2>2. results[n] = "none"
    BY <2>1 DEF Inv, Promised, InFlight
  <2>3. main # "passed"
    BY <2>1 DEF Standing
  <2>4. pc' = "settle" /\ after' \in {"waiting", "gate"} => Has("waiting_approval")
    BY <2>1 DEF Standing
  <2>. QED  BY <2>1, <2>2, <2>3, <2>4, StandingEnd
<1>4. ~(CancelNode(n) \/ CancelWaiting(n) \/ CancelPending(n) \/ StopSkip(n))
  BY DEF CancelNode, CancelWaiting, CancelPending, StopSkip, StopAfterFailure, Steady, Undisturbed
<1>. QED  BY <1>1, <1>2, <1>3, <1>4 DEF NodeStep

LEMMA StandingAnswer ==
    ASSUME Inv, Typed, Fit, Standing,
           GateWaits \/ \E result \in Results : Answer(result)
    PROVE  Standing'
<1>1. pc = "gate" /\ UNCHANGED <<done, main>> /\ Persist
  BY DEF GateWaits, CompleteWithoutRun, Answer, Fit
<1>2. asked \in Node /\ results[asked] = "none" /\ main # "passed"
  BY <1>1 DEF Inv, Shapes, Unsettled, Todo, Standing
<1>3. CASE GateWaits
  <2>1. /\ results' = [results EXCEPT ![asked] = "waiting_approval"]
        /\ status' = "paused" /\ reason' = "approval"
    BY <1>3 DEF GateWaits, CompleteWithoutRun
  <2>. QED  BY <1>1, <1>2, <2>1, StandingEnd
<1>4. ASSUME NEW result \in Results, Answer(result) PROVE Standing'
  <2>1. /\ results' = [results EXCEPT ![asked] = result] /\ result # "waiting_approval"
        /\ pc' = "resolve" /\ UNCHANGED <<status, reason>>
    BY <1>4 DEF Answer
  <2>. QED  BY <1>1, <1>2, <2>1, StandingEnd
<1>. QED  BY <1>3, <1>4

LEMMA StandingLoop ==
    ASSUME Inv, Typed, Fit, Steady, Standing,
           \/ Warn \/ LoopTop \/ CancelsDone \/ Resolved \/ AnswerThrows \/ SettledForControl
           \/ SettledForWaiting \/ SettledForGate \/ Launch \/ Finish
           \/ \E command \in Commands : Enqueue(command)
    PROVE  Standing'
<1>1. CASE Off
  BY <1>1, StandingOff
<1>2. CASE Warn \/ LoopTop \/ CancelsDone \/ Resolved \/ AnswerThrows \/ Launch \/ SettledForControl
           \/ \E command \in Commands : Enqueue(command)
  <2>1. \/ Off
        \/ /\ pc # "off" /\ UNCHANGED <<results, status, reason, done, main>>
           /\ disk' = disk \/ Persist
    BY <1>2 DEF Warn, LoopTop, ProcessControl, CancelsDone, Resolved, AnswerThrows, Launch,
       SettledForControl, Settled, Enqueue, Goto, Return
  <2>2. CASE ~Off
    <3>1. pc' = "settle" /\ after' \in {"waiting", "gate"} => Has("waiting_approval")
      <4>1. CASE Warn \/ LoopTop \/ Resolved \/ AnswerThrows \/ Launch
        BY <2>2, <4>1 DEF Warn, LoopTop, Resolved, AnswerThrows, Launch, Goto, Return
      <4>2. CASE CancelsDone \/ SettledForControl
        <5>1. ~aborted
          BY <4>2 DEF CancelsDone, SettledForControl, Settled, Steady
        <5>. QED  BY <2>2, <4>2, <5>1 DEF CancelsDone, SettledForControl, Route, Return
      <4>3. CASE \E command \in Commands : Enqueue(command)
        BY <4>3 DEF Enqueue, Standing
      <4>. QED  BY <1>2, <4>1, <4>2, <4>3
    <3>2. main = "passed" => pc' = pc
      BY <1>2 DEF Warn, LoopTop, CancelsDone, Resolved, AnswerThrows, Launch, SettledForControl,
         Settled, Enqueue, Standing
    <3>. QED  BY <2>1, <2>2, <3>1, <3>2, StandingMove DEF Standing
  <2>. QED  BY <1>1, <2>2
<1>3. CASE SettledForWaiting \/ SettledForGate
  <2>1. ~aborted
    BY <1>3 DEF SettledForWaiting, SettledForGate, Settled, Steady
  <2>. QED  BY <1>1, <1>3, <2>1 DEF SettledForWaiting, SettledForGate, Return
<1>4. CASE Finish
  <2>1. pc = "finish" /\ ~aborted /\ ~Has("waiting_approval")
    BY <1>4 DEF Finish, Steady, Fit, Past, NothingWaits, Has, Waiting
  <2>2. status = "running"
    BY <2>1 DEF Standing, Typed, Course
  <2>3. /\ UNCHANGED <<results, status, reason, done>> /\ (disk' = disk \/ Persist)
        /\ pc' = "compensate"
        /\ main' = "passed" => \A n \in Node : results[n] \notin Failed
    BY <1>4, <2>1, <2>2 DEF Finish
  <2>. QED  BY <2>1, <2>3, StandingMove
<1>. QED  BY <1>2, <1>3, <1>4

LEMMA StandingStep ==
    Undisturbed /\ Inv /\ Typed /\ Fit /\ Steady /\ Standing /\ [Next]_vars => Standing'
<1> SUFFICES ASSUME Undisturbed, Inv, Typed, Fit, Steady, Standing, [Next]_vars PROVE Standing'
  OBVIOUS
<1>1. CASE StartRun \/ RestartRun \/ \E roots : ResumeRun(roots)
  BY <1>1, StandingBegin DEF StartRun, RestartRun, ResumeRun
<1>2. CASE ReturnFinished \/ Drained \/ Crash
  BY <1>2, StandingOff DEF ReturnFinished, Return, Drained, Crash
<1>3. CASE Step
  <2>1. ~(SettledForAbort \/ SettledForWait \/ ReturnCancelled \/ WaitWaits)
    BY DEF SettledForAbort, SettledForWait, Settled, ReturnCancelled, WaitWaits, Steady, Fit
  <2>. QED  BY <1>2, <1>3, <2>1, StandingNode, StandingAnswer, StandingLoop DEF Step
<1>4. ASSUME NEW n \in Node, JobStep(n) PROVE Standing'
  BY <1>4, StandingJob
<1>5. ~Abort
  BY DEF Abort, Undisturbed
<1>6. CASE Aside
  BY <1>6, AsideKeeps DEF Standing, Has
<1>. QED  BY <1>1, <1>2, <1>3, <1>4, <1>5, <1>6, StandingLoop DEF Next, Aside

-----------------------------------------------------------------------------
(* What the parts say of a checkpoint: it loads.                           *)
LEMMA LoadsWhen ==
    ASSUME NEW c, Grounded(c.results, c.active),
           \A n \in Node : c.results[n] # "waiting_signal",
           ReasonMatches(c), TerminalIsComplete(c), OnlyRunningHasAttempts(c)
    PROVE  Loadable(c)
<1>1. OneRecordPerNode(c) /\ RetryCanFollow(c)
  BY DEF Grounded, Within, OneRecordPerNode, RetryCanFollow
<1>2. DependenciesFirst(c)
  BY DEF Grounded, Undone, DependenciesFirst
<1>. QED  BY <1>1, <1>2 DEF Loadable

(* The checkpoint of an owner.                                             *)
LEMMA OwnedLoads ==
    ASSUME Inv, Typed, Fit, OnDisk, Ground, Standing, pc # "off",
           status = "running" \/ \A n \in Node : active[n].phase = "none"
    PROVE  Loadable(disk)
<1>1. /\ disk.results = results /\ disk.active = active
      /\ disk.status = status /\ disk.reason = reason /\ disk.done = FALSE
  BY DEF Inv, Mirrored, Standing
<1>2. Grounded(disk.results, disk.active)
  BY <1>1, GroundInMemory
<1>3. \A n \in Node : disk.results[n] # "waiting_signal"
  BY <1>1 DEF Fit
<1>4. status \in {"running", "paused"} /\ reason \in {"none", "approval"}
  BY DEF Typed, Course
<1>5. ReasonMatches(disk)
  BY <1>1, <1>3, <1>4 DEF Standing, Has, ReasonMatches
<1>6. TerminalIsComplete(disk)
  <2>1. (disk.status \in {"passed", "failed", "cancelled"}) = FALSE
    BY <1>1, <1>4
  <2>. QED  BY <1>1, <2>1 DEF TerminalIsComplete
<1>7. OnlyRunningHasAttempts(disk)
  BY <1>1 DEF OnlyRunningHasAttempts
<1>. QED  BY <1>2, <1>3, <1>5, <1>6, <1>7, LoadsWhen

(* The last checkpoint of a run that pauses.                               *)
LEMMA PausedLoads ==
    ASSUME Inv, Typed, Fit, OnDisk, Ground, Standing, pc # "off",
           NEW why \in {"approval", "control"}, Return("paused", why),
           why = "approval" <=> Has("waiting_approval"),
           \A n \in Node : active[n].phase = "none"
    PROVE  Loadable(disk')
<1>1. /\ disk'.results = results /\ disk'.active = active
      /\ disk'.status = "paused" /\ disk'.reason = why /\ disk'.done = FALSE
  BY DEF Return, Checkpoint
<1>2. Grounded(disk'.results, disk'.active)
  BY <1>1, GroundInMemory
<1>3. \A n \in Node : disk'.results[n] # "waiting_signal"
  BY <1>1 DEF Fit
<1>5. ReasonMatches(disk')
  BY <1>1, <1>3 DEF Has, ReasonMatches
<1>6. TerminalIsComplete(disk')
  <2>1. (disk'.status \in {"passed", "failed", "cancelled"}) = FALSE
    BY <1>1
  <2>. QED  BY <1>1, <2>1 DEF TerminalIsComplete
<1>7. OnlyRunningHasAttempts(disk')
  BY <1>1 DEF OnlyRunningHasAttempts
<1>. QED  BY <1>2, <1>3, <1>5, <1>6, <1>7, LoadsWhen

(* The last checkpoint of a run that comes to its end.                     *)
LEMMA FinishedLoads ==
    ASSUME Inv, Typed, Turns, Fit, OnDisk, Ground, Standing, ReturnFinished
    PROVE  Loadable(disk')
<1>0. pc = "compensate" /\ compensationPending = {} /\ Return(main, "none") /\ main # "none"
  BY DEF ReturnFinished, Typed, Course
<1>1. /\ disk'.results = results /\ disk'.active = active /\ main \in {"passed", "failed"}
      /\ disk'.status = main /\ disk'.reason = "none" /\ disk'.done = TRUE
  BY <1>0 DEF Return, Checkpoint, Typed, Course
<1>2. Grounded(disk'.results, disk'.active)
  BY <1>0, <1>1, GroundInMemory
<1>3. \A n \in Node : disk'.results[n] \notin Waiting
  BY <1>0, <1>1 DEF Fit, Past, NothingWaits
<1>4. \A n \in Node : results[n] # "none"
  BY <1>0 DEF Turns, Covered, Rollback, Todo, Inv, Alone, Unsettled
<1>5. ReasonMatches(disk')
  BY <1>1, <1>3 DEF ReasonMatches, Waiting
<1>6. TerminalIsComplete(disk')
  BY <1>1, <1>4 DEF TerminalIsComplete, Standing
<1>7. OnlyRunningHasAttempts(disk')
  BY <1>1, <1>2, <1>4 DEF OnlyRunningHasAttempts, Grounded
<1>8. \A n \in Node : disk'.results[n] # "waiting_signal"
  BY <1>3 DEF Waiting
<1>. QED  BY <1>2, <1>5, <1>6, <1>7, <1>8, LoadsWhen

(* Where nothing pauses, a Graph that nobody owns has a checkpoint that    *)
(* loads, be it that its run ended or that its process died.               *)
Resting == pc = "off" /\ disk # NoCheckpoint => Loadable(disk)

LEMMA RestingStep ==
    /\ Undisturbed /\ Unattended
    /\ Inv /\ Typed /\ Turns /\ Fit /\ OnDisk /\ Quiet /\ Steady /\ Ground /\ Standing
    /\ Resting /\ [Next]_vars
    => Resting'
<1> SUFFICES ASSUME Undisturbed, Unattended, Inv, Typed, Turns, Fit, OnDisk, Quiet, Steady, Ground,
                    Standing, Resting, [Next]_vars, pc' = "off"
             PROVE  disk' # NoCheckpoint => Loadable(disk')
  BY DEF Resting
<1>1. CASE pc # "off" /\ Crash
  <2>1. disk' = disk
    BY <1>1 DEF Crash
  <2>2. status = "running"
    BY DEF Quiet, Ordinary, Standing, Has, Typed, Course
  <2>. QED  BY <1>1, <2>1, <2>2, OwnedLoads
<1>2. CASE pc # "off" /\ ReturnFinished
  BY <1>2, FinishedLoads
<1>3. CASE pc = "off"
  <2>1. UNCHANGED vars
    BY <1>3, OnlyBegins DEF StartRun, RestartRun, ResumeRun, Begin
  <2>. QED  BY <1>3, <2>1 DEF Resting, vars
<1>4. CASE pc # "off" /\ ~Crash /\ ~ReturnFinished
  <2>0. Next
    BY <1>4 DEF vars
  <2>1. ASSUME NEW n \in Node, NodeStep(n) \/ JobStep(n) \/ ChildSaves(n) PROVE FALSE
    BY <1>4, <2>1 DEF NodeStep, JobStep, ChildSaves, CancelNode, Record, CancelWaiting, CancelPending, StopSkip,
       Exclude, Ask, Start, NextCompensation, NotRequired, Pass, Fail, ChildPauses, RetryLater,
       Retry, JobFrame
  <2>2. ~(\/ SettledForControl \/ SettledForAbort \/ SettledForWaiting \/ SettledForGate
          \/ SettledForWait \/ ReturnCancelled \/ GateWaits \/ WaitWaits \/ AnswerThrows
          \/ Drained \/ Abort \/ \E result \in Results : Answer(result))
    BY DEF SettledForControl, SettledForAbort, SettledForWaiting, SettledForGate, SettledForWait,
       Settled, ReturnCancelled, GateWaits, WaitWaits, AnswerThrows, Drained, Abort, Answer, Quiet,
       Unattended
  <2>3. ~(\/ Warn \/ LoopTop \/ CancelsDone \/ Resolved
          \/ \E command \in Commands : Enqueue(command))
    BY <1>4 DEF Warn, LoopTop, CancelsDone, Route, Resolved, Goto, Enqueue
  <2>4. ~(Launch \/ Finish)
    <3>1. ~aborted /\ pausedNodes = {}
      BY DEF Quiet
    <3>. QED  BY <3>1 DEF Launch, Finish, Goto
  <2>. QED  BY <1>4, <2>0, <2>1, <2>2, <2>3, <2>4 DEF Next, Step, StartRun, RestartRun, ResumeRun
<1>. QED  BY <1>1, <1>2, <1>3, <1>4

(* Where the nodes of a Graph always end after what they depend on and     *)
(* nothing pauses a run, a crash at any time, and any number of crashes,   *)
(* leave a checkpoint that can be resumed.                                 *)
THEOREM CrashesAreRecoverable ==
    ASSUME Undisturbed, Unattended
    PROVE  Spec => []Recoverable
<1>1. Forward
  BY DEF Undisturbed
<1>2. Init => Resting
  BY DEF Init, Resting
<1>3. Inv /\ Typed /\ Fit /\ OnDisk /\ Quiet /\ Ground /\ Standing /\ Resting => Recoverable
  <2> SUFFICES ASSUME Inv, Typed, Fit, OnDisk, Quiet, Ground, Standing, Resting, pc # "off"
               PROVE  Loadable(disk)
    BY DEF Resting, Recoverable
  <2>1. status = "running"
    BY DEF Quiet, Ordinary, Standing, Has, Typed, Course
  <2>. QED  BY <2>1, OwnedLoads
<1>. QED  BY <1>1, <1>2, <1>3, RestingStep, QuietInit, QuietStep, FitInit, FitStep, SteadyInit,
     SteadyStep, GroundInit, GroundStep, StandingInit, StandingStep, OnDiskHolds, Invariance,
     TurnsHold, TypesHold, PTL DEF Spec

-----------------------------------------------------------------------------
(* Until a process dies, what is in the journal is under way.              *)
Unbroken ==
    crashes = 0 => \A n \in Node :
        /\ job[n].phase = "none" => active[n].phase = "none"
        /\ pc = "off" /\ disk # NoCheckpoint => disk.active[n].phase = "none"

LEMMA UnbrokenInit == Init => Unbroken
BY DEF Init, Unbroken, NoAttempts, NoAttempt

LEMMA UnbrokenMove ==
    ASSUME Unbroken, pc' # "off", crashes' = crashes,
           \A n \in Node : job'[n].phase = "none" =>
              active'[n].phase = "none" \/ (job[n].phase = "none" /\ active'[n] = active[n])
    PROVE  Unbroken'
BY DEF Unbroken

LEMMA UnbrokenOff ==
    ASSUME Unbroken, InFlight = {}, Off, crashes' = crashes, disk'.active = active
    PROVE  Unbroken'
BY DEF Unbroken, Off, InFlight, NoAttempts, NoAttempt

LEMMA UnbrokenReturn ==
    ASSUME Unbroken, InFlight = {}, NEW st, NEW why, Return(st, why)
    PROVE  Unbroken'
BY UnbrokenOff DEF Return, Checkpoint

LEMMA UnbrokenNode ==
    ASSUME Inv, Unbroken, NEW n \in Node, NodeStep(n) \/ JobStep(n)
    PROVE  Unbroken'
<1>1. pc' # "off" /\ crashes' = crashes
  BY DEF NodeStep, JobStep, CancelNode, Record, CancelWaiting, CancelPending, StopSkip,
     Exclude, Ask, Start, NextCompensation, NotRequired, Pass, Fail, ChildPauses, RetryLater,
     Retry, JobFrame, Awaiting
<1>2. CASE JobStep(n) \/ Start(n)
  <2>1. /\ job'[n].phase # "none"
        /\ \A m \in Node \ {n} : job'[m] = job[m] /\ active'[m] = active[m]
    <3>1. CASE \E r : SettleAs(n, r)
      BY <3>1 DEF SettleAs, SettledJob, Inv, Shapes
    <3>2. CASE \E a, k : StartAttempt(n, a, k)
      BY <3>2 DEF StartAttempt, Job, Inv, Shapes
    <3>3. CASE RetryLater(n)
      BY <3>3 DEF RetryLater, Job, Inv, Shapes
    <3>4. CASE Start(n) /\ recovered[n].phase = "waiting_retry"
      BY <3>4 DEF Start, Job, Inv, Shapes
    <3>. QED  BY <1>2, <3>1, <3>2, <3>3, <3>4 DEF JobStep, Pass, Fail, ChildPauses, Retry, Start
  <2>. QED  BY <1>1, <2>1, UnbrokenMove
<1>3. CASE NodeStep(n) /\ ~Start(n)
  <2>1. /\ active' = active \/ active' = [active EXCEPT ![n] = NoAttempt]
        /\ job' = job \/ (job' = [job EXCEPT ![n] = NoJob] /\ active' = [active EXCEPT ![n] = NoAttempt])
    BY <1>3 DEF NodeStep, CancelNode, Record, CancelWaiting, CancelPending, StopSkip,
       Exclude, Ask, NextCompensation, NotRequired, CompleteWithoutRun
  <2>. QED  BY <1>1, <2>1, UnbrokenMove DEF NoAttempt, Inv, Shapes
<1>. QED  BY <1>2, <1>3

LEMMA UnbrokenStep ==
    Inv /\ Typed /\ OnDisk /\ Unbroken /\ [Next]_vars => Unbroken'
<1> SUFFICES ASSUME Inv, Typed, OnDisk, Unbroken, [Next]_vars PROVE Unbroken'
  OBVIOUS
<1>1. CASE StartRun \/ RestartRun \/ \E roots : ResumeRun(roots)
  <2>1. /\ pc = "off" /\ pc' = "warn" /\ UNCHANGED <<job, crashes>>
        /\ \/ active' = NoAttempts
           \/ active' = disk.active /\ disk # NoCheckpoint
    BY <1>1 DEF StartRun, RestartRun, ResumeRun, Begin
  <2>. QED  BY <2>1 DEF Unbroken, NoAttempts, NoAttempt
<1>2. CASE Crash
  <2>1. crashes' = crashes + 1 /\ crashes \in Nat
    BY <1>2, BoundAssumption DEF Crash, Typed, Orders
  <2>2. crashes' # 0
    BY <2>1
  <2>. QED  BY <2>2 DEF Unbroken
<1>3. CASE Warn
  <2>1. /\ pc' # "off" /\ UNCHANGED <<job, crashes>>
        /\ \A n \in Node : active'[n] = active[n] \/ active'[n].phase = "none"
    BY <1>3 DEF Warn, NoAttempt
  <2>. QED  BY <2>1, UnbrokenMove
<1>4. ASSUME pc' # "off", UNCHANGED <<job, active, crashes>> PROVE Unbroken'
  BY <1>4, UnbrokenMove
<1>5. CASE LoopTop \/ CancelsDone \/ SettledForAbort \/ Resolved \/ WaitWaits \/ AnswerThrows
           \/ Abort \/ (\E result \in Results : Answer(result))
           \/ \E command \in Commands : Enqueue(command)
  BY <1>4, <1>5 DEF LoopTop, ProcessControl, CancelsDone, Route, SettledForAbort, Resolved, WaitWaits,
     AnswerThrows, Abort, Answer, Enqueue, Goto
<1>6. CASE GateWaits
  <2>1. /\ pc' # "off" /\ UNCHANGED <<job, crashes>> /\ active' = [active EXCEPT ![asked] = NoAttempt]
    BY <1>6 DEF GateWaits, CompleteWithoutRun
  <2>. QED  BY <2>1, UnbrokenMove DEF NoAttempt, Inv, Shapes
<1>7. CASE SettledForControl \/ SettledForWaiting \/ SettledForGate \/ ReturnCancelled \/ Launch
           \/ Finish \/ ReturnFinished
  <2>1. \/ InFlight = {} /\ \E st, why : Return(st, why)
        \/ pc' # "off" /\ UNCHANGED <<job, active, crashes>>
    BY <1>7 DEF SettledForControl, SettledForWaiting, SettledForGate, Settled, ReturnCancelled,
       Launch, Finish, ReturnFinished, Goto, ProcessControl, Route, Inv, Alone
  <2>. QED  BY <1>4, <2>1, UnbrokenReturn
<1>8. CASE SettledForWait
  <2>1. CASE Goto("cancelWaiting")
    BY <1>4, <2>1 DEF Goto
  <2>2. CASE Off /\ disk'.active = active /\ crashes' = crashes
    BY <1>8, <2>2, UnbrokenOff DEF SettledForWait, Settled
  <2>3. CASE /\ active' = [active EXCEPT ![asked] = NoAttempt] /\ pc' = "resolve"
             /\ UNCHANGED <<job, crashes>>
    BY <2>3, UnbrokenMove DEF NoAttempt, Inv, Shapes
  <2>. QED  BY <1>8, <2>1, <2>2, <2>3 DEF SettledForWait, CompleteWithoutRun, Checkpoint
<1>9. CASE Drained
  <2>1. Off /\ InFlight = {} /\ crashes' = crashes /\ disk'.active = active
    BY <1>9 DEF Drained, Inv, Mirrored
  <2>. QED  BY <2>1, UnbrokenOff
<1>10. CASE Aside
  BY <1>10, AsideKeeps DEF Unbroken
<1>. QED  BY <1>1, <1>2, <1>3, <1>5, <1>6, <1>7, <1>8, <1>9, <1>10, UnbrokenNode
          DEF Next, Step, Aside

(* No process dies, or no attempt is made again.                           *)
Calm == MaxCrashes = 0 \/ \A n \in Node : MaxRetries[n] = 0

(* When nothing is in flight there, nothing is in the journal.             *)
LEMMA NothingLeft ==
    ASSUME Calm, Inv, Typed, OnDisk, Ground, Unbroken, InFlight = {}, pc \notin {"off", "warn"}
    PROVE  \A n \in Node : active[n].phase = "none"
<1>1. CASE MaxCrashes = 0
  <2>1. crashes = 0
    BY <1>1 DEF Typed, Orders
  <2>. QED  BY <2>1 DEF Unbroken, InFlight
<1>2. CASE \A n \in Node : MaxRetries[n] = 0
  <2> SUFFICES ASSUME NEW n \in Node PROVE active[n].phase = "none"
    OBVIOUS
  <2>1. active[n].phase # "running"
    BY NothingRuns
  <2>2. Within(active[n], n) /\ active[n] \in Attempts /\ active[n].attempt \in Nat
    BY GroundInMemory DEF Grounded, Typed, Data, Attempts
  <2>3. active[n].phase # "waiting_retry"
    BY <1>2, <2>2 DEF Within
  <2>. QED  BY <2>1, <2>2, <2>3 DEF Attempts
<1>. QED  BY <1>1, <1>2 DEF Calm

(* Every run that ends by itself ends in one of these ways.                *)
LEMMA ReturnsLoad ==
    ASSUME Undisturbed, Calm, Inv, Typed, Turns, Fit, OnDisk, Steady, Ground, Standing, Unbroken,
           Next, ~Crash, pc # "off", pc' = "off"
    PROVE  Loadable(disk')
<1>1. ~(SettledForAbort \/ SettledForWait \/ ReturnCancelled \/ WaitWaits \/ Abort)
  BY DEF SettledForAbort, SettledForWait, Settled, ReturnCancelled, WaitWaits, Abort, Steady, Fit,
     Undisturbed
<1>2. ASSUME NEW n \in Node, NodeStep(n) \/ JobStep(n) \/ ChildSaves(n) PROVE FALSE
  BY <1>2 DEF NodeStep, JobStep, ChildSaves, CancelNode, Record, CancelWaiting, CancelPending, StopSkip,
     Exclude, Ask, Start, NextCompensation, NotRequired, Pass, Fail, ChildPauses, RetryLater,
     Retry, JobFrame
<1>3. ~(\/ Warn \/ LoopTop \/ CancelsDone \/ Resolved \/ GateWaits \/ AnswerThrows
        \/ (\E result \in Results : Answer(result)) \/ \E command \in Commands : Enqueue(command))
  BY DEF Warn, LoopTop, CancelsDone, Route, Resolved, GateWaits, AnswerThrows, Answer, Goto, Enqueue
<1>4. CASE Drained
  <2>1. InFlight = {} /\ pc = "drain" /\ disk' = disk
    BY <1>4 DEF Drained
  <2>2. \A n \in Node : active[n].phase = "none"
    BY <2>1, NothingLeft
  <2>. QED  BY <2>1, <2>2, OwnedLoads
<1>5. CASE SettledForControl \/ SettledForWaiting \/ SettledForGate \/ Launch \/ Finish
  <2>1. InFlight = {} /\ pc \notin {"off", "warn"}
    BY <1>5 DEF SettledForControl, SettledForWaiting, SettledForGate, Settled, Launch, Finish,
       Goto, Inv, Alone
  <2>2. aborted => pc = "drain"
    BY DEF Steady
  <2>3. \E why \in {"approval", "control"} :
           Return("paused", why) /\ (why = "approval" <=> Has("waiting_approval"))
    <3>1. CASE SettledForControl
      BY <3>1 DEF SettledForControl, Route
    <3>2. CASE SettledForWaiting
      BY <2>2, <3>2 DEF SettledForWaiting, Settled, Standing, Goto
    <3>3. CASE SettledForGate
      BY <2>2, <3>3 DEF SettledForGate, Settled, Standing, Goto
    <3>4. CASE Launch
      BY <3>4 DEF Launch, Goto, Fit, Past, NothingWaits, Waiting, Has
    <3>5. CASE Finish
      BY <2>2, <3>5 DEF Finish
    <3>. QED  BY <1>5, <3>1, <3>2, <3>3, <3>4, <3>5
  <2>4. \A n \in Node : active[n].phase = "none"
    BY <2>1, NothingLeft
  <2>. QED  BY <2>3, <2>4, PausedLoads
<1>. QED  BY <1>1, <1>2, <1>3, <1>4, <1>5, FinishedLoads DEF Next, Step, StartRun, RestartRun, ResumeRun

(* Where the nodes of a Graph always end after what they depend on, and no *)
(* process dies or no attempt is made again, a run that returns, or        *)
(* throws, leaves a checkpoint that loads: whatever pauses it,             *)
(* and however the answer to a gate fails.                                 *)
THEOREM ReturnsAreLoadable ==
    ASSUME Undisturbed, Calm
    PROVE  Spec => ReturnsLoadable
<1>1. Forward
  BY DEF Undisturbed
<1>2. Inv /\ Typed /\ Turns /\ Fit /\ OnDisk /\ Steady /\ Ground /\ Standing /\ Unbroken /\ [Next]_vars
      => [pc # "off" /\ pc' = "off" /\ crashes' = crashes => Loadable(disk')]_vars
  <2> SUFFICES ASSUME Inv, Typed, Turns, Fit, OnDisk, Steady, Ground, Standing, Unbroken, Next,
                      pc # "off", pc' = "off", crashes' = crashes
               PROVE  Loadable(disk')
    OBVIOUS
  <2>1. crashes \in Nat
    BY BoundAssumption DEF Typed, Orders
  <2>2. ~Crash
    BY <2>1 DEF Crash
  <2>. QED  BY <2>2, ReturnsLoad
<1>. QED  BY <1>1, <1>2, FitInit, FitStep, SteadyInit, SteadyStep, GroundInit, GroundStep,
     StandingInit, StandingStep, UnbrokenInit, UnbrokenStep, OnDiskHolds, Invariance,
     TurnsHold, TypesHold, PTL DEF Spec, ReturnsLoadable
=============================================================================
