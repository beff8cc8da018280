--------------------------- MODULE DispatchProofs ---------------------------
(***************************************************************************)
(* Proofs about Dispatch, for any number of dispatches, runs and calls.    *)
(***************************************************************************)
EXTENDS Dispatch, TLAPS

-----------------------------------------------------------------------------
(* The types, and what a position says of the record.                       *)

(* A live execution's record is running or cancelled, one that is cancelled *)
(* before its execution began never queues, and no record is ahead of the   *)
(* runs there were.                                                         *)
Recorded ==
    \A c \in Call :
        /\ Live(c) => status[c] \in {"running", "cancelled"}
        /\ status[c] = "running" => Live(c)
        /\ from[c] <= generation

Shaped == TypeOK /\ Recorded

LEMMA ShapedInitially == Init => Shaped
  <1> SUFFICES ASSUME Init PROVE Shaped
    OBVIOUS
  <1>1. TypeOK
    BY DEF Init, TypeOK, Statuses, Positions, Phases
  <1>2. Recorded
    BY DEF Init, Recorded, Live
  <1> QED BY <1>1, <1>2 DEF Shaped

(* The lock's operations keep types.                                        *)
LEMMA LockTyped ==
    ASSUME TypeOK, NEW c \in Call, Queue(c) \/ Release(c) \/ UNCHANGED lock
    PROVE  /\ tail' \in Call \cup {NoCall}
           /\ ahead' \in [Call -> SUBSET Call]
           /\ forgotten' \in BOOLEAN
  <1>1. CASE Queue(c)
    BY <1>1 DEF Queue, Free, TypeOK
  <1>2. CASE Release(c)
    BY <1>2 DEF Release, TypeOK
  <1>3. CASE UNCHANGED lock
    BY <1>3 DEF lock, TypeOK
  <1> QED BY <1>1, <1>2, <1>3

(* A step of an execution before it settles.                                *)
LEMMA WorkShape ==
    ASSUME TypeOK, NEW c \in Call, Work(c)
    PROVE  /\ at[c] \in Positions \ {"off"}
           /\ \E position \in Positions \ {"off"} : Move(c, position)
           /\ Queue(c) \/ Release(c) \/ UNCHANGED lock
  <1>1. CASE Enter(c)
    BY <1>1 DEF Enter, Positions
  <1>2. CASE Granted(c)
    BY <1>2 DEF Granted, Positions
  <1>3. CASE GiveUp(c)
    BY <1>3 DEF GiveUp, Positions
  <1>4. CASE Finish(c)
    BY <1>4 DEF Finish, Positions
  <1>5. CASE Review(c)
    BY <1>5 DEF Review, Positions
  <1>6. CASE Applied(c)
    BY <1>6 DEF Applied, Positions
  <1> QED BY <1>1, <1>2, <1>3, <1>4, <1>5, <1>6 DEF Work

LEMMA ShapedKept == Shaped /\ [Next]_vars => Shaped'
  <1> SUFFICES ASSUME Shaped, [Next]_vars PROVE Shaped'
    OBVIOUS
  <1> USE DEF Shaped
  <1>1. CASE UNCHANGED vars
    BY <1>1 DEF vars, run, told, record, prompts, lock, TypeOK, Recorded, Live
  <1>2. ASSUME NEW blocked \in BOOLEAN, Begin(blocked) PROVE Shaped'
    <2>1. generation' = generation + 1 /\ generation \in Nat
      BY <1>2 DEF Begin, TypeOK
    <2>2. TypeOK'
      <3>1. delivered' \in [Call -> BOOLEAN] /\ earlier' \subseteq Call
        BY <1>2 DEF Begin, Undelivered
      <3>2. phase' \in Phases /\ stopped' \in BOOLEAN
        BY <1>2 DEF Begin, Phases
      <3> QED BY <1>2, <2>1, <3>1, <3>2 DEF Begin, record, prompts, lock, TypeOK
    <2>3. Recorded'
      BY <1>2, <2>1 DEF Begin, record, TypeOK, Recorded, Live
    <2> QED BY <2>2, <2>3
  <1>13. CASE Open
    BY <1>13 DEF Open, Emit, record, prompts, lock, TypeOK, Recorded, Live, Phases
  <1>14. CASE OpenFails
    BY <1>14 DEF OpenFails, record, prompts, lock, TypeOK, Recorded, Live, Phases
  <1>3. CASE Turn
    BY <1>3 DEF Turn, Deliver, Emit, run, record, prompts, lock, TypeOK, Recorded, Live
  <1>4. CASE Abort \/ EndRun
    BY <1>4 DEF Abort, EndRun, CancelRecords, told, prompts, lock, TypeOK, Recorded, Live,
       Statuses, Phases
  <1>5. CASE FinishRun
    BY <1>5 DEF FinishRun, Emit, record, prompts, lock, TypeOK, Recorded, Live, Phases
  <1>6. CASE Dispose
    BY <1>6 DEF Dispose, CancelRecords, told, prompts, lock, TypeOK, Recorded, Live,
       Statuses, Phases
  <1>7. ASSUME NEW c \in Call, AgentResult(c) PROVE Shaped'
    BY <1>7 DEF AgentResult, run, record, prompts, lock, TypeOK, Recorded, Live
  <1>8. ASSUME NEW c \in Call, Cancel(c) PROVE Shaped'
    BY <1>8 DEF Cancel, CancelRecords, run, told, prompts, lock, TypeOK, Recorded, Live, Statuses
  <1>9. ASSUME NEW c \in Call, Start(c) \/ Resume(c) \/ UNCHANGED <<record, told, at>>,
               UNCHANGED <<run, lock>>, asks' \in [Call -> Nat], calls' \in Nat
        PROVE  Shaped'
    <2>1. ASSUME NEW behind \in BOOLEAN, Execute(c, behind) PROVE Shaped'
      BY <1>9, <2>1 DEF Execute, Move, run, lock, TypeOK, Recorded, Live, Statuses, Positions
    <2>2. CASE UNCHANGED <<record, told, at>>
      BY <1>9, <2>2 DEF record, told, run, lock, TypeOK, Recorded, Live
    <2> QED BY <1>9, <2>1, <2>2 DEF Start, Resume
  <1>10. ASSUME NEW c \in Call, CallAgent(c) PROVE Shaped'
    <2>1. asks' \in [Call -> Nat] /\ calls' \in Nat
      BY <1>10 DEF CallAgent, TypeOK
    <2> QED BY <1>9, <1>10, <2>1 DEF CallAgent
  <1>11. ASSUME NEW c \in Call, Answer(c) PROVE Shaped'
    <2>1. asks' \in [Call -> Nat] /\ calls' \in Nat
      BY <1>11 DEF Answer, TypeOK
    <2> QED BY <1>9, <1>11, <2>1 DEF Answer
  <1>12. ASSUME NEW c \in Call, DispatchStep(c) PROVE Shaped'
    <2>1. CASE Work(c) /\ UNCHANGED <<record, told>>
      <3>1. tail' \in Call \cup {NoCall} /\ ahead' \in [Call -> SUBSET Call] /\ forgotten' \in BOOLEAN
        BY <2>1, WorkShape, LockTyped
      <3>2. PICK position \in Positions \ {"off"} : Move(c, position)
        BY <2>1, WorkShape
      <3>3. at[c] # "off"
        BY <2>1, WorkShape
      <3> QED BY <1>12, <2>1, <3>1, <3>2, <3>3
            DEF DispatchStep, Move, record, told, run, prompts, TypeOK, Recorded, Live
    <2>2. CASE Settle(c)
      BY <1>12, <2>2 DEF DispatchStep, Settle, Settled, Aborted, Emit, Move, run, prompts, lock,
         TypeOK, Recorded, Live, Statuses, Positions
    <2> QED BY <1>12, <2>1, <2>2 DEF DispatchStep
  <1> QED BY <1>1, <1>2, <1>3, <1>4, <1>5, <1>6, <1>7, <1>8, <1>10, <1>11, <1>12, <1>13, <1>14 DEF Next

(* The variables have their types, in every state.                          *)
THEOREM TypeCorrect == Spec => []TypeOK
  <1>1. Shaped => TypeOK
    BY DEF Shaped
  <1> QED BY ShapedInitially, ShapedKept, <1>1, PTL DEF Spec

-----------------------------------------------------------------------------
(* The edit lock.                                                           *)

Writes(c) == at[c] = "applying" \/ (Mode[c] = "edit" /\ at[c] = "running")
InQueue(c) == Writes(c) \/ at[c] = "waiting"

(* Only who waits is behind others, and these are in the queue and behind   *)
(* fewer; the entry is somebody in the queue.                               *)
Chain ==
    /\ \A c \in Call : at[c] # "waiting" => ahead[c] = {}
    /\ \A c \in Call : \A d \in ahead[c] : InQueue(d) /\ ahead[d] \subseteq ahead[c] \ {d}
    /\ tail # NoCall => InQueue(tail)

(* The queue is in order, and the entry its last.                           *)
Ordered ==
    /\ tail = NoCall => \A c \in Call : ~InQueue(c)
    /\ tail # NoCall => \A c \in Call \ {tail} : InQueue(c) => c \in ahead[tail]
    /\ \A c, d \in Call : InQueue(c) /\ InQueue(d) /\ c # d => c \in ahead[d] \/ d \in ahead[c]

LockInv == Chain /\ (~forgotten => Ordered)

LEMMA LockInitially == Init => LockInv
  BY DEF Init, LockInv, Chain, Ordered, InQueue, Writes

(* Somebody comes and is the last.                                          *)
LEMMA Joins ==
    ASSUME TypeOK, LockInv, NEW c \in Call, ~InQueue(c), Queue(c),
           \A d \in Call \ {c} : at'[d] = at[d],
           InQueue(c)', at'[c] # "waiting" => Free
    PROVE  LockInv'
  <1>1. \A d \in Call \ {c} : ahead'[d] = ahead[d] /\ (InQueue(d)' <=> InQueue(d))
    BY DEF Queue, TypeOK, InQueue, Writes
  <1>2. \A d \in Call : c \notin ahead[d]
    BY DEF LockInv, Chain
  <1>3. tail' = c /\ c # NoCall
    BY NoCallAssumption DEF Queue
  <1>4. CASE Free
    <2>1. ahead'[c] = {}
      BY <1>4 DEF Queue, TypeOK
    <2>2. Chain'
      <3>1. \A d \in Call : at'[d] # "waiting" => ahead'[d] = {}
        BY <1>1, <2>1 DEF LockInv, Chain
      <3>2. ASSUME NEW d \in Call, NEW e \in ahead'[d]
            PROVE  InQueue(e)' /\ ahead'[e] \subseteq ahead'[d] \ {e}
        <4>1. d # c /\ e \in ahead[d] /\ e # c /\ e \in Call
          BY <1>1, <1>2, <2>1, <3>2 DEF TypeOK
        <4>2. InQueue(e) /\ ahead[e] \subseteq ahead[d] \ {e}
          BY <4>1 DEF LockInv, Chain
        <4> QED BY <1>1, <4>1, <4>2
      <3> QED BY <1>3, <3>1, <3>2 DEF Chain
    <2>3. ~forgotten' => Ordered'
      <3> SUFFICES ASSUME ~forgotten' PROVE Ordered'
        OBVIOUS
      <3>1. \A d \in Call : ~InQueue(d)
        BY <1>4 DEF Queue, LockInv, Ordered, Free
      <3> QED BY <1>1, <1>3, <3>1 DEF Ordered
    <2> QED BY <2>2, <2>3 DEF LockInv
  <1>5. CASE ~Free
    <2>1. tail \in Call /\ tail # c /\ InQueue(tail)
      BY <1>5 DEF Free, TypeOK, LockInv, Chain
    <2>2. ahead'[c] = ahead[tail] \cup {tail}
      BY <1>5 DEF Queue, TypeOK
    <2>3. at'[c] = "waiting"
      BY <1>5
    <2>4. tail \notin ahead[tail]
      BY <2>1 DEF LockInv, Chain
    <2>5. Chain'
      <3>1. \A d \in Call : at'[d] # "waiting" => ahead'[d] = {}
        BY <1>1, <2>3 DEF LockInv, Chain
      <3>2. ASSUME NEW d \in Call, NEW e \in ahead'[d]
            PROVE  InQueue(e)' /\ ahead'[e] \subseteq ahead'[d] \ {e}
        <4>1. CASE d = c /\ e = tail
          BY <1>1, <2>1, <2>2, <2>4, <4>1
        <4>2. CASE d = c /\ e \in ahead[tail]
          <5>1. e \in Call /\ e # c
            BY <1>2, <2>1, <4>2 DEF TypeOK
          <5>2. InQueue(e) /\ ahead[e] \subseteq ahead[tail] \ {e}
            BY <2>1, <4>2 DEF LockInv, Chain
          <5> QED BY <1>1, <2>2, <4>2, <5>1, <5>2
        <4>3. CASE d # c
          <5>1. e \in ahead[d] /\ e # c /\ e \in Call
            BY <1>1, <1>2, <3>2, <4>3 DEF TypeOK
          <5>2. InQueue(e) /\ ahead[e] \subseteq ahead[d] \ {e}
            BY <5>1 DEF LockInv, Chain
          <5> QED BY <1>1, <4>3, <5>1, <5>2
        <4> QED BY <2>2, <3>2, <4>1, <4>2, <4>3
      <3> QED BY <1>3, <3>1, <3>2 DEF Chain
    <2>6. ~forgotten' => Ordered'
      <3> SUFFICES ASSUME ~forgotten' PROVE Ordered'
        OBVIOUS
      <3>1. Ordered
        BY DEF Queue, LockInv
      <3>2. \A d \in Call \ {c} : InQueue(d) => d \in ahead'[c]
        BY <1>5, <2>1, <2>2, <3>1 DEF Ordered, Free
      <3>3. ASSUME NEW d \in Call, NEW e \in Call, InQueue(d)', InQueue(e)', d # e
            PROVE  d \in ahead'[e] \/ e \in ahead'[d]
        <4>1. CASE d = c \/ e = c
          BY <1>1, <3>2, <3>3, <4>1
        <4>2. CASE d # c /\ e # c
          BY <1>1, <3>1, <3>3, <4>2 DEF Ordered
        <4> QED BY <4>1, <4>2
      <3> QED BY <1>1, <1>3, <3>2, <3>3 DEF Ordered
    <2> QED BY <2>5, <2>6 DEF LockInv
  <1> QED BY <1>4, <1>5

(* Somebody leaves, from wherever.                                          *)
LEMMA Leaves ==
    ASSUME TypeOK, LockInv, NEW c \in Call, InQueue(c), Release(c),
           \A d \in Call \ {c} : at'[d] = at[d],
           ~InQueue(c)'
    PROVE  LockInv'
  <1>1. \A d \in Call \ {c} : ahead'[d] = ahead[d] \ {c} /\ (InQueue(d)' <=> InQueue(d))
    BY DEF Release, TypeOK, InQueue, Writes
  <1>2. ahead'[c] = {}
    BY DEF Release, TypeOK
  <1>3. Chain'
    <2>1. \A d \in Call : at'[d] # "waiting" => ahead'[d] = {}
      BY <1>1, <1>2 DEF LockInv, Chain
    <2>2. ASSUME NEW d \in Call, NEW e \in ahead'[d]
          PROVE  InQueue(e)' /\ ahead'[e] \subseteq ahead'[d] \ {e}
      <3>1. d # c /\ e \in ahead[d] /\ e # c /\ e \in Call
        BY <1>1, <1>2, <2>2 DEF TypeOK
      <3>2. InQueue(e) /\ ahead[e] \subseteq ahead[d] \ {e}
        BY <3>1 DEF LockInv, Chain
      <3> QED BY <1>1, <3>1, <3>2
    <2>3. tail' # NoCall => InQueue(tail)'
      BY <1>1, NoCallAssumption DEF Release, LockInv, Chain, TypeOK
    <2> QED BY <2>1, <2>2, <2>3 DEF Chain
  <1>4. ~forgotten' => Ordered'
    <2> SUFFICES ASSUME ~forgotten' PROVE Ordered'
      OBVIOUS
    <2>1. Ordered /\ (tail = c => ahead[c] = {})
      BY DEF Release, LockInv
    <2>2. \A d, e \in Call : InQueue(d)' /\ InQueue(e)' /\ d # e => d \in ahead'[e] \/ e \in ahead'[d]
      BY <1>1, <2>1 DEF Ordered
    <2>3. CASE tail = c
      <3>1. \A d \in Call \ {c} : ~InQueue(d)
        BY <2>1, <2>3, NoCallAssumption DEF Ordered
      <3>2. tail' = NoCall
        BY <2>3 DEF Release
      <3> QED BY <1>1, <2>2, <3>1, <3>2 DEF Ordered
    <2>4. CASE tail # c
      <3>1. tail' = tail /\ tail # NoCall
        BY <2>1, <2>4 DEF Release, Ordered
      <3>2. \A d \in Call \ {tail} : InQueue(d)' => d \in ahead'[tail]
        BY <1>1, <2>1, <2>4, <3>1 DEF Ordered, TypeOK
      <3> QED BY <2>2, <3>1, <3>2 DEF Ordered
    <2> QED BY <2>3, <2>4
  <1> QED BY <1>3, <1>4 DEF LockInv

(* Nobody comes or leaves.                                                  *)
LEMMA Stays ==
    ASSUME TypeOK, LockInv, UNCHANGED lock,
           \A d \in Call : InQueue(d)' <=> InQueue(d),
           \A d \in Call : at'[d] # "waiting" => at[d] # "waiting" \/ ahead[d] = {}
    PROVE  LockInv'
  <1>1. tail' = tail /\ ahead' = ahead /\ forgotten' = forgotten
    BY DEF lock
  <1>2. Chain'
    <2>1. \A d \in Call : at'[d] # "waiting" => ahead'[d] = {}
      BY <1>1 DEF LockInv, Chain
    <2>2. ASSUME NEW d \in Call, NEW e \in ahead'[d]
          PROVE  InQueue(e)' /\ ahead'[e] \subseteq ahead'[d] \ {e}
      <3>1. e \in Call /\ InQueue(e) /\ ahead[e] \subseteq ahead[d] \ {e}
        BY <1>1, <2>2 DEF LockInv, Chain, TypeOK
      <3> QED BY <1>1, <3>1
    <2>3. tail' # NoCall => InQueue(tail)'
      BY <1>1 DEF LockInv, Chain, TypeOK, InQueue, Writes
    <2> QED BY <2>1, <2>2, <2>3 DEF Chain
  <1>3. Ordered => Ordered'
    BY <1>1 DEF Ordered
  <1> QED BY <1>1, <1>2, <1>3 DEF LockInv

LEMMA WorkKeepsLock ==
    ASSUME TypeOK, LockInv, NEW c \in Call, Work(c)
    PROVE  LockInv'
  <1>1. \A position : Move(c, position)
          => at'[c] = position /\ \A d \in Call \ {c} : at'[d] = at[d]
    BY DEF Move, TypeOK
  <1>2. CASE Enter(c)
    <2>1. ~InQueue(c)
      BY <1>2 DEF Enter, InQueue, Writes
    <2>2. CASE Mode[c] = "edit" /\ Queue(c) /\ Move(c, IF Free THEN "running" ELSE "waiting")
      BY <1>1, <2>1, <2>2, Joins DEF InQueue, Writes
    <2>3. CASE Mode[c] # "edit" /\ UNCHANGED lock /\ (Move(c, "running") \/ Move(c, "failing"))
      BY <1>1, <2>1, <2>3, <1>2, Stays DEF InQueue, Writes, Enter
    <2> QED BY <1>2, <2>2, <2>3 DEF Enter
  <1>3. CASE Granted(c)
    BY <1>1, <1>3, Stays, ModeAssumption DEF Granted, InQueue, Writes
  <1>4. CASE GiveUp(c)
    BY <1>1, <1>4, Leaves DEF GiveUp, InQueue, Writes
  <1>5. CASE Finish(c)
    <2>1. at'[c] \in {"failing", "passing", "review"} /\ \A d \in Call \ {c} : at'[d] = at[d]
      BY <1>1, <1>5 DEF Finish
    <2>2. CASE Mode[c] = "edit"
      BY <1>5, <2>1, <2>2, Leaves DEF Finish, InQueue, Writes
    <2>3. CASE Mode[c] # "edit"
      BY <1>5, <2>1, <2>3, Stays DEF Finish, InQueue, Writes
    <2> QED BY <2>2, <2>3
  <1>6. CASE Review(c)
    <2>1. CASE Move(c, "passing") /\ UNCHANGED lock
      BY <1>1, <1>6, <2>1, Stays DEF Review, InQueue, Writes
    <2>2. CASE Move(c, "waiting") /\ Queue(c)
      BY <1>1, <1>6, <2>2, Joins DEF Review, InQueue, Writes
    <2> QED BY <1>6, <2>1, <2>2 DEF Review
  <1>7. CASE Applied(c)
    BY <1>1, <1>7, Leaves DEF Applied, InQueue, Writes
  <1> QED BY <1>2, <1>3, <1>4, <1>5, <1>6, <1>7 DEF Work

LEMMA LockKept == Shaped /\ LockInv /\ [Next]_vars => LockInv'
  <1> SUFFICES ASSUME Shaped, LockInv, [Next]_vars PROVE LockInv'
    OBVIOUS
  <1>a. TypeOK
    BY DEF Shaped
  <1>1. CASE UNCHANGED <<lock, at>>
    BY <1>a, <1>1, Stays DEF InQueue, Writes
  <1>2. ASSUME NEW c \in Call, Start(c) \/ Resume(c) \/ UNCHANGED <<record, told, at>>,
               UNCHANGED lock
        PROVE  LockInv'
    <2>1. CASE UNCHANGED at
      BY <1>1, <1>2, <2>1
    <2>2. ASSUME NEW behind \in BOOLEAN, Execute(c, behind), ~Live(c) PROVE LockInv'
      <3>1. at'[c] \in {"failing", "hooks"} /\ \A d \in Call \ {c} : at'[d] = at[d]
        BY <1>a, <2>2 DEF Execute, Move, TypeOK
      <3> QED BY <1>a, <1>2, <2>2, <3>1, Stays DEF InQueue, Writes, Live
    <2>3. status[c] = "none" => ~Live(c)
      BY DEF Shaped, Recorded
    <2> QED BY <1>2, <2>1, <2>2, <2>3 DEF Start, Resume, Resumable, told
  <1>3. ASSUME NEW c \in Call, DispatchStep(c) PROVE LockInv'
    <2>1. CASE Work(c)
      BY <1>a, <2>1, WorkKeepsLock
    <2>2. CASE Settle(c)
      <3>1. at[c] \in {"passing", "failing"} /\ at'[c] = "off" /\ UNCHANGED lock
            /\ \A d \in Call \ {c} : at'[d] = at[d]
        BY <1>a, <2>2 DEF Settle, Move, TypeOK
      <3> QED BY <1>a, <3>1, Stays DEF InQueue, Writes
    <2> QED BY <1>3, <2>1, <2>2 DEF DispatchStep
  <1>4. ASSUME NEW c \in Call, CallAgent(c) \/ Answer(c) PROVE LockInv'
    BY <1>2, <1>4 DEF CallAgent, Answer
  <1>5. ASSUME NEW blocked \in BOOLEAN, Begin(blocked) PROVE LockInv'
    BY <1>1, <1>5 DEF Begin
  <1>6. ASSUME NEW c \in Call, AgentResult(c) \/ Cancel(c) PROVE LockInv'
    BY <1>1, <1>6 DEF AgentResult, Cancel
  <1>7. CASE Open \/ OpenFails \/ Turn \/ Abort \/ EndRun \/ FinishRun \/ Dispose \/ UNCHANGED vars
    BY <1>1, <1>7 DEF Open, OpenFails, Turn, Abort, EndRun, FinishRun, Dispose, vars
  <1> QED BY <1>3, <1>4, <1>5, <1>6, <1>7 DEF Next

LEMMA LockAlways == Spec => [](Shaped /\ LockInv)
  <1>1. Init => Shaped /\ LockInv
    BY ShapedInitially, LockInitially
  <1>2. Shaped /\ LockInv /\ [Next]_vars => (Shaped /\ LockInv)'
    BY ShapedKept, LockKept
  <1> QED BY <1>1, <1>2, PTL DEF Spec

(* As long as nobody has given up the last place of a queue, one agent at   *)
(* most writes to the workspace.                                            *)
THEOREM OneEditorAlways == Spec => []OneEditor
  <1>1. Shaped /\ LockInv => OneEditor
    <2> SUFFICES ASSUME LockInv, ~forgotten, NEW c \in Writers, NEW d \in Writers, c # d
                 PROVE  FALSE
      BY DEF OneEditor
    <2>1. InQueue(c) /\ InQueue(d) /\ c \in Call /\ d \in Call
      BY DEF Writers, InQueue, Writes
    <2>2. ahead[c] = {} /\ ahead[d] = {}
      BY <2>1 DEF LockInv, Chain, Writers
    <2> QED BY <2>1, <2>2 DEF LockInv, Ordered
  <1> QED BY LockAlways, <1>1, PTL

(* Whoever is waited for still writes or waits, in a queue without a cycle, *)
(* also after the lock has lost its entry.                                  *)
THEOREM QueueIsSound == Spec => []QueueSound
  <1>1. Shaped /\ LockInv => QueueSound
    BY DEF LockInv, Chain, QueueSound, InQueue, Writes, Writers, Shaped, TypeOK
  <1> QED BY LockAlways, <1>1, PTL

-----------------------------------------------------------------------------
(* Outcomes.                                                                *)

(* What became of a dispatch stands until it is started again.              *)
THEOREM OutcomesStand == Spec => OutcomeStands
  <1> DEFINE Stands == \A c \in Call : Ended(c) /\ status'[c] # status[c]
                                         => ~Live(c) /\ Live(c)'
  <1>1. Shaped /\ [Next]_vars => Stands
    <2> SUFFICES ASSUME Shaped, [Next]_vars,
                        NEW c \in Call, Ended(c), status'[c] # status[c]
                 PROVE  ~Live(c) /\ Live(c)'
      OBVIOUS
    <2>a. TypeOK /\ (Live(c) => status[c] = "cancelled")
      BY DEF Shaped, Recorded, Ended
    <2>1. \A S \in SUBSET Call : ~CancelRecords(S)
      BY DEF CancelRecords, Ended
    <2>2. ASSUME NEW d \in Call, NEW behind \in BOOLEAN, Execute(d, behind), ~Live(d)
          PROVE  ~Live(c) /\ Live(c)'
      BY <2>a, <2>2 DEF Execute, Move, Live, TypeOK
    <2>3. ASSUME NEW d \in Call, Start(d) \/ Resume(d) \/ UNCHANGED <<record, told, at>>
          PROVE  ~Live(c) /\ Live(c)'
      <3>1. status[d] = "none" => ~Live(d)
        BY DEF Shaped, Recorded
      <3> QED BY <2>2, <2>3, <3>1 DEF Start, Resume, Resumable, record
    <2>4. ASSUME NEW d \in Call, CallAgent(d) \/ Answer(d) PROVE ~Live(c) /\ Live(c)'
      BY <2>3, <2>4 DEF CallAgent, Answer
    <2>5. ASSUME NEW d \in Call, DispatchStep(d) PROVE FALSE
      <3>1. CASE Work(d) /\ UNCHANGED <<record, told>>
        BY <3>1 DEF record
      <3>2. CASE Settle(d)
        BY <2>a, <3>2 DEF Settle, Settled, Aborted, Live, TypeOK
      <3> QED BY <2>5, <3>1, <3>2 DEF DispatchStep
    <2>6. ASSUME NEW d \in Call, AgentResult(d) \/ Cancel(d) PROVE FALSE
      BY <2>1, <2>6 DEF AgentResult, Cancel, record
    <2>7. ASSUME NEW blocked \in BOOLEAN, Begin(blocked) PROVE FALSE
      BY <2>7 DEF Begin, record
    <2>8. CASE Abort \/ EndRun \/ Dispose
      BY <2>1, <2>8 DEF Abort, EndRun, Dispose, Foreground
    <2>9. CASE Open \/ OpenFails \/ Turn \/ FinishRun \/ UNCHANGED vars
      BY <2>9 DEF Open, OpenFails, Turn, FinishRun, record, vars
    <2> QED BY <2>4, <2>5, <2>6, <2>7, <2>8, <2>9 DEF Next
  <1>2. Spec => [][Stands]_vars
    BY <1>1, ShapedInitially, ShapedKept, PTL DEF Spec
  <1> QED BY <1>2 DEF OutcomeStands

(* A prompt is answered while its run is there, so that nothing is started  *)
(* in the name of a run that has not opened.                                *)
Quiet ==
    /\ phase \notin {"open", "closing"} => \A c \in Call : asks[c] = 0
    /\ phase \in {"opening", "refused"} => \A c \in Call : from[c] < generation

LEMMA QuietInitially == Init => Quiet
  BY DEF Init, Quiet

LEMMA QuietKept == Shaped /\ Quiet /\ [Next]_vars => Quiet'
  <1> SUFFICES ASSUME Shaped, Quiet, [Next]_vars PROVE Quiet'
    OBVIOUS
  <1>a. TypeOK /\ Recorded
    BY DEF Shaped
  <1>1. ASSUME NEW blocked \in BOOLEAN, Begin(blocked) PROVE Quiet'
    BY <1>a, <1>1 DEF Begin, record, prompts, Quiet, TypeOK, Recorded
  <1>2. CASE Open \/ OpenFails
    BY <1>2 DEF Open, OpenFails, prompts, Quiet
  <1>3. CASE Turn \/ Abort \/ EndRun \/ Dispose \/ UNCHANGED vars
    BY <1>3 DEF Turn, Abort, EndRun, Dispose, vars, run, record, prompts, Quiet
  <1>4. CASE FinishRun
    BY <1>a, <1>4 DEF FinishRun, Tracked, prompts, Quiet, TypeOK
  <1>5. ASSUME NEW c \in Call, AgentResult(c) \/ Cancel(c) \/ DispatchStep(c) PROVE Quiet'
    <2>1. UNCHANGED <<from, asks, run>>
      BY <1>5 DEF AgentResult, Cancel, DispatchStep, Settle, record, prompts
    <2> QED BY <2>1 DEF run, Quiet
  <1>6. ASSUME NEW c \in Call, CallAgent(c) \/ Answer(c) PROVE Quiet'
    <2>1. phase \in {"open", "closing"} /\ phase' = phase
      BY <1>a, <1>6 DEF CallAgent, Answer, run, Quiet, TypeOK
    <2> QED BY <2>1 DEF Quiet
  <1> QED BY <1>1, <1>2, <1>3, <1>4, <1>5, <1>6 DEF Next

(* What the model was told has ended; what has ended beside its run, or the *)
(* model was told without asking, is announced, or will be: when the run    *)
(* that took it opens, or, if it is cancelled, when a run ends.             *)
Announced ==
    /\ phase \notin {"opening", "refused"} => earlier = {}
    /\ \A c \in Call :
        /\ delivered[c] => Ended(c)
        /\ Attached(c) /\ Ended(c) => terminalEmitted[c] \/ Aborted(c)
        /\ delivered[c] /\ ~Live(c) /\ c \notin missed \cup earlier
             => terminalEmitted[c] \/ Aborted(c)

LEMMA AnnouncedInitially == Init => Announced
  BY DEF Init, Announced, Attached

(* A record that is cancelled was live until then.                          *)
LEMMA CancelledIsAnnounced ==
    ASSUME Shaped, Announced, NEW S \in SUBSET Call, CancelRecords(S),
           UNCHANGED <<generation, from, told, at>>,
           phase' \in {"open", "closing"} => phase \in {"open", "closing"},
           phase' \notin {"opening", "refused"} => phase \notin {"opening", "refused"}
    PROVE  Announced'
  <1>1. \A c \in Call : status'[c] = status[c] \/ status'[c] = "cancelled"
    BY DEF CancelRecords, Shaped, TypeOK
  <1> QED BY <1>1 DEF told, Announced, Ended, Attached, Aborted, Live

(* Nothing changes but what the model is told.                              *)
LEMMA DeliveredIsAnnounced ==
    ASSUME Shaped, Announced, NEW S \in SUBSET Call, Deliver(S), UNCHANGED <<run, record, at>>,
           \A c \in S : Ended(c)
    PROVE  Announced'
  <1>1. \A c \in Call : /\ delivered'[c] <=> delivered[c] \/ c \in S
                        /\ terminalEmitted'[c] <=> terminalEmitted[c] \/ (c \in S /\ ~Live(c))
    BY DEF Deliver, Emit, Shaped, TypeOK
  <1>2. UNCHANGED <<missed, earlier, status, from, at, phase, generation>>
    BY DEF Deliver, record, run
  <1> QED BY <1>1, <1>2 DEF Announced, Attached, Ended, Aborted, Live

LEMMA AnnouncedKept == Shaped /\ Quiet /\ Announced /\ [Next]_vars => Announced'
  <1> SUFFICES ASSUME Shaped, Quiet, Announced, [Next]_vars PROVE Announced'
    OBVIOUS
  <1>a. TypeOK /\ Recorded
    BY DEF Shaped
  <1>1. CASE UNCHANGED vars
    BY <1>1 DEF vars, run, record, told, Announced, Ended, Attached, Aborted, Live
  <1>2. ASSUME NEW blocked \in BOOLEAN, Begin(blocked) PROVE Announced'
    <2> DEFINE taken == IF blocked THEN {} ELSE Undelivered(generation + 1)
    <2>1. \A c \in Call : ~Attached(c)'
      BY <1>a, <1>2 DEF Begin, record, Attached, TypeOK, Recorded
    <2>2. /\ \A c \in Call : delivered'[c] <=> delivered[c] \/ c \in taken
          /\ \A c \in taken : ~Live(c) => c \in earlier'
          /\ phase = "off" /\ phase' \in {"opening", "refused"}
          /\ UNCHANGED <<status, terminalEmitted, missed, at>>
      BY <1>2 DEF Begin, record
    <2>3. \A c \in taken : Ended(c)
      BY DEF Undelivered
    <2> HIDE DEF taken
    <2> QED BY <2>1, <2>2, <2>3 DEF Announced, Ended, Aborted, Live
  <1>11. CASE Open
    <2>1. \A c \in Call : terminalEmitted'[c] <=> terminalEmitted[c] \/ c \in earlier
      BY <1>a, <1>11 DEF Open, Emit, TypeOK
    <2>2. \A c \in Call : ~Attached(c)'
      BY <1>a, <1>11 DEF Open, record, Attached, Quiet, TypeOK
    <2> QED BY <1>11, <2>1, <2>2 DEF Open, record, Announced, Ended, Attached, Aborted, Live
  <1>12. CASE OpenFails
    BY <1>12 DEF OpenFails, record, Announced, Ended, Attached, Aborted, Live
  <1>3. CASE Turn
    BY <1>3, DeliveredIsAnnounced DEF Turn, Undelivered
  <1>4. CASE Abort \/ EndRun \/ Dispose
    BY <1>4, CancelledIsAnnounced DEF Abort, EndRun, Dispose, Foreground
  <1>5. CASE FinishRun
    <2>1. \A c \in Call : terminalEmitted'[c] <=> terminalEmitted[c] \/ Aborted(c)
      BY <1>a, <1>5 DEF FinishRun, Emit, TypeOK
    <2> QED BY <1>5, <2>1 DEF FinishRun, record, Announced, Ended, Attached, Aborted, Live
  <1>6. ASSUME NEW c \in Call, AgentResult(c) PROVE Announced'
    BY <1>a, <1>6 DEF AgentResult, run, record, Announced, Ended, Attached, Aborted, Live, TypeOK
  <1>7. ASSUME NEW c \in Call, Cancel(c) PROVE Announced'
    BY <1>7, CancelledIsAnnounced DEF Cancel, run
  <1>8. ASSUME NEW c \in Call, Start(c) \/ Resume(c) \/ UNCHANGED <<record, told, at>>,
               UNCHANGED run
        PROVE  Announced'
    <2>1. ASSUME NEW behind \in BOOLEAN, Execute(c, behind) PROVE Announced'
      <3>1. /\ status'[c] \in {"running", "cancelled"}
            /\ ~delivered'[c] /\ earlier' = earlier
            /\ \A d \in Call \ {c} :
                  /\ status'[d] = status[d] /\ at'[d] = at[d] /\ from'[d] = from[d]
                  /\ delivered'[d] = delivered[d] /\ terminalEmitted'[d] = terminalEmitted[d]
                  /\ d \in missed' <=> d \in missed
        BY <1>a, <2>1 DEF Execute, Move, TypeOK
      <3> QED BY <1>8, <3>1 DEF run, Announced, Ended, Attached, Aborted, Live
    <2>2. CASE UNCHANGED <<record, told, at>>
      BY <1>8, <2>2 DEF run, record, told, Announced, Ended, Attached, Aborted, Live
    <2> QED BY <1>8, <2>1, <2>2 DEF Start, Resume
  <1>9. ASSUME NEW c \in Call, CallAgent(c) \/ Answer(c) PROVE Announced'
    BY <1>8, <1>9 DEF CallAgent, Answer
  <1>10. ASSUME NEW c \in Call, DispatchStep(c) PROVE Announced'
    <2>1. CASE Work(c) /\ UNCHANGED <<record, told>>
      <3>1. PICK position \in Positions \ {"off"} : Move(c, position)
        BY <1>a, <2>1, WorkShape
      <3>2. at[c] # "off"
        BY <1>a, <2>1, WorkShape
      <3>3. \A d \in Call : Live(d)' <=> Live(d)
        BY <1>a, <3>1, <3>2 DEF Move, Live, TypeOK
      <3> QED BY <1>10, <2>1, <3>3
            DEF DispatchStep, run, record, told, Announced, Ended, Attached, Aborted
    <2>2. CASE Settle(c)
      <3>1. /\ UNCHANGED <<delivered, earlier, missed, from>>
            /\ phase' = phase /\ generation' = generation
        BY <1>10, <2>2 DEF DispatchStep, Settle, run
      <3>2. \A d \in Call \ {c} :
               /\ status'[d] = status[d] /\ at'[d] = at[d]
               /\ terminalEmitted[d] => terminalEmitted'[d]
        BY <1>a, <2>2 DEF Settle, Move, Emit, TypeOK
      <3>3. /\ terminalEmitted'[c] <=> terminalEmitted[c] \/ Attached(c)
            /\ status'[c] = Settled(c)
        BY <1>a, <2>2 DEF Settle, Emit, TypeOK
      <3>4. delivered[c] => Aborted(c)
        BY <1>a, <2>2 DEF Announced, Ended, Aborted, Recorded, Live, Settle
      <3>5. Ended(c)' /\ (Aborted(c) => Aborted(c)')
        BY <3>3 DEF Settled, Ended, Aborted
      <3> QED BY <3>1, <3>2, <3>3, <3>4, <3>5 DEF Announced, Ended, Attached, Aborted, Live
    <2> QED BY <1>10, <2>1, <2>2 DEF DispatchStep
  <1> QED BY <1>1, <1>2, <1>3, <1>4, <1>5, <1>6, <1>7, <1>9, <1>10, <1>11, <1>12 DEF Next

(* A run that is over has announced what it had to, and its foreground is   *)
(* gone.                                                                    *)
THEOREM RunsEndClean == Spec => CleanEnd
  <1> DEFINE Clean ==
        phase = "closing" /\ phase' = "off" =>
          \A c \in Call :
            /\ Live(c)' => background[c]
            /\ (Aborted(c) \/ (Ended(c) /\ from[c] = generation)) => terminalEmitted'[c]
            /\ delivered[c] /\ ~Live(c) /\ c \notin missed => terminalEmitted'[c]
  <1>1. Shaped /\ Announced /\ [Next]_vars => Clean
    <2> SUFFICES ASSUME Shaped, Announced, [Next]_vars, phase = "closing", phase' = "off",
                        NEW c \in Call
                 PROVE  /\ Live(c)' => background[c]
                        /\ (Aborted(c) \/ (Ended(c) /\ from[c] = generation))
                             => terminalEmitted'[c]
                        /\ delivered[c] /\ ~Live(c) /\ c \notin missed => terminalEmitted'[c]
      OBVIOUS
    <2>1. FinishRun
      BY DEF Next, Begin, Open, OpenFails, Turn, Abort, EndRun, Dispose, AgentResult, Cancel, CallAgent, Answer,
         DispatchStep, run, vars
    <2>2. Live(c)' => background[c]
      BY <2>1 DEF FinishRun, Tracked, Live
    <2>3. terminalEmitted'[c] <=> terminalEmitted[c] \/ Aborted(c)
      BY <2>1 DEF FinishRun, Emit, Shaped, TypeOK
    <2> QED BY <2>2, <2>3 DEF Announced, Attached
  <1>2. Init => Shaped /\ Quiet /\ Announced
    BY ShapedInitially, QuietInitially, AnnouncedInitially
  <1>3. Shaped /\ Quiet /\ Announced /\ [Next]_vars => (Shaped /\ Quiet /\ Announced)'
    BY ShapedKept, QuietKept, AnnouncedKept
  <1>4. Spec => [][Clean]_vars
    BY <1>1, <1>2, <1>3, PTL DEF Spec
  <1> QED BY <1>4 DEF CleanEnd
=============================================================================
