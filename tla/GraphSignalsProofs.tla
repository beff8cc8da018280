------------------------- MODULE GraphSignalsProofs -------------------------
(***************************************************************************)
(* What the signal mailbox guarantees for every Graph, every number of     *)
(* signals, and every number of crashes, resumes and restarts.             *)
(***************************************************************************)
EXTENDS GraphSignals, FiniteSetTheorems, TLAPS

(* No output is cut, the retirement of old claims does not fail, and waits *)
(* are not run again: README.md, section 3, says what happens otherwise.   *)
Dependable == Large = {} /\ "restart" \notin Fallible /\ ~MayRerun

(* A scheduler has written a checkpoint before it does anything else.      *)
Owned == pc # "off" => disk # NoCheckpoint

-----------------------------------------------------------------------------
(* What is in the mailbox is finite.                                       *)
LEMMA BoxFinite == IsFiniteSet(InBox)
  BY SignalAssumption, FS_Subset, InBox \subseteq Signal DEF InBox

(* The mailbox stays within its limit when nothing is added to it.         *)
LEMMA BoxBounded == ASSUME InBox' \subseteq InBox, Cardinality(InBox) <= MaxSignals
                    PROVE  Cardinality(InBox') <= MaxSignals
<1>1. IsFiniteSet(InBox) /\ IsFiniteSet(InBox')
  BY BoxFinite, FS_Subset
<1>2. Cardinality(InBox') <= Cardinality(InBox)
  BY <1>1, FS_Subset
<1>3. Cardinality(InBox) \in Nat /\ Cardinality(InBox') \in Nat
  BY <1>1, FS_CardinalityType
<1>4. QED
  BY <1>2, <1>3, SignalAssumption

(* An acknowledgement only takes entries away.                             *)
LEMMA AcknowledgedType ==
    ASSUME TypeOK, NEW n, NEW s, mailbox' = Acknowledged(n, s)
    PROVE  /\ mailbox' \in [Signal -> Entry \union {NoEntry}]
           /\ InBox' \subseteq InBox
  BY DEF TypeOK, Acknowledged, InBox

(* A committed result leaves a checkpoint of the right type.               *)
LEMMA CommitType ==
    ASSUME TypeOK, disk # NoCheckpoint, NEW status \in {"passed", "failed"}, Commit(status)
    PROVE  disk' \in Checkpoints
<1>1. disk.results \in [Wait -> Results]
  BY DEF TypeOK, Checkpoints
<1>2. Result(status, hand) \in Results
  BY DEF TypeOK, Result, Results
<1>3. [disk.results EXCEPT ![node] = Result(status, hand)] \in [Wait -> Results]
  BY <1>1, <1>2
<1>4. QED
  BY <1>3 DEF Commit, Checkpoints

(* Every variable has its type, and the mailbox its limit, initially.      *)
LEMMA TypeInit == Init => TypeOK /\ Owned
<1> SUFFICES ASSUME Init PROVE TypeOK /\ Owned
  OBVIOUS
<1>1. InBox = {}
  BY DEF Init, InBox
<1>2. Cardinality(InBox) <= MaxSignals
  BY <1>1, FS_EmptySet, SignalAssumption
<1>3. QED
  BY <1>2 DEF Init, TypeOK, Owned

(* Every step of the senders, the scheduler and the clock keeps them.      *)
LEMMA TypeStep == TypeOK /\ Owned /\ [Next]_vars => TypeOK' /\ Owned'
<1> SUFFICES ASSUME TypeOK, Owned, [Next]_vars PROVE TypeOK' /\ Owned'
  OBVIOUS
<1> USE SignalAssumption, NullAssumption, BoxBounded DEF TypeOK, Owned, owner, Off, Fails
<1>1. ASSUME NEW s \in Signal, Admit(s) PROVE TypeOK' /\ Owned'
  BY <1>1 DEF Admit, InBox
<1>2. ASSUME NEW s \in Signal, Enqueue(s) PROVE TypeOK' /\ Owned'
  <2>1. CASE Cardinality(InBox) < MaxSignals
    <3>1. Cardinality(minted) \in Nat
      BY FS_Subset, FS_CardinalityType
    <3>2. mailbox' \in [Signal -> Entry \union {NoEntry}] /\ minted' \subseteq Signal
      BY <1>2, <2>1, <3>1 DEF Enqueue, Entry
    <3>3. InBox' \subseteq InBox \union {s}
      BY <1>2, <2>1 DEF Enqueue, InBox
    <3>4. /\ IsFiniteSet(InBox \union {s})
          /\ Cardinality(InBox \union {s}) =
               IF s \in InBox THEN Cardinality(InBox) ELSE Cardinality(InBox) + 1
      BY BoxFinite, FS_AddElement
    <3>5. Cardinality(InBox') <= Cardinality(InBox \union {s}) /\ IsFiniteSet(InBox')
      BY <3>3, <3>4, FS_Subset
    <3>6. Cardinality(InBox') \in Nat /\ Cardinality(InBox \union {s}) \in Nat
          /\ Cardinality(InBox) \in Nat
      BY <3>4, <3>5, BoxFinite, FS_CardinalityType
    <3>7. Cardinality(InBox') <= MaxSignals
      BY <2>1, <3>4, <3>5, <3>6
    <3>8. QED
      BY <1>2, <3>2, <3>7 DEF Enqueue
  <2>2. CASE ~(Cardinality(InBox) < MaxSignals)
    BY <1>2, <2>2 DEF Enqueue, InBox
  <2>3. QED
    BY <2>1, <2>2
<1>3. CASE Start
  BY <1>3 DEF Start, InBox, Checkpoints, Results, NoResult
<1>4. CASE Restart
  BY <1>4 DEF Restart, InBox
<1>5. ASSUME NEW again \in SUBSET Wait, Resume(again) PROVE TypeOK' /\ Owned'
  <2>1. disk' \in Checkpoints
    BY <1>5 DEF Resume, Checkpoints, Results, NoResult
  <2>2. QED
    BY <1>5, <2>1 DEF Resume, InBox
<1>6. ASSUME NEW n \in Wait, Reconcile(n) PROVE TypeOK' /\ Owned'
  <2>1. mailbox' \in [Signal -> Entry \union {NoEntry}] /\ InBox' \subseteq InBox
    BY <1>6, AcknowledgedType DEF Reconcile, InBox
  <2>2. QED
    BY <1>6, <2>1 DEF Reconcile
<1>7. ASSUME NEW n \in Wait, Pick(n) PROVE TypeOK' /\ Owned'
  BY <1>7 DEF Pick, InBox
<1>8. CASE Reconciled
  BY <1>8 DEF Reconciled, InBox, Checkpoints, Results, NoResult
<1>9. CASE Finish
  BY <1>9 DEF Finish, InBox, Checkpoints
<1>10. ASSUME NEW s \in Signal, Claim(s) PROVE TypeOK' /\ Owned'
  <2>1. s \in InBox /\ node \in Wait \union {Nobody}
    BY <1>10 DEF Claim, Usable, Timely
  <2>2. mailbox' \in [Signal -> Entry \union {NoEntry}] /\ InBox' \subseteq InBox
    BY <1>10, <2>1 DEF Claim, InBox, Entry
  <2>3. QED
    BY <1>10, <2>2 DEF Claim
<1>11. CASE NothingToClaim
  BY <1>11 DEF NothingToClaim, InBox
<1>12. CASE ClaimFails
  BY <1>12 DEF ClaimFails, InBox
<1>13. CASE Resolve
  BY <1>13, CommitType, NullAssumption DEF Resolve, InBox
<1>14. CASE Expire
  BY <1>14, CommitType, NullAssumption DEF Expire, InBox
<1>15. CASE Pause
  BY <1>15 DEF Pause, Result, InBox, Checkpoints, Results
<1>16. CASE Acknowledge
  <2>1. mailbox' \in [Signal -> Entry \union {NoEntry}] /\ InBox' \subseteq InBox
    BY <1>16, AcknowledgedType DEF Acknowledge, InBox
  <2>2. QED
    BY <1>16, <2>1 DEF Acknowledge
<1>17. CASE Crash
  BY <1>17 DEF Crash, InBox
<1>18. CASE Tick
  BY <1>18 DEF Tick, InBox
<1>19. CASE UNCHANGED vars
  BY <1>19 DEF vars, InBox
<1>20. QED
  BY <1>1, <1>2, <1>3, <1>4, <1>5, <1>6, <1>7, <1>8, <1>9, <1>10, <1>11, <1>12, <1>13, <1>14,
     <1>15, <1>16, <1>17, <1>18, <1>19 DEF Next, Step

(* Type correctness: in particular the mailbox never grows beyond          *)
(* MAX_SIGNALS, however many senders passed the check at once.             *)
THEOREM TypeCorrect == Spec => []TypeOK
<1>1. Spec => [](TypeOK /\ Owned)
  BY TypeInit, TypeStep, PTL DEF Spec
<1>2. QED
  BY <1>1, PTL

-----------------------------------------------------------------------------
(* The parts of the inductive invariant. *)

(* Ids are new, and what was delivered was sent.                           *)
Minted ==
    /\ admitted \intersect minted = {}
    /\ InBox \subseteq minted
    /\ \A n \in Wait : Outcome[n] \in minted \union {Nobody}

(* A delivered signal that is still in the mailbox is claimed by the wait  *)
(* that was given it; no other wait can take it.                           *)
ClaimStays == \A n \in Wait : Outcome[n] \in InBox => mailbox[Outcome[n]].claimedBy = n

(* A reconciliation acknowledges what was committed, and the checkpoint of *)
(* a generation is replaced only when every signal it names has left the   *)
(* mailbox.                                                                *)
Retired ==
    /\ pc \in {"retire", "reconcile"} =>
         \A n \in todo : disk.results[n].status = "passed"
    /\ pc = "retire" => \A n \in Wait : Outcome[n] \in InBox => n \in todo

(* The wait in hand has no result until its signal is committed; the       *)
(* signal in hand is its own.                                              *)
InHand ==
    /\ pc \in {"claim", "decide"} => node \in Wait /\ disk.results[node] = NoResult
    /\ pc = "decide" /\ hand # Nobody => hand \in Timely(node, node)
    /\ pc = "ack" => node \in Wait /\ hand # Nobody /\ Outcome[node] = hand
    /\ pc \notin {"decide", "ack"} => hand = Nobody

(* When nothing could be claimed, whatever has come since is later than    *)
(* the time that was read.                                                 *)
NothingMissed ==
    /\ readAt <= clock
    /\ pc = "decide" /\ hand = Nobody =>
         \A s \in Timely(node, node) \union Timely(node, Nobody) : mailbox[s].createdAt >= readAt

Parts == Minted /\ ClaimStays /\ Retired /\ InHand /\ NothingMissed

(* A wait was given a signal or nothing.                                   *)
LEMMA OutcomeType == ASSUME TypeOK PROVE Outcome \in [Wait -> Signal \union {Nobody}]
  BY DEF TypeOK, Outcome, Checkpoints, Results

(* Only a checkpoint changes what the waits were given.                    *)
LEMMA OutcomeSame == ASSUME disk' = disk PROVE Outcome' = Outcome
  BY DEF Outcome

(* A commit gives the wait in hand the signal in hand, and no other wait   *)
(* anything.                                                               *)
LEMMA CommitOutcome ==
    ASSUME TypeOK, disk # NoCheckpoint, disk' # NoCheckpoint, node \in Wait,
           NEW status, NEW s, NEW g,
           disk' = [status |-> g, results |-> [disk.results EXCEPT ![node] = Result(status, s)]]
    PROVE  \A n \in Wait : Outcome'[n] = IF n # node THEN Outcome[n]
                                         ELSE IF status = "passed" THEN s ELSE Nobody
  BY DEF TypeOK, Checkpoints, Result, Outcome

(* An acknowledgement removes no entry but the claimed one.                *)
LEMMA AcknowledgedParts ==
    ASSUME TypeOK, NEW n, NEW s, mailbox' = Acknowledged(n, s)
    PROVE  /\ InBox' \subseteq InBox
           /\ \A t \in InBox' : mailbox'[t] = mailbox[t]
           /\ s \in InBox' => mailbox[s].claimedBy # n
  BY DEF TypeOK, Acknowledged, InBox

(* Everything holds before the first step.                                 *)
LEMMA PartsInit == Init => Parts
  BY SMTT(20) DEF Init, Parts, Minted, ClaimStays, Retired, InHand, NothingMissed, InBox, Outcome, Timely

(* Every step of senders, scheduler, crash and clock keeps all of it.      *)
LEMMA PartsStep ==
    ASSUME Dependable, TypeOK, Owned, TypeOK', Owned', Parts, [Next]_vars
    PROVE  Parts'
<1> USE SignalAssumption, NullAssumption, OutcomeType, OutcomeSame
    DEF Parts, TypeOK, Owned, owner, Off, Fails, Minted, ClaimStays, Retired, InHand, NothingMissed
<1>1. ASSUME NEW s \in Signal, Admit(s) PROVE Parts'
  BY <1>1 DEF Admit, InBox, Timely
<1>2. ASSUME NEW s \in Signal, Enqueue(s) PROVE Parts'
  BY <1>2 DEF Enqueue, InBox, Timely
<1>3. CASE Start
  BY <1>3 DEF Start, InBox, Outcome, Timely, NoResult
<1>4. CASE Restart
  BY SMTT(20), <1>4 DEF Restart, InBox, Outcome, Timely, NamesSignal, Dependable
<1>5. ASSUME NEW again \in SUBSET Wait, Resume(again) PROVE Parts'
  <2>1. \A n \in Wait : Outcome'[n] = Outcome[n]
    BY <1>5 DEF Resume, Outcome, Checkpoints, Results, Dependable, NoResult
  <2>2. InBox' = InBox /\ pc = "off" /\ hand = Nobody /\ pc' = "reconcile" /\ hand' = hand
    BY SMTT(20), <1>5 DEF Resume, InBox
  <2>3. Minted' /\ ClaimStays'
    BY SMTT(20), <1>5, <2>1, <2>2 DEF Resume
  <2>4. Retired'
    BY SMTT(20), <1>5, <2>2 DEF Resume, NamesSignal
  <2>5. InHand' /\ NothingMissed'
    BY <1>5, <2>2 DEF Resume
  <2>6. QED
    BY SMTT(20), <2>3, <2>4, <2>5
<1>6. ASSUME NEW n \in Wait, Reconcile(n) PROVE Parts'
  BY <1>6, AcknowledgedParts DEF Reconcile, InBox, Dependable, Outcome
<1>7. ASSUME NEW n \in Wait, Pick(n) PROVE Parts'
  BY <1>7 DEF Pick, Pending, InBox, Timely
<1>8. CASE Reconciled
  BY <1>8 DEF Reconciled, InBox, Outcome, NoResult
<1>9. CASE Finish
  BY <1>9 DEF Finish, InBox, Outcome
<1>10. ASSUME NEW s \in Signal, Claim(s) PROVE Parts'
  <2>1. node \in Wait /\ disk # NoCheckpoint /\ Outcome[node] = Nobody
    BY <1>10 DEF Claim, Outcome, NoResult
  <2>2. s \in InBox /\ s \in Timely(node, node) \union Timely(node, Nobody)
    BY <1>10 DEF Claim, Usable, Timely
  <2>3. \A n \in Wait : Outcome[n] # s
    BY <2>1, <2>2 DEF Timely, InBox
  <2>4. /\ InBox' = InBox
        /\ \A t \in InBox : t # s => mailbox'[t] = mailbox[t]
        /\ mailbox'[s].claimedBy = node
        /\ mailbox'[s].createdAt = mailbox[s].createdAt
    BY <1>10, <2>1, <2>2 DEF Claim, InBox, Entry
  <2>5. hand' = s /\ pc' = "decide" /\ node' = node /\ disk' = disk /\ readAt' = readAt
        /\ clock' = clock /\ minted' = minted /\ admitted' = admitted
    BY <1>10 DEF Claim
  <2>6. s \in Timely(node, node)'
    BY <2>1, <2>2, <2>4, <2>5 DEF Timely
  <2>7. Minted' /\ ClaimStays'
    BY <2>3, <2>4, <2>5
  <2>8. InHand'
    BY <1>10, <2>1, <2>5, <2>6 DEF Claim
  <2>9. Retired' /\ NothingMissed'
    BY <2>2, <2>5
  <2>10. QED
    BY <2>7, <2>8, <2>9
<1>11. CASE NothingToClaim
  BY <1>11 DEF NothingToClaim, Usable, Timely, InBox
<1>12. CASE ClaimFails
  BY <1>12 DEF ClaimFails, InBox
<1>13. CASE Resolve
  <2>1. \A n \in Wait : Outcome'[n] = IF n # node THEN Outcome[n] ELSE hand
    <3>1. /\ node \in Wait /\ disk # NoCheckpoint /\ disk' # NoCheckpoint
          /\ disk' = [status |-> "running",
                      results |-> [disk.results EXCEPT ![node] = Result("passed", hand)]]
      BY <1>13 DEF Resolve, Commit
    <3>2. \A n \in Wait : Outcome'[n] = IF n # node THEN Outcome[n]
                                  ELSE IF "passed" = "passed" THEN hand ELSE Nobody
      BY <3>1, CommitOutcome
    <3>3. QED
      BY <3>2
  <2>2. QED
    BY <1>13, <2>1 DEF Resolve, InBox, Timely
<1>14. CASE Expire
  <2>1. \A n \in Wait : Outcome'[n] = IF n # node THEN Outcome[n] ELSE Nobody
    BY <1>14, CommitOutcome DEF Expire, Commit
  <2>2. QED
    BY <1>14, <2>1 DEF Expire, InBox, Timely
<1>15. CASE Pause
  <2>1. \A n \in Wait : Outcome'[n] = IF n # node THEN Outcome[n] ELSE Nobody
    <3>1. /\ node \in Wait /\ disk # NoCheckpoint
          /\ disk' = [status |-> "paused",
                      results |-> [disk.results EXCEPT ![node] = Result("waiting", Nobody)]]
      BY <1>15 DEF Pause
    <3>2. disk' # NoCheckpoint
      BY <1>15 DEF Pause, Result, Checkpoints, Results
    <3>3. \A n \in Wait : Outcome'[n] = IF n # node THEN Outcome[n]
                                  ELSE IF "waiting" = "passed" THEN Nobody ELSE Nobody
      BY <3>1, <3>2, CommitOutcome
    <3>4. QED
      BY <3>3
  <2>2. QED
    BY <1>15, <2>1 DEF Pause, InBox, Timely
<1>16. CASE Acknowledge
  BY <1>16, AcknowledgedParts DEF Acknowledge, InBox
<1>17. CASE Crash
  BY <1>17 DEF Crash, InBox
<1>18. CASE Tick
  BY <1>18 DEF Tick, InBox, Timely
<1>19. CASE UNCHANGED vars
  BY <1>19 DEF vars, InBox, Timely
<1>20. QED
  BY <1>1, <1>2, <1>3, <1>4, <1>5, <1>6, <1>7, <1>8, <1>9, <1>10, <1>11, <1>12, <1>13, <1>14,
     <1>15, <1>16, <1>17, <1>18, <1>19 DEF Next, Step

(* So all of it holds at every moment of a dependable run.                 *)
LEMMA Invariant == ASSUME Dependable PROVE Spec => [](TypeOK /\ Owned /\ Parts)
<1>1. Init => TypeOK /\ Owned /\ Parts
  BY TypeInit, PartsInit
<1>2. TypeOK /\ Owned /\ Parts /\ [Next]_vars => (TypeOK /\ Owned /\ Parts)'
  BY TypeStep, PartsStep
<1>3. QED
  BY <1>1, <1>2, PTL DEF Spec

-----------------------------------------------------------------------------
Given == {Outcome[n] : n \in Wait}

(* A step that changes neither the ids sent, nor what is in the mailbox,    *)
(* nor what the waits were given, is a stutter of SignalDelivery.          *)
LEMMA Stutters ==
    ASSUME UNCHANGED <<minted, InBox, Outcome>>
    PROVE  UNCHANGED Delivery!vars
  BY DEF Delivery!vars

(* An acknowledged signal has been delivered: the pool does not change.    *)
LEMMA AcknowledgedDelivered ==
    ASSUME TypeOK, NEW n \in Wait, Outcome' = Outcome, minted' = minted,
           mailbox' = Acknowledged(n, Outcome[n])
    PROVE  UNCHANGED Delivery!vars
<1>1. InBox \ Given = InBox' \ Given
  BY DEF Acknowledged, InBox, Given, TypeOK
<1>2. QED
  BY <1>1 DEF Delivery!vars, Given

(* A commit moves the signal in hand from the pool to the wait; every      *)
(* other step but a sender's leaves the pool alone.                        *)
LEMMA StepDelivers ==
    ASSUME Dependable, TypeOK, Owned, Parts, TypeOK', Owned', Parts', [Next]_vars
    PROVE  [Delivery!Next]_(Delivery!vars)
<1> USE SignalAssumption, NullAssumption, OutcomeType, OutcomeSame, Stutters
    DEF Parts, TypeOK, Owned, owner, Off, Fails
<1>1. ASSUME NEW s \in Signal, Admit(s) PROVE UNCHANGED Delivery!vars
  BY <1>1 DEF Admit, InBox
<1>2. ASSUME NEW s \in Signal, Enqueue(s) PROVE [Delivery!Next]_(Delivery!vars)
  <2>1. CASE Cardinality(InBox) < MaxSignals
    <3>1. s \notin minted /\ s \notin Given /\ Outcome' = Outcome
      BY <1>2 DEF Enqueue, Minted, Given
    <3>2. [claimedBy |-> Nobody, createdAt |-> clock, place |-> Cardinality(minted)] # NoEntry
      <4>1. Cardinality(minted) \in Nat
        BY FS_Subset, FS_CardinalityType
      <4>2. QED
        BY <4>1 DEF Entry
    <3>3. minted' = minted \union {s} /\ InBox' = InBox \union {s}
      BY <1>2, <2>1, <3>2 DEF Enqueue, InBox
    <3>4. Delivery!Send(s)
      BY <3>1, <3>3 DEF Delivery!Send, Given
    <3>5. QED
      BY <3>4 DEF Delivery!Next
  <2>2. CASE ~(Cardinality(InBox) < MaxSignals)
    BY <1>2, <2>2 DEF Enqueue, InBox
  <2>3. QED
    BY <2>1, <2>2
<1>3. CASE Start
  <2>1. Outcome' = Outcome
    BY <1>3 DEF Start, Outcome, NoResult
  <2>2. QED
    BY <1>3, <2>1 DEF Start, InBox
<1>4. CASE Restart
  BY <1>4 DEF Restart, InBox
<1>5. ASSUME NEW again \in SUBSET Wait, Resume(again) PROVE UNCHANGED Delivery!vars
  <2>1. Outcome' = Outcome
    BY <1>5 DEF Resume, Outcome, Checkpoints, Results, Dependable, NoResult
  <2>2. QED
    BY SMTT(20), <1>5, <2>1 DEF Resume, InBox
<1>6. ASSUME NEW n \in Wait, Reconcile(n) PROVE UNCHANGED Delivery!vars
  <2>1. CASE mailbox' = mailbox
    BY <1>6, <2>1 DEF Reconcile, InBox
  <2>2. CASE mailbox' = Acknowledged(n, disk.results[n].signal)
    <3>1. Outcome[n] = disk.results[n].signal
      BY <1>6 DEF Reconcile, Outcome, Retired
    <3>2. QED
      BY <1>6, <2>2, <3>1, AcknowledgedDelivered DEF Reconcile
  <2>3. QED
    BY <1>6, <2>1, <2>2 DEF Reconcile
<1>7. ASSUME NEW n \in Wait, Pick(n) PROVE UNCHANGED Delivery!vars
  BY <1>7 DEF Pick, InBox
<1>8. CASE Reconciled
  <2>1. CASE pc = "reconcile"
    BY <1>8, <2>1 DEF Reconciled, InBox
  <2>2. CASE pc = "retire"
    <3>1. Outcome' = [n \in Wait |-> IF n \in Wait THEN Nobody ELSE Outcome[n]]
      BY <1>8, <2>2 DEF Reconciled, Outcome, NoResult
    <3>2. InBox \ Given = InBox /\ InBox' = InBox /\ Given' \subseteq {Nobody}
      BY <1>8, <2>2, <3>1 DEF Reconciled, Retired, InBox, Given
    <3>3. InBox' \ Given' = InBox \ Given
      BY <3>2 DEF InBox
    <3>4. Delivery!Repeat(Wait)
      BY <1>8, <3>1, <3>3 DEF Delivery!Repeat, Given, Reconciled
    <3>5. QED
      BY <3>4 DEF Delivery!Next
  <2>3. QED
    BY <1>8, <2>1, <2>2 DEF Reconciled
<1>9. CASE Finish
  <2>1. Outcome' = Outcome
    <3>1. disk # NoCheckpoint /\ disk' # NoCheckpoint /\ disk'.results = disk.results
      BY <1>9 DEF Finish, Checkpoints
    <3>2. QED
      BY <3>1 DEF Outcome
  <2>2. QED
    BY <1>9, <2>1 DEF Finish, InBox
<1>10. ASSUME NEW s \in Signal, Claim(s) PROVE UNCHANGED Delivery!vars
  <2>1. InBox' = InBox
    BY <1>10 DEF Claim, Usable, Timely, InBox, Entry
  <2>2. QED
    BY <1>10, <2>1 DEF Claim
<1>11. CASE NothingToClaim
  BY <1>11 DEF NothingToClaim, InBox
<1>12. CASE ClaimFails
  BY <1>12 DEF ClaimFails, InBox
<1>13. CASE Resolve
  <2>1. node \in Wait /\ Outcome[node] = Nobody
    BY <1>13 DEF Resolve, InHand, Outcome, NoResult
  <2>2. Outcome' = [Outcome EXCEPT ![node] = hand]
    <3>1. /\ node \in Wait /\ disk # NoCheckpoint /\ disk' # NoCheckpoint
          /\ disk' = [status |-> "running",
                      results |-> [disk.results EXCEPT ![node] = Result("passed", hand)]]
      BY <1>13, <2>1 DEF Resolve, Commit
    <3>2. \A n \in Wait : Outcome'[n] = IF n # node THEN Outcome[n] ELSE hand
      BY <3>1, CommitOutcome
    <3>3. Outcome' = [n \in Wait |-> Outcome'[n]]
      BY DEF Outcome
    <3>4. QED
      BY <3>2, <3>3, <2>1
  <2>3. minted' = minted /\ InBox' = InBox
    BY <1>13 DEF Resolve, InBox
  <2>4. CASE hand = Nobody
    BY <2>1, <2>2, <2>3, <2>4
  <2>5. CASE hand # Nobody
    <3>1. hand \in InBox /\ mailbox[hand].claimedBy = node /\ hand \in Signal
      BY <1>13, <2>5 DEF Resolve, InHand, Timely, InBox
    <3>2. hand \notin Given
      BY <3>1, <2>1, <2>5 DEF ClaimStays, Given
    <3>3. Given' \ {Nobody} = (Given \union {hand}) \ {Nobody}
      BY <2>1, <2>2 DEF Given
    <3>4. Nobody \notin InBox
      BY DEF InBox
    <3>5. InBox' \ Given' = (InBox \ Given) \ {hand}
      BY <2>3, <3>3, <3>4
    <3>6. PICK n \in Wait, s \in Signal : n = node /\ s = hand
      BY <2>1, <3>1
    <3>7. Delivery!Deliver(n, s)
      BY <2>1, <2>2, <2>3, <3>1, <3>2, <3>5, <3>6 DEF Delivery!Deliver, Given
    <3>8. QED
      BY <3>7 DEF Delivery!Next
  <2>6. QED
    BY <2>4, <2>5
<1>14. CASE Expire
  <2>1. Outcome' = Outcome
    BY <1>14 DEF Expire, Commit, Outcome, InHand, NoResult, Result, Checkpoints
  <2>2. QED
    BY <1>14, <2>1 DEF Expire, InBox
<1>15. CASE Pause
  <2>1. Outcome' = Outcome
    <3>1. disk # NoCheckpoint /\ disk.results[node].status # "passed"
          /\ disk' = [status |-> "paused",
                      results |-> [disk.results EXCEPT ![node] = Result("waiting", Nobody)]]
      BY <1>15 DEF Pause, InHand, NoResult
    <3>2. disk' # NoCheckpoint
      BY <1>15 DEF Pause, Result, Checkpoints, Results
    <3>3. QED
      BY <3>1, <3>2 DEF Outcome, Result, Checkpoints
  <2>2. QED
    BY <1>15, <2>1 DEF Pause, InBox
<1>16. CASE Acknowledge
  <2>1. CASE mailbox' = mailbox
    BY <1>16, <2>1 DEF Acknowledge, InBox
  <2>2. CASE mailbox' = Acknowledged(node, hand)
    BY <1>16, <2>2, AcknowledgedDelivered DEF Acknowledge, InHand
  <2>3. QED
    BY <1>16, <2>1, <2>2 DEF Acknowledge
<1>17. CASE Crash
  BY <1>17 DEF Crash, InBox
<1>18. CASE Tick
  BY <1>18 DEF Tick, InBox
<1>19. CASE UNCHANGED vars
  BY <1>19 DEF vars, InBox
<1>20. QED
  BY <1>1, <1>2, <1>3, <1>4, <1>5, <1>6, <1>7, <1>8, <1>9, <1>10, <1>11, <1>12, <1>13, <1>14,
     <1>15, <1>16, <1>17, <1>18, <1>19 DEF Next, Step

(* No signal that was accepted is lost, and none is delivered twice,       *)
(* whatever crashes, resumes and restarts come between.                    *)
THEOREM Refinement == ASSUME Dependable PROVE Spec => DeliveredOnce
<1>1. Init => Delivery!Init
  BY DEF Init, Delivery!Init, Outcome, InBox
<1>2. Spec => [](TypeOK /\ Owned /\ Parts)
  BY Invariant
<1>3. ASSUME Dependable
      PROVE  TypeOK /\ Owned /\ Parts /\ (TypeOK /\ Owned /\ Parts)' /\ [Next]_vars
               => [Delivery!Next]_(Delivery!vars)
  BY <1>3, StepDelivers
<1>4. QED
  BY <1>1, <1>2, <1>3, PTL DEF Spec, DeliveredOnce, Delivery!Spec

-----------------------------------------------------------------------------
(* No step lets a wait expire over a signal that was in time, or pass by   *)
(* one that was not.                                                       *)
LEMMA DeadlineStep ==
    ASSUME TypeOK, Owned, Parts, TypeOK', Owned', [Next]_vars, NEW n \in Wait,
           disk # NoCheckpoint, disk'.results[n] # disk.results[n]
    PROVE  /\ disk'.results[n].status = "failed" =>
                \A s \in Timely(n, n) \union Timely(n, Nobody) :
                    mailbox[s].createdAt >= ExpiresAt[n]
           /\ disk'.results[n].status = "passed" /\ disk'.results[n].signal # Nobody =>
                mailbox[disk'.results[n].signal].createdAt <= ExpiresAt[n]
<1> USE SignalAssumption, NullAssumption, WaitAssumption
    DEF Parts, TypeOK, Owned, owner, Checkpoints, Results
<1>1. CASE disk' = disk
  BY <1>1
<1>3. CASE Start
  BY <1>3 DEF Start
<1>4. ASSUME NEW again \in SUBSET Wait, Resume(again)
      PROVE  disk'.results[n].status = "none"
  BY <1>4 DEF Resume, NoResult
<1>5. CASE Reconciled
  BY <1>5 DEF Reconciled, NoResult
<1>6. CASE Finish
  BY <1>6 DEF Finish
<1>7. CASE Resolve
  <2>1. node = n /\ disk'.results[n] = Result("passed", hand)
    BY <1>7 DEF Resolve, Commit, InHand
  <2>2. QED
    BY <1>7, <2>1 DEF Resolve, Result, InHand, Timely
<1>8. CASE Expire
  <2>1. node = n /\ disk'.results[n] = Result("failed", hand)
    BY <1>8 DEF Expire, Commit, InHand
  <2>2. ASSUME NEW s \in Timely(n, n) \union Timely(n, Nobody)
        PROVE  mailbox[s].createdAt >= ExpiresAt[n]
    <3>1. mailbox[s].createdAt \in Nat /\ mailbox[s].createdAt >= readAt
      BY <1>8, <2>1 DEF Expire, NothingMissed, Timely, InBox, Entry
    <3>2. readAt >= ExpiresAt[n] /\ readAt \in Nat /\ ExpiresAt[n] \in Nat
      BY <1>8, <2>1 DEF Expire
    <3>3. QED
      BY <3>1, <3>2
  <2>3. QED
    BY <2>1, <2>2 DEF Result
<1>9. CASE Pause
  <2>1. node = n /\ disk'.results[n] = Result("waiting", Nobody)
    BY <1>9 DEF Pause, InHand
  <2>2. QED
    BY <2>1 DEF Result
<1>10. disk' = disk \/ Start \/ (\E again \in SUBSET Wait : Resume(again)) \/ Reconciled
       \/ Finish \/ Resolve \/ Expire \/ Pause
  BY DEF Next, Step, vars, Admit, Enqueue, Restart, Reconcile, Pick, Claim, NothingToClaim,
         ClaimFails, Acknowledge, Crash, Tick
<1>11. QED
  BY <1>1, <1>3, <1>4, <1>5, <1>6, <1>7, <1>8, <1>9, <1>10

(* A wait takes a signal sent before its deadline rather than expire, and  *)
(* never one sent after it.                                                *)
THEOREM Deadline == ASSUME Dependable PROVE Spec => DeadlineKept
<1>1. Spec => [](TypeOK /\ Owned /\ Parts)
  BY Invariant
<1>2. TypeOK /\ Owned /\ Parts /\ (TypeOK /\ Owned /\ Parts)' /\ [Next]_vars =>
        \A n \in Wait :
          disk # NoCheckpoint /\ disk'.results[n] # disk.results[n] =>
            /\ disk'.results[n].status = "failed" =>
                 \A s \in Timely(n, n) \union Timely(n, Nobody) :
                     mailbox[s].createdAt >= ExpiresAt[n]
            /\ disk'.results[n].status = "passed" /\ disk'.results[n].signal # Nobody =>
                 mailbox[disk'.results[n].signal].createdAt <= ExpiresAt[n]
  BY DeadlineStep
<1>3. QED
  BY <1>1, <1>2, PTL DEF Spec, DeadlineKept
=============================================================================
