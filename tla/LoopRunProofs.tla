---------------------------- MODULE LoopRunProofs ----------------------------
(***************************************************************************)
(* Theorems about the Loop (module LoopRun) for any number of processes,   *)
(* calls, crashes and pauses, and any limits: its types, that what passed  *)
(* was verified, reviewed and approved as it stands, and that the          *)
(* verifications of a Loop stay in their budget.                           *)
(***************************************************************************)
EXTENDS LoopRun, TLAPS

Status == Final \union {"running", "paused"}

(* What an update of one field of a checkpoint does to the others.         *)
LEMMA StateFields ==
    ASSUME NEW s \in States
    PROVE  /\ s.status \in Status /\ s.iterations \in 0..MaxIterations
           /\ s.verifyRuns \in 0..MaxVerifyRuns /\ s.streak \in 0..StablePasses
           /\ s.recoveries \in 0..MaxNoProgressRecoveries
           /\ s.spec \in {"none", "made", "approved"}
BY DEF States, Status

LEMMA SetStatus ==
    ASSUME NEW s \in States, NEW x \in Status
    PROVE  LET t == [s EXCEPT !.status = x]
           IN  /\ t \in States /\ t.status = x /\ t.iterations = s.iterations
               /\ t.verifyRuns = s.verifyRuns /\ t.streak = s.streak /\ t.spec = s.spec
BY DEF States, Status

LEMMA SetSpec ==
    ASSUME NEW s \in States, NEW x \in {"none", "made", "approved"}
    PROVE  LET t == [s EXCEPT !.spec = x]
           IN  /\ t \in States /\ t.spec = x /\ t.iterations = s.iterations
               /\ t.verifyRuns = s.verifyRuns /\ t.streak = s.streak
BY DEF States

LEMMA SetStreak ==
    ASSUME NEW s \in States, NEW x \in 0..StablePasses
    PROVE  LET t == [s EXCEPT !.streak = x]
           IN  /\ t \in States /\ t.streak = x /\ t.iterations = s.iterations
               /\ t.verifyRuns = s.verifyRuns /\ t.spec = s.spec
BY DEF States

LEMMA AddRun ==
    ASSUME NEW s \in States, s.verifyRuns < MaxVerifyRuns
    PROVE  LET t == [s EXCEPT !.verifyRuns = @ + 1]
           IN  /\ t \in States /\ t.verifyRuns = s.verifyRuns + 1
               /\ t.iterations = s.iterations /\ t.streak = s.streak /\ t.spec = s.spec
BY LimitAssumption DEF States

LEMMA AddIteration ==
    ASSUME NEW s \in States, s.iterations < MaxIterations
    PROVE  LET t == [s EXCEPT !.iterations = @ + 1]
           IN  /\ t \in States /\ t.iterations = s.iterations + 1
               /\ t.verifyRuns = s.verifyRuns /\ t.streak = s.streak /\ t.spec = s.spec
BY LimitAssumption DEF States

LEMMA AddRecovery ==
    ASSUME NEW s \in States, s.recoveries < MaxNoProgressRecoveries
    PROVE  LET t == [s EXCEPT !.recoveries = @ + 1]
           IN  /\ t \in States /\ t.iterations = s.iterations
               /\ t.verifyRuns = s.verifyRuns /\ t.streak = s.streak /\ t.spec = s.spec
BY LimitAssumption DEF States

LEMMA CreatedState == Created \in States /\ Created.verifyRuns = 0
BY LimitAssumption DEF Created, States

-----------------------------------------------------------------------------
(* Before it verifies, a call is for the pre-check; and it edits only when *)
(* an iteration is left.                                                   *)
Early == {"idle", "scanned", "marking", "reload", "lock", "begin", "analyse", "approve", "precheck"}

Room ==
    \A p \in Process :
        /\ pc[p] \in Early => at[p] = "precheck"
        /\ pc[p] = "edit" => mem[p].iterations < MaxIterations
        /\ pc[p] \in {"control", "paused"} /\ at[p] # "precheck" => mem[p].iterations < MaxIterations

(* The types, with what keeps the iterations in their limit.               *)
Typed == TypeOK /\ Room

LEMMA InitTyped == Init => Typed
<1> SUFFICES ASSUME Init PROVE Typed
  OBVIOUS
<1>1. pc \in [Process -> Positions] /\ at \in [Process -> Parts]
  BY DEF Init, Positions, Parts
<1>2. mem \in [Process -> States] /\ disk \in States \union {NoLoop}
  BY CreatedState DEF Init
<1>3. tries \in [Process -> Nat] /\ passes \in 0..StablePasses /\ ran \in Nat
  BY LimitAssumption DEF Init
<1>4. checks \subseteq {"verified", "acceptance", "code"}
  BY DEF Init
<1>5. \A p \in Process : owner # p /\ pc[p] = "idle" /\ at[p] = "precheck"
  BY NobodyAssumption DEF Init
<1>6. whole \in [Process -> BOOLEAN] /\ resumed \in [Process -> BOOLEAN] /\ stale \in BOOLEAN
      /\ owner \in Process \union {Nobody}
  BY DEF Init
<1>7. TypeOK
  BY <1>1, <1>2, <1>3, <1>4, <1>5, <1>6 DEF TypeOK
<1>8. Room
  BY <1>5 DEF Room
<1>. QED  BY <1>7, <1>8 DEF Typed

USE DEF Goto, Save, Keep, local, history, counts

LEMMA TypedRecovery ==
    ASSUME Typed, NEW p \in Process,
           Start(p) \/ Resume(p) \/ Scan(p) \/ Recovery(p)
    PROVE  Typed'
<1>1. CASE Start(p)
  BY <1>1 DEF Start, Call, Typed, TypeOK, Room, Positions, Parts, Early
<1>2. CASE Resume(p)
  BY <1>2 DEF Resume, Load, Call, Typed, TypeOK, Room, Positions, Parts, Early
<1>3. CASE Scan(p)
  BY <1>3 DEF Scan, Call, Typed, TypeOK, Room, Positions, Parts, Early
<1>4. CASE Reload(p)
  BY <1>4 DEF Reload, Load, Typed, TypeOK, Room, Positions, Parts, Early
<1>5. CASE Look(p)
  BY <1>5 DEF Look, Typed, TypeOK, Room, Positions, Parts, Early
<1>6. CASE LookAway(p)
  BY <1>6, CreatedState DEF LookAway, Forget, Typed, TypeOK, Room, Positions, Parts, Early
<1>7. CASE Mark(p)
  <2>1. [mem[p] EXCEPT !.status = "interrupted"] \in States
    BY SetStatus DEF Typed, TypeOK, Status, Final
  <2>. QED  BY <1>7, <2>1 DEF Mark, Typed, TypeOK, Room, Positions, Parts, Early
<1>. QED  BY <1>1, <1>2, <1>3, <1>4, <1>5, <1>6, <1>7 DEF Recovery

(* A return with a result, of a call that holds the leases.                *)
LEMMA TypedFinish ==
    ASSUME Typed, NEW p \in Process, owner = p, NEW s \in Status, Finish(p, s),
           passes' \in 0..StablePasses, checks' \subseteq checks, ran' \in Nat, stale' = stale
    PROVE  Typed'
<1>1. [mem[p] EXCEPT !.status = s] \in States
  BY SetStatus DEF Typed, TypeOK
<1>. QED  BY <1>1 DEF Finish, Typed, TypeOK, Room, Positions, Parts, Early

LEMMA TypedEnds ==
    ASSUME Typed, NEW p \in Process, owner = p, NEW S \in SUBSET Status, Ends(p, S)
    PROVE  Typed'
<1>1. PICK s \in S : Finish(p, s)
  BY DEF Ends
<1>2. passes' \in 0..StablePasses /\ checks' \subseteq checks /\ ran' \in Nat /\ stale' = stale
  BY DEF Ends, Typed, TypeOK
<1>. QED  BY <1>1, <1>2, TypedFinish

LEMMA TypedOpening ==
    ASSUME Typed, NEW p \in Process, Opening(p) \/ Unpause(p) \/ PauseEnds(p)
    PROVE  Typed'
<1>1. CASE Lock(p)
  BY <1>1, NobodyAssumption DEF Lock, Typed, TypeOK, Room, Positions, Parts, Early
<1>2. CASE LockBusy(p)
  BY <1>2, CreatedState DEF LockBusy, Forget, Typed, TypeOK, Room, Positions, Parts, Early
<1>3. CASE Begin(p)
  <2>1. [mem[p] EXCEPT !.status = "running"] \in States
        /\ [mem[p] EXCEPT !.status = "running"].iterations = mem[p].iterations
    BY ZenonT(40), SetStatus DEF Typed, TypeOK, Status, Final
  <2>. QED  BY <1>3, <2>1 DEF Begin, Typed, TypeOK, Room, Positions, Parts, Early
<1>4. CASE Analyse(p)
  <2>1. [mem[p] EXCEPT !.spec = "made"] \in States
    BY SetSpec DEF Typed, TypeOK
  <2>. QED  BY <1>4, <2>1 DEF Analyse, Typed, TypeOK, Room, Positions, Parts, Early
<1>5. CASE AnalyseEnds(p)
  <2>1. owner = p
    BY <1>5 DEF AnalyseEnds, Typed, TypeOK
  <2>. QED  BY <1>5, <2>1, TypedEnds DEF AnalyseEnds, Aborted, Status, Final
<1>6. CASE GoOn(p)
  BY <1>6 DEF GoOn, Typed, TypeOK, Room, Positions, Parts, Early
<1>7. CASE Approve(p)
  <2>1. [mem[p] EXCEPT !.spec = "approved"] \in States
    BY SetSpec DEF Typed, TypeOK
  <2>. QED  BY <1>7, <2>1 DEF Approve, Typed, TypeOK, Room, Positions, Parts, Early
<1>8. CASE Pending(p)
  <2>1. owner = p
    BY <1>8 DEF Pending, Typed, TypeOK
  <2>. QED  BY <1>8, <2>1, TypedEnds DEF Pending, Aborted, Status, Final
<1>9. CASE ApproveEnds(p)
  <2>1. owner = p
    BY <1>9 DEF ApproveEnds, Typed, TypeOK
  <2>. QED  BY <1>9, <2>1, TypedEnds DEF ApproveEnds, Aborted, Status, Final
<1>10. CASE Precheck(p)
  BY <1>10 DEF Precheck, Typed, TypeOK, Room, Positions, Parts, Early
<1>11. CASE PrecheckEnds(p)
  <2>1. owner = p
    BY <1>11 DEF PrecheckEnds, Typed, TypeOK
  <2>. QED  BY <1>11, <2>1, TypedEnds DEF PrecheckEnds, Aborted, Status, Final
<1>12. CASE Control(p)
  <2>1. [mem[p] EXCEPT !.status = "running"] \in States
        /\ [mem[p] EXCEPT !.status = "running"].iterations = mem[p].iterations
    BY SetStatus DEF Typed, TypeOK, Status, Final
  <2>. QED  BY <1>12, <2>1 DEF Control, Typed, TypeOK, Room, Positions, Parts, Early
<1>13. CASE Pause(p)
  <2>1. [mem[p] EXCEPT !.status = "paused"] \in States
        /\ [mem[p] EXCEPT !.status = "paused"].iterations = mem[p].iterations
    BY ZenonT(40), SetStatus DEF Typed, TypeOK, Status, Final
  <2>. QED  BY <1>13, <2>1 DEF Pause, Typed, TypeOK, Room, Positions, Parts, Early
<1>14. CASE Unpause(p)
  BY <1>14 DEF Unpause, Typed, TypeOK, Room, Positions, Parts, Early
<1>15. CASE PauseEnds(p)
  <2>1. owner = p
    BY <1>15 DEF PauseEnds, Typed, TypeOK
  <2>. QED  BY <1>15, <2>1, TypedEnds DEF PauseEnds, Aborted, Status, Final
<1>. QED
  BY <1>1, <1>2, <1>3, <1>4, <1>5, <1>6, <1>7, <1>8, <1>9, <1>10, <1>11, <1>12, <1>13, <1>14, <1>15 DEF Opening

LEMMA TypedVerifying ==
    ASSUME Typed, NEW p \in Process, Verifying(p)
    PROVE  Typed'
<1>1. CASE SkipStage(p)
  BY <1>1 DEF SkipStage, Typed, TypeOK, Room, Positions, Parts, Early
<1>2. CASE Charge(p)
  <2>1. [mem[p] EXCEPT !.verifyRuns = @ + 1] \in States
    BY <1>2, AddRun DEF Charge, Typed, TypeOK
  <2>. QED  BY <1>2, <2>1 DEF Charge, Typed, TypeOK, Room, Positions, Parts, Early
<1>3. CASE ChargeEnds(p)
  <2>1. owner = p
    BY <1>3 DEF ChargeEnds, Typed, TypeOK
  <2>. QED  BY <1>3, <2>1, TypedEnds DEF ChargeEnds, Aborted, Status, Final
<1>4. CASE StagePasses(p)
  <2> DEFINE streak == IF mem[p].streak < StablePasses THEN mem[p].streak + 1 ELSE StablePasses
  <2>1. streak \in 0..StablePasses
    BY StateFields, LimitAssumption DEF Typed, TypeOK
  <2>2. [mem[p] EXCEPT !.streak = streak] \in States
    <3> HIDE DEF streak
    <3>. QED  BY <2>1, SetStreak DEF Typed, TypeOK
  <2>3. passes' \in 0..StablePasses
    BY <1>4, LimitAssumption DEF StagePasses, Typed, TypeOK
  <2>. QED  BY <1>4, <2>1, <2>2, <2>3 DEF StagePasses, Typed, TypeOK, Room, Positions, Parts, Early
<1>5. CASE StageRetries(p)
  BY <1>5 DEF StageRetries, Typed, TypeOK, Room, Positions, Parts, Early
<1>6. CASE StageFails(p)
  <2>1. [mem[p] EXCEPT !.streak = 0] \in States
    BY SetStreak, LimitAssumption DEF Typed, TypeOK
  <2>. QED  BY <1>6, <2>1, LimitAssumption DEF StageFails, Typed, TypeOK, Room, Positions, Parts, Early
<1>7. CASE StageEnds(p)
  <2>1. PICK s \in Status : Finish(p, s)
    BY <1>7 DEF StageEnds, Aborted, Status, Final
  <2>2. owner = p /\ passes' \in 0..StablePasses /\ checks' \subseteq checks /\ ran' \in Nat /\ stale' = stale
    BY <1>7 DEF StageEnds, Typed, TypeOK
  <2>. QED  BY <2>1, <2>2, TypedFinish
<1>8. CASE Gates(p)
  BY <1>8 DEF Gates, ToReview, Typed, TypeOK, Room, Positions, Parts, Early
<1>9. CASE Red(p)
  BY <1>9 DEF Red, After, Typed, TypeOK, Room, Positions, Parts, Early
<1>10. CASE RollBack(p)
  BY <1>10, LimitAssumption DEF RollBack, Changed, Typed, TypeOK, Room, Positions, Parts, Early
<1>11. CASE Accept(p)
  BY <1>11 DEF Accept, ToReview, Typed, TypeOK, Room, Positions, Parts, Early
<1>12. CASE Review(p)
  BY <1>12 DEF Review, Typed, TypeOK, Room, Positions, Parts, Early
<1>13. CASE GateFails(p)
  BY <1>13 DEF GateFails, After, Typed, TypeOK, Room, Positions, Parts, Early
<1>14. CASE GateEnds(p)
  <2>1. owner = p
    BY <1>14 DEF GateEnds, Typed, TypeOK
  <2>. QED  BY <1>14, <2>1, TypedEnds DEF GateEnds, Aborted, Status, Final
<1>15. CASE Passes(p)
  <2>1. owner = p
    BY <1>15 DEF Passes, Typed, TypeOK
  <2>. QED  BY <1>15, <2>1, TypedEnds DEF Passes, Aborted, Status, Final
<1>. QED
  BY <1>1, <1>2, <1>3, <1>4, <1>5, <1>6, <1>7, <1>8, <1>9, <1>10, <1>11, <1>12, <1>13, <1>14, <1>15 DEF Verifying

LEMMA TypedIterating ==
    ASSUME Typed, NEW p \in Process, Iterating(p) \/ Release(p) \/ Crash(p)
    PROVE  Typed'
<1>1. CASE Top(p)
  BY <1>1 DEF Top, Typed, TypeOK, Room, Positions, Parts, Early
<1>2. CASE TopEnds(p)
  <2>1. owner = p
    BY <1>2 DEF TopEnds, Typed, TypeOK
  <2>2. Ends(p, Aborted \union {"budget"}) \/ Ends(p, {"exhausted"})
    BY <1>2 DEF TopEnds
  <2>. QED  BY <2>1, <2>2, TypedEnds DEF Aborted, Status, Final
<1>3. CASE Edit(p)
  <2>1. [mem[p] EXCEPT !.iterations = @ + 1] \in States
    BY <1>3, AddIteration DEF Edit, Typed, TypeOK, Room
  <2>. QED  BY <1>3, <2>1, LimitAssumption DEF Edit, Changed, Typed, TypeOK, Room, Positions, Parts, Early
<1>4. CASE EditRetries(p)
  BY <1>4, LimitAssumption DEF EditRetries, Changed, Typed, TypeOK, Room, Positions, Parts, Early
<1>5. CASE EditEnds(p)
  <2>1. PICK s \in Status : Finish(p, s)
    BY <1>5 DEF EditEnds, Aborted, Status, Final
  <2>2. owner = p /\ passes' \in 0..StablePasses /\ checks' \subseteq checks /\ ran' \in Nat /\ stale' = stale
    BY <1>5, LimitAssumption DEF EditEnds, Changed, Typed, TypeOK
  <2>. QED  BY <2>1, <2>2, TypedFinish
<1>6. CASE EditSpends(p)
  <2> DEFINE counted == [mem[p] EXCEPT !.iterations = @ + 1]
  <2>1. counted \in States
    BY <1>6, AddIteration DEF EditSpends, Typed, TypeOK, Room
  <2>2. [counted EXCEPT !.status = "budget"] \in States
    BY <2>1, SetStatus DEF Status, Final
  <2>. QED  BY <1>6, <2>2, LimitAssumption DEF EditSpends, Changed, Typed, TypeOK, Room, Positions, Parts, Early
<1>7. CASE Progress(p)
  BY <1>7 DEF Progress, Typed, TypeOK, Room, Positions, Parts, Early
<1>8. CASE Recover(p)
  <2>1. [mem[p] EXCEPT !.recoveries = @ + 1] \in States
    BY <1>8, AddRecovery DEF Recover, Typed, TypeOK
  <2>. QED  BY <1>8, <2>1 DEF Recover, Typed, TypeOK, Room, Positions, Parts, Early
<1>9. CASE GuardEnds(p)
  <2>1. owner = p
    BY <1>9 DEF GuardEnds, Typed, TypeOK
  <2>. QED  BY <1>9, <2>1, TypedEnds DEF GuardEnds, Aborted, Status, Final
<1>10. CASE Release(p)
  BY <1>10, CreatedState, NobodyAssumption DEF Release, Forget, Typed, TypeOK, Room, Positions, Parts, Early
<1>11. CASE Crash(p)
  <2>1. passes' \in 0..StablePasses /\ checks' \subseteq checks /\ ran' \in Nat
    BY <1>11, LimitAssumption DEF Crash, Changed, Typed, TypeOK
  <2>2. owner' = IF owner = p THEN Nobody ELSE owner
    BY <1>11 DEF Crash
  <2>. QED  BY <1>11, <2>1, <2>2, CreatedState, NobodyAssumption
           DEF Crash, Forget, Typed, TypeOK, Room, Positions, Parts, Early
<1>. QED
  BY <1>1, <1>2, <1>3, <1>4, <1>5, <1>6, <1>7, <1>8, <1>9, <1>10, <1>11 DEF Iterating

LEMMA TypedStep == Typed /\ [Next]_vars => Typed'
<1> SUFFICES ASSUME Typed, [Next]_vars PROVE Typed'
  OBVIOUS
<1>1. CASE UNCHANGED vars
  BY <1>1 DEF vars, Typed, TypeOK, Room
<1>2. ASSUME NEW p \in Process,
             Start(p) \/ Resume(p) \/ Scan(p) \/ Step(p) \/ Unpause(p) \/ PauseEnds(p) \/ Crash(p)
      PROVE  Typed'
  BY <1>2, TypedRecovery, TypedOpening, TypedVerifying, TypedIterating DEF Step
<1>. QED  BY <1>1, <1>2 DEF Next

(* Types, owners and the limits of a checkpoint's counters hold always.    *)
THEOREM TypeCorrect == Spec => []TypeOK
<1>1. Spec => []Typed
  BY InitTyped, TypedStep, PTL DEF Spec
<1>2. Typed => TypeOK
  BY DEF Typed
<1>. QED  BY <1>1, <1>2, PTL

(* What a call does leaves the other calls where they are, and only the    *)
(* owner of the Loop changes its workspace or ends its reviews.            *)
LEMMA Frame ==
    ASSUME Typed, NEW p \in Process,
           Start(p) \/ Resume(p) \/ Scan(p) \/ Step(p) \/ Unpause(p) \/ PauseEnds(p) \/ Crash(p)
    PROVE  /\ \A q \in Process \ {p} : pc'[q] = pc[q] /\ mem'[q] = mem[q]
           /\ owner = p \/ checks' = checks
<1>1. CASE Start(p)  BY <1>1 DEF Start, Call, Typed, TypeOK
<1>2. CASE Resume(p)  BY <1>2 DEF Resume, Load, Call, Typed, TypeOK
<1>3. CASE Scan(p)  BY <1>3 DEF Scan, Call, Typed, TypeOK
<1>4. CASE Reload(p)  BY <1>4 DEF Reload, Load, Typed, TypeOK
<1>5. CASE Look(p)  BY <1>5 DEF Look, Typed, TypeOK
<1>6. CASE LookAway(p)  BY <1>6 DEF LookAway, Forget, Typed, TypeOK
<1>7. CASE Mark(p)  BY <1>7 DEF Mark, Typed, TypeOK
<1>8. CASE Lock(p)  BY <1>8 DEF Lock, Typed, TypeOK
<1>9. CASE LockBusy(p)  BY <1>9 DEF LockBusy, Forget, Typed, TypeOK
<1>10. CASE Begin(p)  BY <1>10 DEF Begin, Typed, TypeOK
<1>11. CASE Analyse(p)  BY <1>11 DEF Analyse, Typed, TypeOK
<1>12. CASE AnalyseEnds(p)  BY <1>12 DEF AnalyseEnds, Ends, Finish, Typed, TypeOK
<1>13. CASE GoOn(p)  BY <1>13 DEF GoOn, Typed, TypeOK
<1>14. CASE Approve(p)  BY <1>14 DEF Approve, Typed, TypeOK
<1>15. CASE Pending(p)  BY <1>15 DEF Pending, Ends, Finish, Typed, TypeOK
<1>16. CASE ApproveEnds(p)  BY <1>16 DEF ApproveEnds, Ends, Finish, Typed, TypeOK
<1>17. CASE Precheck(p)  BY <1>17 DEF Precheck, Typed, TypeOK
<1>18. CASE PrecheckEnds(p)  BY <1>18 DEF PrecheckEnds, Ends, Finish, Typed, TypeOK
<1>19. CASE Control(p)  BY <1>19 DEF Control, Typed, TypeOK
<1>20. CASE Pause(p)  BY <1>20 DEF Pause, Typed, TypeOK
<1>21. CASE Unpause(p)  BY <1>21 DEF Unpause, Typed, TypeOK
<1>22. CASE PauseEnds(p)  BY <1>22 DEF PauseEnds, Ends, Finish, Typed, TypeOK
<1>23. CASE SkipStage(p)  BY <1>23 DEF SkipStage, Typed, TypeOK
<1>24. CASE Charge(p)  BY <1>24 DEF Charge, Typed, TypeOK
<1>25. CASE ChargeEnds(p)  BY <1>25 DEF ChargeEnds, Ends, Finish, Typed, TypeOK
<1>26. CASE StagePasses(p)  BY <1>26 DEF StagePasses, Typed, TypeOK
<1>27. CASE StageRetries(p)  BY <1>27 DEF StageRetries, Typed, TypeOK
<1>28. CASE StageFails(p)  BY <1>28 DEF StageFails, Typed, TypeOK
<1>29. CASE StageEnds(p)  BY <1>29 DEF StageEnds, Finish, Typed, TypeOK
<1>30. CASE Gates(p)  BY <1>30 DEF Gates, Typed, TypeOK
<1>31. CASE Red(p)  BY <1>31 DEF Red, Typed, TypeOK
<1>32. CASE RollBack(p)  BY <1>32 DEF RollBack, Changed, Typed, TypeOK
<1>33. CASE Accept(p)  BY <1>33 DEF Accept, Typed, TypeOK
<1>34. CASE Review(p)  BY <1>34 DEF Review, Typed, TypeOK
<1>35. CASE GateFails(p)  BY <1>35 DEF GateFails, Typed, TypeOK
<1>36. CASE GateEnds(p)  BY <1>36 DEF GateEnds, Ends, Finish, Typed, TypeOK
<1>37. CASE Passes(p)  BY <1>37 DEF Passes, Ends, Finish, Typed, TypeOK
<1>38. CASE Top(p)  BY <1>38 DEF Top, Typed, TypeOK
<1>39. CASE TopEnds(p)  BY <1>39 DEF TopEnds, Ends, Finish, Typed, TypeOK
<1>40. CASE Edit(p)  BY <1>40 DEF Edit, Changed, Typed, TypeOK
<1>41. CASE EditRetries(p)  BY <1>41 DEF EditRetries, Changed, Typed, TypeOK
<1>42. CASE EditEnds(p)  BY <1>42 DEF EditEnds, Finish, Changed, Typed, TypeOK
<1>43. CASE EditSpends(p)  BY <1>43 DEF EditSpends, Changed, Typed, TypeOK
<1>44. CASE Progress(p)  BY <1>44 DEF Progress, Typed, TypeOK
<1>45. CASE Recover(p)  BY <1>45 DEF Recover, Typed, TypeOK
<1>46. CASE GuardEnds(p)  BY <1>46 DEF GuardEnds, Ends, Finish, Typed, TypeOK
<1>47. CASE Release(p)  BY <1>47 DEF Release, Forget, Typed, TypeOK
<1>48. CASE Crash(p)  BY <1>48 DEF Crash, Forget, Changed, Typed, TypeOK
<1>. QED
  BY <1>1, <1>2, <1>3, <1>4, <1>5, <1>6, <1>7, <1>8, <1>9, <1>10,
     <1>11, <1>12, <1>13, <1>14, <1>15, <1>16, <1>17, <1>18, <1>19,
     <1>20, <1>21, <1>22, <1>23, <1>24, <1>25, <1>26, <1>27, <1>28,
     <1>29, <1>30, <1>31, <1>32, <1>33, <1>34, <1>35, <1>36, <1>37,
     <1>38, <1>39, <1>40, <1>41, <1>42, <1>43, <1>44, <1>45, <1>46,
     <1>47, <1>48
     DEF Step, Recovery, Opening, Verifying, Iterating

-----------------------------------------------------------------------------
(* Where the requirements have their approval.                             *)
Working == {"precheck", "control", "paused", "verify", "stage", "verified", "accept", "review",
            "passing", "top", "edit", "guard"}

(* What a call knows at each of its positions: it is the argument why a    *)
(* result "passed" is sound.                                               *)
CheckedAt(p) ==
    /\ pc[p] \in Working => Approved(mem[p])
    /\ pc[p] = "verified" /\ Green(p) => "verified" \in checks
    /\ pc[p] \in {"accept", "review", "passing"} => "verified" \in checks
    /\ pc[p] \in {"review", "passing"} /\ Mode # "quick" => "acceptance" \in checks
    /\ pc[p] = "passing" /\ CodeReview => "code" \in checks
    /\ pc[p] = "ended" /\ mem[p].status = "passed" => Needed \subseteq checks /\ Approved(mem[p])

Checked == \A p \in Process : CheckedAt(p)

(* A result that is not "passed" owes nothing.                             *)
LEMMA CheckedFinish ==
    ASSUME Typed, NEW p \in Process, NEW s \in Status \ {"passed"}, Finish(p, s)
    PROVE  CheckedAt(p)'
<1>1. [mem[p] EXCEPT !.status = s].status = s
  BY SetStatus DEF Typed, TypeOK
<1>. QED  BY <1>1 DEF Finish, CheckedAt, Working, Typed, TypeOK

LEMMA CheckedEnds ==
    ASSUME Typed, NEW p \in Process, NEW S \in SUBSET (Status \ {"passed"}), Ends(p, S)
    PROVE  CheckedAt(p)'
BY CheckedFinish DEF Ends

LEMMA CheckedRecovery ==
    ASSUME Typed, NEW p \in Process, CheckedAt(p), Start(p) \/ Resume(p) \/ Scan(p) \/ Recovery(p)
    PROVE  CheckedAt(p)'
<1>1. CASE Start(p)
  BY <1>1 DEF Start, Call, CheckedAt, Working, Approved, Green, Typed, TypeOK
<1>2. CASE Resume(p)
  BY <1>2 DEF Resume, Load, CheckedAt, Working, Approved, Green, Typed, TypeOK
<1>3. CASE Scan(p)
  BY <1>3 DEF Scan, CheckedAt, Working, Approved, Green, Typed, TypeOK
<1>4. CASE Reload(p)
  BY <1>4 DEF Reload, Load, CheckedAt, Working, Approved, Green, Typed, TypeOK
<1>5. CASE Look(p)
  BY <1>5 DEF Look, CheckedAt, Working, Approved, Green, Typed, TypeOK
<1>6. CASE LookAway(p)
  BY <1>6 DEF LookAway, Forget, CheckedAt, Working, Approved, Green, Typed, TypeOK
<1>7. CASE Mark(p)
  BY <1>7 DEF Mark, CheckedAt, Working, Approved, Green, Typed, TypeOK
<1>. QED
  BY <1>1, <1>2, <1>3, <1>4, <1>5, <1>6, <1>7 DEF Recovery

LEMMA CheckedOpening ==
    ASSUME Typed, NEW p \in Process, CheckedAt(p), Opening(p) \/ Unpause(p) \/ PauseEnds(p)
    PROVE  CheckedAt(p)'
<1>1. CASE Lock(p)
  BY <1>1 DEF Lock, CheckedAt, Working, Approved, Green, Typed, TypeOK
<1>2. CASE LockBusy(p)
  BY <1>2 DEF LockBusy, Forget, CheckedAt, Working, Approved, Green, Typed, TypeOK
<1>3. CASE Begin(p)
  BY <1>3 DEF Begin, CheckedAt, Working, Approved, Green, Typed, TypeOK
<1>4. CASE Analyse(p)
  BY <1>4 DEF Analyse, CheckedAt, Working, Approved, Green, Typed, TypeOK
<1>5. CASE AnalyseEnds(p)
  BY <1>5, CheckedEnds DEF AnalyseEnds, Aborted, Status, Final
<1>6. CASE GoOn(p)
  BY <1>6 DEF GoOn, CheckedAt, Working, Approved, Green, Typed, TypeOK
<1>7. CASE Approve(p)
  <2>1. [mem[p] EXCEPT !.spec = "approved"].spec = "approved"
    BY SetSpec DEF Typed, TypeOK
  <2>. QED  BY <1>7, <2>1 DEF Approve, CheckedAt, Working, Approved, Green, Typed, TypeOK
<1>8. CASE Pending(p)
  BY <1>8, CheckedEnds DEF Pending, Aborted, Status, Final
<1>9. CASE ApproveEnds(p)
  BY <1>9, CheckedEnds DEF ApproveEnds, Aborted, Status, Final
<1>10. CASE Precheck(p)
  BY <1>10 DEF Precheck, CheckedAt, Working, Approved, Green, Typed, TypeOK
<1>11. CASE PrecheckEnds(p)
  BY <1>11, CheckedEnds DEF PrecheckEnds, Aborted, Status, Final
<1>12. CASE Control(p)
  <2>1. [mem[p] EXCEPT !.status = "running"].spec = mem[p].spec
    BY SetStatus, LimitAssumption DEF Typed, TypeOK, Status, Final
  <2>. QED  BY <1>12, <2>1 DEF Control, CheckedAt, Working, Approved, Green, Typed, TypeOK
<1>13. CASE Pause(p)
  <2>1. [mem[p] EXCEPT !.status = "paused"].spec = mem[p].spec
    BY SetStatus, LimitAssumption DEF Typed, TypeOK, Status, Final
  <2>. QED  BY <1>13, <2>1 DEF Pause, CheckedAt, Working, Approved, Green, Typed, TypeOK
<1>14. CASE Unpause(p)
  BY <1>14 DEF Unpause, CheckedAt, Working, Approved, Green, Typed, TypeOK
<1>15. CASE PauseEnds(p)
  BY <1>15, CheckedEnds DEF PauseEnds, Aborted, Status, Final
<1>. QED
  BY <1>1, <1>2, <1>3, <1>4, <1>5, <1>6, <1>7, <1>8, <1>9, <1>10,
     <1>11, <1>12, <1>13, <1>14, <1>15 DEF Opening

LEMMA CheckedVerifying ==
    ASSUME Typed, NEW p \in Process, CheckedAt(p), Verifying(p)
    PROVE  CheckedAt(p)'
<1>1. CASE SkipStage(p)
  BY <1>1 DEF SkipStage, CheckedAt, Working, Approved, Green, Typed, TypeOK
<1>2. CASE Charge(p)
  <2>1. [mem[p] EXCEPT !.verifyRuns = @ + 1].spec = mem[p].spec
    BY <1>2, AddRun DEF Charge, Typed, TypeOK
  <2>. QED  BY <1>2, <2>1 DEF Charge, CheckedAt, Working, Approved, Green, Typed, TypeOK
<1>3. CASE ChargeEnds(p)
  BY <1>3, CheckedEnds DEF ChargeEnds, Aborted, Status, Final
<1>4. CASE StagePasses(p)
  <2> DEFINE streak == IF mem[p].streak < StablePasses THEN mem[p].streak + 1 ELSE StablePasses
  <2>1. streak \in 0..StablePasses
    BY StateFields, LimitAssumption DEF Typed, TypeOK
  <2>2. [mem[p] EXCEPT !.streak = streak].spec = mem[p].spec
    <3> HIDE DEF streak
    <3>. QED  BY <2>1, SetStreak DEF Typed, TypeOK
  <2>. QED  BY <1>4, <2>2 DEF StagePasses, CheckedAt, Working, Approved, Green, Typed, TypeOK
<1>5. CASE StageRetries(p)
  BY <1>5 DEF StageRetries, CheckedAt, Working, Approved, Green, Typed, TypeOK
<1>6. CASE StageFails(p)
  <2>1. LET red == [mem[p] EXCEPT !.streak = 0]
        IN  red.spec = mem[p].spec /\ red.streak = 0
    BY SetStreak, LimitAssumption DEF Typed, TypeOK
  <2>. QED  BY <1>6, <2>1, LimitAssumption DEF StageFails, CheckedAt, Working, Approved, Green, Typed, TypeOK
<1>7. CASE StageEnds(p)
  BY <1>7, CheckedFinish DEF StageEnds, Aborted, Status, Final
<1>8. CASE Gates(p)
  BY <1>8 DEF Gates, ToReview, CheckedAt, Working, Approved, Green, Typed, TypeOK
<1>9. CASE Red(p)
  BY <1>9 DEF Red, After, CheckedAt, Working, Approved, Green, Typed, TypeOK
<1>10. CASE RollBack(p)
  BY <1>10 DEF RollBack, Changed, CheckedAt, Working, Approved, Green, Typed, TypeOK
<1>11. CASE Accept(p)
  BY <1>11 DEF Accept, ToReview, CheckedAt, Working, Approved, Green, Typed, TypeOK
<1>12. CASE Review(p)
  BY <1>12 DEF Review, CheckedAt, Working, Approved, Green, Typed, TypeOK
<1>13. CASE GateFails(p)
  BY <1>13 DEF GateFails, After, CheckedAt, Working, Approved, Green, Typed, TypeOK
<1>14. CASE GateEnds(p)
  BY <1>14, CheckedEnds DEF GateEnds, Aborted, Status, Final
<1>15. CASE Passes(p)
  <2>1. Finish(p, "passed") /\ checks' = checks /\ pc[p] = "passing"
    BY <1>15 DEF Passes, Ends
  <2>2. [mem[p] EXCEPT !.status = "passed"].spec = mem[p].spec
    BY SetStatus DEF Typed, TypeOK, Status, Final
  <2>3. Needed \subseteq checks
    BY <2>1 DEF CheckedAt, Needed
  <2>. QED  BY <2>1, <2>2, <2>3 DEF Finish, Needed, CheckedAt, Working, Approved, Green, Typed, TypeOK
<1>. QED
  BY <1>1, <1>2, <1>3, <1>4, <1>5, <1>6, <1>7, <1>8, <1>9, <1>10,
     <1>11, <1>12, <1>13, <1>14, <1>15 DEF Verifying

LEMMA CheckedIterating ==
    ASSUME Typed, NEW p \in Process, CheckedAt(p), Iterating(p) \/ Release(p) \/ Crash(p)
    PROVE  CheckedAt(p)'
<1>1. CASE Top(p)
  BY <1>1 DEF Top, CheckedAt, Working, Approved, Green, Typed, TypeOK
<1>2. CASE TopEnds(p)
  <2>1. Ends(p, Aborted \union {"budget"}) \/ Ends(p, {"exhausted"})
    BY <1>2 DEF TopEnds
  <2>. QED  BY <2>1, CheckedEnds DEF Aborted, Status, Final
<1>3. CASE Edit(p)
  <2>1. [mem[p] EXCEPT !.iterations = @ + 1].spec = mem[p].spec
    BY <1>3, AddIteration DEF Edit, Typed, TypeOK, Room
  <2>. QED  BY <1>3, <2>1 DEF Edit, Changed, CheckedAt, Working, Approved, Green, Typed, TypeOK
<1>4. CASE EditRetries(p)
  BY <1>4 DEF EditRetries, Changed, CheckedAt, Working, Approved, Green, Typed, TypeOK
<1>5. CASE EditEnds(p)
  BY <1>5, CheckedFinish DEF EditEnds, Aborted, Status, Final
<1>6. CASE EditSpends(p)
  <2> DEFINE counted == [mem[p] EXCEPT !.iterations = @ + 1]
  <2>1. counted \in States
    BY <1>6, AddIteration DEF EditSpends, Typed, TypeOK, Room
  <2>2. [counted EXCEPT !.status = "budget"].status = "budget"
    BY <2>1, SetStatus DEF Status, Final
  <2>. QED  BY <1>6, <2>2 DEF EditSpends, CheckedAt, Working, Approved, Green, Typed, TypeOK
<1>7. CASE Progress(p)
  BY <1>7 DEF Progress, CheckedAt, Working, Approved, Green, Typed, TypeOK
<1>8. CASE Recover(p)
  <2>1. [mem[p] EXCEPT !.recoveries = @ + 1].spec = mem[p].spec
    BY <1>8, AddRecovery DEF Recover, Typed, TypeOK
  <2>. QED  BY <1>8, <2>1 DEF Recover, CheckedAt, Working, Approved, Green, Typed, TypeOK
<1>9. CASE GuardEnds(p)
  BY <1>9, CheckedEnds DEF GuardEnds, Aborted, Status, Final
<1>10. CASE Release(p)
  BY <1>10 DEF Release, Forget, CheckedAt, Working, Approved, Green, Typed, TypeOK
<1>11. CASE Crash(p)
  BY <1>11 DEF Crash, Forget, CheckedAt, Working, Approved, Green, Typed, TypeOK
<1>. QED
  BY <1>1, <1>2, <1>3, <1>4, <1>5, <1>6, <1>7, <1>8, <1>9, <1>10, <1>11 DEF Iterating

LEMMA CheckedStep == Typed /\ Checked /\ [Next]_vars => Checked'
<1> SUFFICES ASSUME Typed, Checked, [Next]_vars PROVE Checked'
  OBVIOUS
<1>1. CASE UNCHANGED vars
  BY <1>1 DEF vars, Checked, CheckedAt, Approved, Green
<1>2. ASSUME NEW p \in Process,
             Start(p) \/ Resume(p) \/ Scan(p) \/ Step(p) \/ Unpause(p) \/ PauseEnds(p) \/ Crash(p)
      PROVE  Checked'
  <2>1. CheckedAt(p)'
    BY <1>2, CheckedRecovery, CheckedOpening, CheckedVerifying, CheckedIterating DEF Checked, Step
  <2>2. ASSUME NEW q \in Process \ {p} PROVE CheckedAt(q)'
    <3>1. pc'[q] = pc[q] /\ mem'[q] = mem[q] /\ (owner = p \/ checks' = checks)
      BY <1>2, Frame
    <3>2. CASE owner = p
      BY <3>1, <3>2 DEF CheckedAt, Working, Typed, TypeOK
    <3>3. CASE checks' = checks
      BY <3>1, <3>3 DEF Checked, CheckedAt, Approved, Green
    <3>. QED  BY <3>1, <3>2, <3>3
  <2>. QED  BY <2>1, <2>2 DEF Checked
<1>. QED  BY <1>1, <1>2 DEF Next

(* A result "passed" rests on a whole green verification, on the gates     *)
(* that the Loop asks for and on an approval, all of the present workspace,*)
(* for any number of processes, crashes and limits (completionGatesPass).  *)
THEOREM PassIsSound == Spec => []PassedSound
<1>1. Init => Typed /\ Checked
  BY InitTyped DEF Init, Checked, CheckedAt, Working
<1>2. Typed /\ Checked /\ [Next]_vars => Typed' /\ Checked'
  BY TypedStep, CheckedStep
<1>3. Checked => PassedSound
  BY DEF Checked, CheckedAt, PassedSound
<1>. QED  BY <1>1, <1>2, <1>3, PTL DEF Spec

-----------------------------------------------------------------------------
(* The account of the verifications: as long as nobody went on from an     *)
(* outdated checkpoint, the checkpoint has charged every command that ran, *)
(* the one that runs included, and the owner knows the charge.             *)
Charged ==
    ~stale =>
        /\ disk = NoLoop =>
             /\ ran = 0
             /\ \A p \in Process : mem[p] = Created /\ pc[p] \in {"idle", "lock", "begin"}
        /\ disk # NoLoop =>
             /\ ran <= disk.verifyRuns
             /\ \A p \in Process : owner = p => mem[p].verifyRuns = disk.verifyRuns
             /\ \A p \in Process : pc[p] = "stage" => ran < disk.verifyRuns

(* A step of the owner that charges nothing, and may end a command.        *)
LEMMA ChargedByOwner ==
    ASSUME Typed, Charged, NEW p \in Process, owner = p, pc[p] # "begin",
           NEW m \in States, m.verifyRuns = mem[p].verifyRuns,
           mem' = [mem EXCEPT ![p] = m], disk' \in {disk, m},
           NEW l \in Positions \ {"stage"}, pc' = [pc EXCEPT ![p] = l],
           owner' = owner, stale' = stale,
           ran' = ran \/ (pc[p] = "stage" /\ ran' = ran + 1)
    PROVE  Charged'
<1> SUFFICES ASSUME ~stale PROVE Charged'
  BY DEF Charged
<1>1. disk \in States /\ disk # NoLoop
  BY DEF Charged, Typed, TypeOK
<1>2. disk' \in States /\ disk' # NoLoop /\ disk'.verifyRuns = disk.verifyRuns
  BY <1>1, NoLoopAssumption DEF Charged
<1>3. ran' <= disk.verifyRuns
  BY <1>1, StateFields, LimitAssumption DEF Charged, Typed, TypeOK
<1>4. mem'[p].verifyRuns = disk.verifyRuns
  BY <1>1 DEF Charged, Typed, TypeOK
<1>5. \A q \in Process : pc'[q] # "stage"
  BY DEF Typed, TypeOK
<1>. QED  BY <1>1, <1>2, <1>3, <1>4, <1>5 DEF Charged

LEMMA ChargedFinish ==
    ASSUME Typed, Charged, NEW p \in Process, owner = p, pc[p] # "begin", NEW s \in Status,
           Finish(p, s), stale' = stale, ran' = ran \/ (pc[p] = "stage" /\ ran' = ran + 1)
    PROVE  Charged'
<1> DEFINE m == [mem[p] EXCEPT !.status = s]
<1>1. m \in States /\ m.verifyRuns = mem[p].verifyRuns
  BY SetStatus DEF Typed, TypeOK
<1>2. /\ mem' = [mem EXCEPT ![p] = m] /\ disk' \in {disk, m}
      /\ pc' = [pc EXCEPT ![p] = "ended"] /\ owner' = owner
  BY DEF Finish
<1>. HIDE DEF m
<1>. QED  BY <1>1, <1>2, ChargedByOwner DEF Positions

LEMMA ChargedEnds ==
    ASSUME Typed, Charged, NEW p \in Process, owner = p, pc[p] # "begin",
           NEW S \in SUBSET Status, Ends(p, S)
    PROVE  Charged'
BY ChargedFinish DEF Ends

LEMMA ChargedRecovery ==
    ASSUME Typed, Charged, NEW p \in Process, Start(p) \/ Resume(p) \/ Scan(p) \/ Recovery(p)
    PROVE  Charged'
<1>1. CASE Start(p)
  BY <1>1 DEF Start, Call, Charged, Typed, TypeOK
<1>2. CASE Resume(p)
  BY <1>2 DEF Resume, Load, Charged, Typed, TypeOK
<1>3. CASE Scan(p)
  BY <1>3 DEF Scan, Charged, Typed, TypeOK
<1>4. CASE Reload(p)
  BY <1>4 DEF Reload, Load, Charged, Typed, TypeOK
<1>5. CASE Look(p)
  BY <1>5 DEF Look, Charged, Typed, TypeOK
<1>6. CASE LookAway(p)
  BY <1>6 DEF LookAway, Forget, Charged, Typed, TypeOK
<1>7. CASE Mark(p)
  <2> DEFINE m == [mem[p] EXCEPT !.status = "interrupted"]
  <2>1. m \in States /\ m.verifyRuns = mem[p].verifyRuns
    BY SetStatus DEF Typed, TypeOK, Status, Final
  <2>2. /\ mem' = [mem EXCEPT ![p] = m] /\ disk' = m /\ stale' = (stale \/ disk # mem[p])
        /\ owner # p /\ owner' = owner /\ pc[p] = "marking" /\ ran' = ran
        /\ pc' = [pc EXCEPT ![p] = "reload"]
    BY <1>7 DEF Mark, Typed, TypeOK
  <2>3. SUFFICES ASSUME ~stale, disk = mem[p] PROVE Charged'
    BY <2>2 DEF Charged
  <2>4. disk' # NoLoop /\ disk # NoLoop /\ disk'.verifyRuns = disk.verifyRuns
    BY <2>1, <2>2, <2>3, NoLoopAssumption DEF Charged
  <2>. HIDE DEF m
  <2>. QED  BY <2>2, <2>3, <2>4 DEF Charged, Typed, TypeOK
<1>. QED
  BY <1>1, <1>2, <1>3, <1>4, <1>5, <1>6, <1>7 DEF Recovery

LEMMA ChargedOpening ==
    ASSUME Typed, Charged, NEW p \in Process, Opening(p) \/ Unpause(p) \/ PauseEnds(p)
    PROVE  Charged'
<1>1. CASE Lock(p)
  <2>1. SUFFICES ASSUME ~stale, disk = NoLoop \/ disk = mem[p] PROVE Charged'
    BY <1>1 DEF Lock, Charged
  <2>. QED  BY <1>1, <2>1, NobodyAssumption DEF Lock, Charged, Typed, TypeOK
<1>2. CASE LockBusy(p)
  BY <1>2 DEF LockBusy, Forget, Charged, Typed, TypeOK
<1>3. CASE Begin(p)
  <2> DEFINE m == [mem[p] EXCEPT !.status = "running"]
  <2>1. m \in States /\ m.verifyRuns = mem[p].verifyRuns
    BY SetStatus DEF Typed, TypeOK, Status
  <2>2. /\ mem' = [mem EXCEPT ![p] = m] /\ disk' = m /\ stale' = stale
        /\ owner = p /\ owner' = owner /\ ran' = ran
    BY <1>3 DEF Begin, Typed, TypeOK
  <2>3. mem'[p] = m /\ \A q \in Process : pc'[q] # "stage"
    BY <1>3, <2>2 DEF Begin, Typed, TypeOK
  <2>4. SUFFICES ASSUME ~stale PROVE Charged'
    BY <2>2 DEF Charged
  <2>5. ran <= mem[p].verifyRuns
    BY <2>2, <2>4, CreatedState DEF Charged
  <2>6. disk' # NoLoop
    BY <2>1, <2>2, NoLoopAssumption
  <2>. HIDE DEF m
  <2>. QED  BY <2>1, <2>2, <2>3, <2>4, <2>5, <2>6 DEF Charged
<1>4. CASE Analyse(p)
  <2> DEFINE m == [mem[p] EXCEPT !.spec = "made"]
  <2>1. m \in States /\ m.verifyRuns = mem[p].verifyRuns
    BY <1>4, SetSpec DEF Analyse, Typed, TypeOK
  <2>2. /\ mem' = [mem EXCEPT ![p] = m] /\ disk' \in {disk, m} /\ stale' = stale
        /\ owner = p /\ owner' = owner /\ pc[p] # "begin"
        /\ ran' = ran \/ (pc[p] = "stage" /\ ran' = ran + 1)
    BY <1>4 DEF Analyse, Typed, TypeOK
  <2>3. PICK l \in Positions \ {"stage"} : pc' = [pc EXCEPT ![p] = l]
    BY <1>4 DEF Analyse, Positions, Typed, TypeOK
  <2>. HIDE DEF m
  <2>. QED  BY <2>1, <2>2, <2>3, ChargedByOwner
<1>5. CASE AnalyseEnds(p)
  <2>1. owner = p /\ pc[p] # "begin"
    BY <1>5 DEF AnalyseEnds, Typed, TypeOK
  <2>. QED  BY <1>5, <2>1, ChargedEnds DEF AnalyseEnds, Aborted, Status, Final
<1>6. CASE GoOn(p)
  <2> DEFINE m == mem[p]
  <2>1. m \in States /\ m.verifyRuns = mem[p].verifyRuns
    BY <1>6 DEF GoOn, Typed, TypeOK
  <2>2. /\ mem' = [mem EXCEPT ![p] = m] /\ disk' \in {disk, m} /\ stale' = stale
        /\ owner = p /\ owner' = owner /\ pc[p] # "begin"
        /\ ran' = ran \/ (pc[p] = "stage" /\ ran' = ran + 1)
    BY <1>6 DEF GoOn, Typed, TypeOK
  <2>3. PICK l \in Positions \ {"stage"} : pc' = [pc EXCEPT ![p] = l]
    BY <1>6 DEF GoOn, Positions, Typed, TypeOK
  <2>. HIDE DEF m
  <2>. QED  BY <2>1, <2>2, <2>3, ChargedByOwner
<1>7. CASE Approve(p)
  <2> DEFINE m == [mem[p] EXCEPT !.spec = "approved"]
  <2>1. m \in States /\ m.verifyRuns = mem[p].verifyRuns
    BY <1>7, SetSpec DEF Approve, Typed, TypeOK
  <2>2. /\ mem' = [mem EXCEPT ![p] = m] /\ disk' \in {disk, m} /\ stale' = stale
        /\ owner = p /\ owner' = owner /\ pc[p] # "begin"
        /\ ran' = ran \/ (pc[p] = "stage" /\ ran' = ran + 1)
    BY <1>7 DEF Approve, Typed, TypeOK
  <2>3. PICK l \in Positions \ {"stage"} : pc' = [pc EXCEPT ![p] = l]
    BY <1>7 DEF Approve, Positions, Typed, TypeOK
  <2>. HIDE DEF m
  <2>. QED  BY <2>1, <2>2, <2>3, ChargedByOwner
<1>8. CASE Pending(p)
  <2>1. owner = p /\ pc[p] # "begin"
    BY <1>8 DEF Pending, Typed, TypeOK
  <2>. QED  BY <1>8, <2>1, ChargedEnds DEF Pending, Aborted, Status, Final
<1>9. CASE ApproveEnds(p)
  <2>1. owner = p /\ pc[p] # "begin"
    BY <1>9 DEF ApproveEnds, Typed, TypeOK
  <2>. QED  BY <1>9, <2>1, ChargedEnds DEF ApproveEnds, Aborted, Status, Final
<1>10. CASE Precheck(p)
  <2> DEFINE m == mem[p]
  <2>1. m \in States /\ m.verifyRuns = mem[p].verifyRuns
    BY <1>10 DEF Precheck, Typed, TypeOK
  <2>2. /\ mem' = [mem EXCEPT ![p] = m] /\ disk' \in {disk, m} /\ stale' = stale
        /\ owner = p /\ owner' = owner /\ pc[p] # "begin"
        /\ ran' = ran \/ (pc[p] = "stage" /\ ran' = ran + 1)
    BY <1>10 DEF Precheck, Typed, TypeOK
  <2>3. PICK l \in Positions \ {"stage"} : pc' = [pc EXCEPT ![p] = l]
    BY <1>10 DEF Precheck, Positions, Typed, TypeOK
  <2>. HIDE DEF m
  <2>. QED  BY <2>1, <2>2, <2>3, ChargedByOwner
<1>11. CASE PrecheckEnds(p)
  <2>1. owner = p /\ pc[p] # "begin"
    BY <1>11 DEF PrecheckEnds, Typed, TypeOK
  <2>. QED  BY <1>11, <2>1, ChargedEnds DEF PrecheckEnds, Aborted, Status, Final
<1>12. CASE Control(p)
  <2> DEFINE m == [mem[p] EXCEPT !.status = "running"]
  <2>1. m \in States /\ m.verifyRuns = mem[p].verifyRuns
    BY ZenonT(40), <1>12, SetStatus DEF Control, Typed, TypeOK, Status, Final
  <2>2. /\ mem' = [mem EXCEPT ![p] = m] /\ disk' \in {disk, m} /\ stale' = stale
        /\ owner = p /\ owner' = owner /\ pc[p] # "begin"
        /\ ran' = ran \/ (pc[p] = "stage" /\ ran' = ran + 1)
    BY <1>12 DEF Control, Typed, TypeOK
  <2>3. PICK l \in Positions \ {"stage"} : pc' = [pc EXCEPT ![p] = l]
    BY <1>12 DEF Control, Positions, Typed, TypeOK
  <2>. HIDE DEF m
  <2>. QED  BY <2>1, <2>2, <2>3, ChargedByOwner
<1>13. CASE Pause(p)
  <2> DEFINE m == [mem[p] EXCEPT !.status = "paused"]
  <2>1. m \in States /\ m.verifyRuns = mem[p].verifyRuns
    BY ZenonT(40), <1>13, SetStatus DEF Pause, Typed, TypeOK, Status, Final
  <2>2. /\ mem' = [mem EXCEPT ![p] = m] /\ disk' \in {disk, m} /\ stale' = stale
        /\ owner = p /\ owner' = owner /\ pc[p] # "begin"
        /\ ran' = ran \/ (pc[p] = "stage" /\ ran' = ran + 1)
    BY <1>13 DEF Pause, Typed, TypeOK
  <2>3. PICK l \in Positions \ {"stage"} : pc' = [pc EXCEPT ![p] = l]
    BY <1>13 DEF Pause, Positions, Typed, TypeOK
  <2>. HIDE DEF m
  <2>. QED  BY <2>1, <2>2, <2>3, ChargedByOwner
<1>14. CASE Unpause(p)
  <2> DEFINE m == mem[p]
  <2>1. m \in States /\ m.verifyRuns = mem[p].verifyRuns
    BY <1>14 DEF Unpause, Typed, TypeOK
  <2>2. /\ mem' = [mem EXCEPT ![p] = m] /\ disk' \in {disk, m} /\ stale' = stale
        /\ owner = p /\ owner' = owner /\ pc[p] # "begin"
        /\ ran' = ran \/ (pc[p] = "stage" /\ ran' = ran + 1)
    BY <1>14 DEF Unpause, Typed, TypeOK
  <2>3. PICK l \in Positions \ {"stage"} : pc' = [pc EXCEPT ![p] = l]
    BY <1>14 DEF Unpause, Positions, Typed, TypeOK
  <2>. HIDE DEF m
  <2>. QED  BY <2>1, <2>2, <2>3, ChargedByOwner
<1>15. CASE PauseEnds(p)
  <2>1. owner = p /\ pc[p] # "begin"
    BY <1>15 DEF PauseEnds, Typed, TypeOK
  <2>. QED  BY <1>15, <2>1, ChargedEnds DEF PauseEnds, Aborted, Status, Final
<1>. QED
  BY <1>1, <1>2, <1>3, <1>4, <1>5, <1>6, <1>7, <1>8, <1>9, <1>10,
     <1>11, <1>12, <1>13, <1>14, <1>15 DEF Opening

LEMMA ChargedVerifying ==
    ASSUME Typed, Charged, NEW p \in Process, Verifying(p)
    PROVE  Charged'
<1>1. CASE SkipStage(p)
  BY <1>1 DEF SkipStage, Charged, Typed, TypeOK
<1>2. CASE Charge(p)
  <2> DEFINE m == [mem[p] EXCEPT !.verifyRuns = @ + 1]
  <2>1. m \in States /\ m.verifyRuns = mem[p].verifyRuns + 1
    BY <1>2, AddRun DEF Charge, Typed, TypeOK
  <2>2. /\ mem' = [mem EXCEPT ![p] = m] /\ disk' = m /\ stale' = stale
        /\ owner = p /\ owner' = owner /\ ran' = ran
        /\ pc[p] = "verify" /\ pc' = [pc EXCEPT ![p] = "stage"]
    BY <1>2 DEF Charge, Typed, TypeOK
  <2>3. SUFFICES ASSUME ~stale PROVE Charged'
    BY <2>2 DEF Charged
  <2>4. ran <= mem[p].verifyRuns /\ mem[p].verifyRuns \in Nat /\ ran \in Nat
    BY <2>2, <2>3, StateFields, LimitAssumption DEF Charged, Typed, TypeOK
  <2>5. disk' # NoLoop /\ mem'[p] = m
    BY <2>1, <2>2, NoLoopAssumption DEF Typed, TypeOK
  <2>. HIDE DEF m
  <2>. QED  BY <2>1, <2>2, <2>3, <2>4, <2>5 DEF Charged
<1>3. CASE ChargeEnds(p)
  <2>1. owner = p /\ pc[p] # "begin"
    BY <1>3 DEF ChargeEnds, Typed, TypeOK
  <2>. QED  BY <1>3, <2>1, ChargedEnds DEF ChargeEnds, Aborted, Status, Final
<1>4. CASE StagePasses(p)
  <2> DEFINE streak == IF mem[p].streak < StablePasses THEN mem[p].streak + 1 ELSE StablePasses
             m == [mem[p] EXCEPT !.streak = streak]
  <2>1. streak \in 0..StablePasses
    BY StateFields, LimitAssumption DEF Typed, TypeOK
  <2>2. m \in States /\ m.verifyRuns = mem[p].verifyRuns
    <3> HIDE DEF streak
    <3>. QED  BY <2>1, SetStreak DEF Typed, TypeOK
  <2>3. /\ mem' = [mem EXCEPT ![p] = m] /\ disk' \in {disk, m} /\ stale' = stale
        /\ owner = p /\ owner' = owner /\ pc[p] = "stage" /\ ran' = ran + 1
    BY <1>4 DEF StagePasses, Typed, TypeOK
  <2>4. pc' = [pc EXCEPT ![p] = IF streak < StablePasses THEN "verify" ELSE "verified"]
    BY <1>4 DEF StagePasses, Goto
  <2>. HIDE DEF m, streak
  <2>5. PICK l \in Positions \ {"stage"} : pc' = [pc EXCEPT ![p] = l]
    <3>1. CASE streak < StablePasses
      <4>1. pc' = [pc EXCEPT ![p] = "verify"]  BY <2>4, <3>1
      <4>. QED  BY <4>1 DEF Positions
    <3>2. CASE ~(streak < StablePasses)
      <4>1. pc' = [pc EXCEPT ![p] = "verified"]  BY <2>4, <3>2
      <4>. QED  BY <4>1 DEF Positions
    <3>. QED  BY <3>1, <3>2
  <2>. QED  BY <2>2, <2>3, <2>5, ChargedByOwner
<1>5. CASE StageRetries(p)
  <2> DEFINE m == mem[p]
  <2>1. m \in States /\ m.verifyRuns = mem[p].verifyRuns
    BY <1>5 DEF StageRetries, Typed, TypeOK
  <2>2. /\ mem' = [mem EXCEPT ![p] = m] /\ disk' \in {disk, m} /\ stale' = stale
        /\ owner = p /\ owner' = owner /\ pc[p] # "begin"
        /\ ran' = ran \/ (pc[p] = "stage" /\ ran' = ran + 1)
    BY <1>5 DEF StageRetries, Typed, TypeOK
  <2>3. PICK l \in Positions \ {"stage"} : pc' = [pc EXCEPT ![p] = l]
    BY <1>5 DEF StageRetries, Positions, Typed, TypeOK
  <2>. HIDE DEF m
  <2>. QED  BY <2>1, <2>2, <2>3, ChargedByOwner
<1>6. CASE StageFails(p)
  <2> DEFINE m == [mem[p] EXCEPT !.streak = 0]
  <2>1. m \in States /\ m.verifyRuns = mem[p].verifyRuns
    BY <1>6, SetStreak, LimitAssumption DEF StageFails, Typed, TypeOK
  <2>2. /\ mem' = [mem EXCEPT ![p] = m] /\ disk' \in {disk, m} /\ stale' = stale
        /\ owner = p /\ owner' = owner /\ pc[p] # "begin"
        /\ ran' = ran \/ (pc[p] = "stage" /\ ran' = ran + 1)
    BY <1>6 DEF StageFails, Typed, TypeOK
  <2>3. PICK l \in Positions \ {"stage"} : pc' = [pc EXCEPT ![p] = l]
    BY <1>6 DEF StageFails, Positions, Typed, TypeOK
  <2>. HIDE DEF m
  <2>. QED  BY <2>1, <2>2, <2>3, ChargedByOwner
<1>7. CASE StageEnds(p)
  <2>1. owner = p /\ pc[p] = "stage" /\ stale' = stale /\ ran' = ran + 1
    BY <1>7 DEF StageEnds, Typed, TypeOK
  <2>2. PICK s \in Status : Finish(p, s)
    BY <1>7 DEF StageEnds, Aborted, Status, Final
  <2>. QED  BY <2>1, <2>2, ChargedFinish
<1>8. CASE Gates(p)
  <2> DEFINE m == mem[p]
  <2>1. m \in States /\ m.verifyRuns = mem[p].verifyRuns
    BY <1>8 DEF Gates, Typed, TypeOK
  <2>2. /\ mem' = [mem EXCEPT ![p] = m] /\ disk' \in {disk, m} /\ stale' = stale
        /\ owner = p /\ owner' = owner /\ pc[p] # "begin"
        /\ ran' = ran \/ (pc[p] = "stage" /\ ran' = ran + 1)
    BY <1>8 DEF Gates, Typed, TypeOK, ToReview
  <2>3. PICK l \in Positions \ {"stage"} : pc' = [pc EXCEPT ![p] = l]
    BY <1>8 DEF Gates, Positions, ToReview, Typed, TypeOK
  <2>. HIDE DEF m
  <2>. QED  BY <2>1, <2>2, <2>3, ChargedByOwner
<1>9. CASE Red(p)
  <2> DEFINE m == mem[p]
  <2>1. m \in States /\ m.verifyRuns = mem[p].verifyRuns
    BY <1>9 DEF Red, Typed, TypeOK
  <2>2. /\ mem' = [mem EXCEPT ![p] = m] /\ disk' \in {disk, m} /\ stale' = stale
        /\ owner = p /\ owner' = owner /\ pc[p] # "begin"
        /\ ran' = ran \/ (pc[p] = "stage" /\ ran' = ran + 1)
    BY <1>9 DEF Red, Typed, TypeOK, After
  <2>3. PICK l \in Positions \ {"stage"} : pc' = [pc EXCEPT ![p] = l]
    BY <1>9 DEF Red, Positions, After, Typed, TypeOK
  <2>. HIDE DEF m
  <2>. QED  BY <2>1, <2>2, <2>3, ChargedByOwner
<1>10. CASE RollBack(p)
  <2> DEFINE m == mem[p]
  <2>1. m \in States /\ m.verifyRuns = mem[p].verifyRuns
    BY <1>10 DEF RollBack, Typed, TypeOK
  <2>2. /\ mem' = [mem EXCEPT ![p] = m] /\ disk' \in {disk, m} /\ stale' = stale
        /\ owner = p /\ owner' = owner /\ pc[p] # "begin"
        /\ ran' = ran \/ (pc[p] = "stage" /\ ran' = ran + 1)
    BY <1>10 DEF RollBack, Typed, TypeOK, Changed
  <2>3. PICK l \in Positions \ {"stage"} : pc' = [pc EXCEPT ![p] = l]
    BY <1>10 DEF RollBack, Positions, Changed, Typed, TypeOK
  <2>. HIDE DEF m
  <2>. QED  BY <2>1, <2>2, <2>3, ChargedByOwner
<1>11. CASE Accept(p)
  <2> DEFINE m == mem[p]
  <2>1. m \in States /\ m.verifyRuns = mem[p].verifyRuns
    BY <1>11 DEF Accept, Typed, TypeOK
  <2>2. /\ mem' = [mem EXCEPT ![p] = m] /\ disk' \in {disk, m} /\ stale' = stale
        /\ owner = p /\ owner' = owner /\ pc[p] # "begin"
        /\ ran' = ran \/ (pc[p] = "stage" /\ ran' = ran + 1)
    BY <1>11 DEF Accept, Typed, TypeOK, ToReview
  <2>3. PICK l \in Positions \ {"stage"} : pc' = [pc EXCEPT ![p] = l]
    BY <1>11 DEF Accept, Positions, ToReview, Typed, TypeOK
  <2>. HIDE DEF m
  <2>. QED  BY <2>1, <2>2, <2>3, ChargedByOwner
<1>12. CASE Review(p)
  <2> DEFINE m == mem[p]
  <2>1. m \in States /\ m.verifyRuns = mem[p].verifyRuns
    BY <1>12 DEF Review, Typed, TypeOK
  <2>2. /\ mem' = [mem EXCEPT ![p] = m] /\ disk' \in {disk, m} /\ stale' = stale
        /\ owner = p /\ owner' = owner /\ pc[p] # "begin"
        /\ ran' = ran \/ (pc[p] = "stage" /\ ran' = ran + 1)
    BY <1>12 DEF Review, Typed, TypeOK
  <2>3. PICK l \in Positions \ {"stage"} : pc' = [pc EXCEPT ![p] = l]
    BY <1>12 DEF Review, Positions, Typed, TypeOK
  <2>. HIDE DEF m
  <2>. QED  BY <2>1, <2>2, <2>3, ChargedByOwner
<1>13. CASE GateFails(p)
  <2> DEFINE m == mem[p]
  <2>1. m \in States /\ m.verifyRuns = mem[p].verifyRuns
    BY <1>13 DEF GateFails, Typed, TypeOK
  <2>2. /\ mem' = [mem EXCEPT ![p] = m] /\ disk' \in {disk, m} /\ stale' = stale
        /\ owner = p /\ owner' = owner /\ pc[p] # "begin"
        /\ ran' = ran \/ (pc[p] = "stage" /\ ran' = ran + 1)
    BY <1>13 DEF GateFails, Typed, TypeOK, After
  <2>3. PICK l \in Positions \ {"stage"} : pc' = [pc EXCEPT ![p] = l]
    BY <1>13 DEF GateFails, Positions, After, Typed, TypeOK
  <2>. HIDE DEF m
  <2>. QED  BY <2>1, <2>2, <2>3, ChargedByOwner
<1>14. CASE GateEnds(p)
  <2>1. owner = p /\ pc[p] # "begin"
    BY <1>14 DEF GateEnds, Typed, TypeOK
  <2>. QED  BY <1>14, <2>1, ChargedEnds DEF GateEnds, Aborted, Status, Final
<1>15. CASE Passes(p)
  <2>1. owner = p /\ pc[p] # "begin"
    BY <1>15 DEF Passes, Typed, TypeOK
  <2>. QED  BY <1>15, <2>1, ChargedEnds DEF Passes, Aborted, Status, Final
<1>. QED
  BY <1>1, <1>2, <1>3, <1>4, <1>5, <1>6, <1>7, <1>8, <1>9, <1>10,
     <1>11, <1>12, <1>13, <1>14, <1>15 DEF Verifying

LEMMA ChargedIterating ==
    ASSUME Typed, Charged, NEW p \in Process, Iterating(p) \/ Release(p) \/ Crash(p)
    PROVE  Charged'
<1>1. CASE Top(p)
  <2> DEFINE m == mem[p]
  <2>1. m \in States /\ m.verifyRuns = mem[p].verifyRuns
    BY <1>1 DEF Top, Typed, TypeOK
  <2>2. /\ mem' = [mem EXCEPT ![p] = m] /\ disk' \in {disk, m} /\ stale' = stale
        /\ owner = p /\ owner' = owner /\ pc[p] # "begin"
        /\ ran' = ran \/ (pc[p] = "stage" /\ ran' = ran + 1)
    BY <1>1 DEF Top, Typed, TypeOK
  <2>3. PICK l \in Positions \ {"stage"} : pc' = [pc EXCEPT ![p] = l]
    BY <1>1 DEF Top, Positions, Typed, TypeOK
  <2>. HIDE DEF m
  <2>. QED  BY <2>1, <2>2, <2>3, ChargedByOwner
<1>2. CASE TopEnds(p)
  <2>1. owner = p /\ pc[p] # "begin"
    BY <1>2 DEF TopEnds, Typed, TypeOK
  <2>2. Ends(p, Aborted \union {"budget"}) \/ Ends(p, {"exhausted"})
    BY <1>2 DEF TopEnds
  <2>. QED  BY <2>1, <2>2, ChargedEnds DEF Aborted, Status, Final
<1>3. CASE Edit(p)
  <2> DEFINE m == [mem[p] EXCEPT !.iterations = @ + 1]
  <2>1. m \in States /\ m.verifyRuns = mem[p].verifyRuns
    BY <1>3, AddIteration DEF Edit, Typed, TypeOK, Room
  <2>2. /\ mem' = [mem EXCEPT ![p] = m] /\ disk' \in {disk, m} /\ stale' = stale
        /\ owner = p /\ owner' = owner /\ pc[p] # "begin"
        /\ ran' = ran \/ (pc[p] = "stage" /\ ran' = ran + 1)
    BY <1>3 DEF Edit, Typed, TypeOK
  <2>3. PICK l \in Positions \ {"stage"} : pc' = [pc EXCEPT ![p] = l]
    BY <1>3 DEF Edit, Positions, Typed, TypeOK
  <2>. HIDE DEF m
  <2>. QED  BY <2>1, <2>2, <2>3, ChargedByOwner
<1>4. CASE EditRetries(p)
  <2>1. /\ mem' = [mem EXCEPT ![p] = mem[p]] /\ disk' = mem[p] /\ stale' = stale /\ ran' = ran
        /\ owner = p /\ owner' = owner /\ pc[p] = "edit" /\ pc' = [pc EXCEPT ![p] = "edit"]
        /\ mem[p] \in States
    BY <1>4 DEF EditRetries, Typed, TypeOK
  <2>. QED  BY <2>1, ChargedByOwner DEF Positions
<1>5. CASE EditEnds(p)
  <2>1. owner = p /\ pc[p] = "edit" /\ stale' = stale /\ ran' = ran
    BY <1>5 DEF EditEnds, Typed, TypeOK
  <2>2. PICK s \in Status : Finish(p, s)
    BY <1>5 DEF EditEnds, Aborted, Status, Final
  <2>. QED  BY <2>1, <2>2, ChargedFinish
<1>6. CASE EditSpends(p)
  <2> DEFINE counted == [mem[p] EXCEPT !.iterations = @ + 1]
             m == [counted EXCEPT !.status = "budget"]
  <2>1. counted \in States /\ counted.verifyRuns = mem[p].verifyRuns
    BY <1>6, AddIteration DEF EditSpends, Typed, TypeOK, Room
  <2>2. m \in States /\ m.verifyRuns = mem[p].verifyRuns
    <3> HIDE DEF counted
    <3>. QED  BY <2>1, SetStatus DEF Status, Final
  <2>3. /\ mem' = [mem EXCEPT ![p] = m] /\ disk' = m /\ stale' = stale /\ ran' = ran
        /\ owner = p /\ owner' = owner /\ pc[p] = "edit" /\ pc' = [pc EXCEPT ![p] = "ended"]
    BY <1>6 DEF EditSpends, Typed, TypeOK
  <2>. HIDE DEF m
  <2>. QED  BY <2>2, <2>3, ChargedByOwner DEF Positions
<1>7. CASE Progress(p)
  <2> DEFINE m == mem[p]
  <2>1. m \in States /\ m.verifyRuns = mem[p].verifyRuns
    BY <1>7 DEF Progress, Typed, TypeOK
  <2>2. /\ mem' = [mem EXCEPT ![p] = m] /\ disk' \in {disk, m} /\ stale' = stale
        /\ owner = p /\ owner' = owner /\ pc[p] # "begin"
        /\ ran' = ran \/ (pc[p] = "stage" /\ ran' = ran + 1)
    BY <1>7 DEF Progress, Typed, TypeOK
  <2>3. PICK l \in Positions \ {"stage"} : pc' = [pc EXCEPT ![p] = l]
    BY <1>7 DEF Progress, Positions, Typed, TypeOK
  <2>. HIDE DEF m
  <2>. QED  BY <2>1, <2>2, <2>3, ChargedByOwner
<1>8. CASE Recover(p)
  <2> DEFINE m == [mem[p] EXCEPT !.recoveries = @ + 1]
  <2>1. m \in States /\ m.verifyRuns = mem[p].verifyRuns
    BY <1>8, AddRecovery DEF Recover, Typed, TypeOK
  <2>2. /\ mem' = [mem EXCEPT ![p] = m] /\ disk' \in {disk, m} /\ stale' = stale
        /\ owner = p /\ owner' = owner /\ pc[p] # "begin"
        /\ ran' = ran \/ (pc[p] = "stage" /\ ran' = ran + 1)
    BY <1>8 DEF Recover, Typed, TypeOK
  <2>3. PICK l \in Positions \ {"stage"} : pc' = [pc EXCEPT ![p] = l]
    BY <1>8 DEF Recover, Positions, Typed, TypeOK
  <2>. HIDE DEF m
  <2>. QED  BY <2>1, <2>2, <2>3, ChargedByOwner
<1>9. CASE GuardEnds(p)
  <2>1. owner = p /\ pc[p] # "begin"
    BY <1>9 DEF GuardEnds, Typed, TypeOK
  <2>. QED  BY <1>9, <2>1, ChargedEnds DEF GuardEnds, Aborted, Status, Final
<1>10. CASE Release(p)
  BY <1>10, NobodyAssumption DEF Release, Forget, Charged, Typed, TypeOK
<1>11. CASE Crash(p)
  <2>1. /\ owner' = IF owner = p THEN Nobody ELSE owner
        /\ mem' = [mem EXCEPT ![p] = Created] /\ pc' = [pc EXCEPT ![p] = "idle"]
        /\ ran' = ran \/ (pc[p] = "stage" /\ ran' = ran + 1)
        /\ disk' = disk /\ stale' = stale
    BY <1>11 DEF Crash, Forget
  <2>2. SUFFICES ASSUME ~stale PROVE Charged'
    BY <2>1 DEF Charged
  <2>3. CASE disk = NoLoop
    BY <2>1, <2>2, <2>3 DEF Charged, Typed, TypeOK
  <2>4. CASE disk # NoLoop
    <3>1. ran' <= disk.verifyRuns
      BY <2>1, <2>2, <2>4, StateFields, LimitAssumption DEF Charged, Typed, TypeOK
    <3>2. ASSUME NEW q \in Process, pc'[q] = "stage" PROVE ran' = ran /\ pc[q] = "stage"
      BY <2>1, <3>2 DEF Typed, TypeOK
    <3>3. ASSUME NEW q \in Process, owner' = q PROVE owner = q /\ mem'[q] = mem[q]
      BY <2>1, <3>3, NobodyAssumption DEF Typed, TypeOK
    <3>. QED  BY <2>1, <2>2, <2>4, <3>1, <3>2, <3>3 DEF Charged
  <2>. QED  BY <2>3, <2>4
<1>. QED
  BY <1>1, <1>2, <1>3, <1>4, <1>5, <1>6, <1>7, <1>8, <1>9, <1>10, <1>11 DEF Iterating

LEMMA ChargedStep == Typed /\ Charged /\ [Next]_vars => Charged'
<1> SUFFICES ASSUME Typed, Charged, [Next]_vars PROVE Charged'
  OBVIOUS
<1>1. CASE UNCHANGED vars
  BY <1>1 DEF vars, Charged
<1>2. ASSUME NEW p \in Process,
             Start(p) \/ Resume(p) \/ Scan(p) \/ Step(p) \/ Unpause(p) \/ PauseEnds(p) \/ Crash(p)
      PROVE  Charged'
  BY <1>2, ChargedRecovery, ChargedOpening, ChargedVerifying, ChargedIterating DEF Step
<1>. QED  BY <1>1, <1>2 DEF Next

(* The verification commands of a Loop never exceed maxVerifyRuns, over    *)
(* any number of crashes, recoveries and resumes, while no call goes on    *)
(* from an outdated checkpoint (executeStage charges first).               *)
THEOREM BudgetIsKept == Spec => []LimitsKept
<1>1. Init => Typed /\ Charged
  BY InitTyped, NoLoopAssumption DEF Init, Charged
<1>2. Typed /\ Charged /\ [Next]_vars => Typed' /\ Charged'
  BY TypedStep, ChargedStep
<1>3. Typed /\ Charged => LimitsKept
  BY StateFields, LimitAssumption DEF Charged, LimitsKept, Typed, TypeOK
<1>. QED  BY <1>1, <1>2, <1>3, PTL DEF Spec
=============================================================================
