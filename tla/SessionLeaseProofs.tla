------------------------- MODULE SessionLeaseProofs -------------------------
(***************************************************************************)
(* What the lease protocol guarantees for every number of processes and    *)
(* sessions, as long as no process dies while it holds a recovery marker   *)
(* and none stalls for 30 seconds between mkdir and signing. The last part *)
(* is about the ledger of runs, which servers write under such a lease.    *)
(***************************************************************************)
EXTENDS SessionLease, RunLedger, FiniteSetTheorems, SequenceTheorems, TLAPS

Reliable == ~CrashInRecovery /\ ~StallPastGrace

-----------------------------------------------------------------------------
(* Every variable has its type initially and after every step.             *)
LEMMA TypeInit == Init => TypeOK
  BY GuardAssumption, AttemptAssumption
  DEF Init, TypeOK, NoArgs, Args, Names, Phases, Positions, InRecovery, Signatures, Nothing

(* The directories the program makes, and their signatures, are typed.    *)
LEMMA DirTypes ==
    /\ \A p \in Proc : Fresh(p) \in Dir /\ Signed(p, "no") \in Dir
         /\ Signed(p, "may") \in Dir /\ Signed(p, "asked") \in Dir
    /\ \A d \in Dir : Aged(d) \in Dir /\ SignatureOf(d) \in Signatures
    /\ NoDir \notin Dir
  BY NoDirAssumption DEF Fresh, Signed, Aged, SignatureOf, Signatures, Dir

(* Leaving an operation resets its arguments to typed values.              *)
LEMMA ForgetType == ASSUME TypeOK, NEW p \in Proc, Forget(p)
                    PROVE  /\ args' \in [Proc -> Args] /\ phase' \in [Proc -> Phases]
                           /\ file' \in [Proc -> Names] /\ seen' \in [Proc -> Signatures]
                           /\ attempt' \in [Proc -> 0 .. MaxAttempts]
                           /\ todo' \in [Proc -> SUBSET Names]
  BY AttemptAssumption
  DEF Forget, TypeOK, NoArgs, Args, Names, Phases, Signatures

(* The attempt counter never passes MaxAttempts.                           *)
LEMMA AfterwardsType == ASSUME TypeOK, NEW p \in Proc, Afterwards(p)
                        PROVE  /\ at' \in [Proc -> Positions]
                               /\ attempt' \in [Proc -> 0 .. MaxAttempts]
  BY AttemptAssumption DEF Afterwards, Go, TypeOK, Positions

(* Every step of the protocol keeps every variable in its type.            *)
LEMMA TypeStep == TypeOK /\ [Next]_vars => TypeOK'
<1> SUFFICES ASSUME TypeOK, [Next]_vars PROVE TypeOK'
  OBVIOUS
<1> USE DirTypes, ForgetType, AfterwardsType DEF TypeOK, Go, Throw, Missing, locals
<1>1. ASSUME NEW p \in Proc, NEW n \in Sessions, NEW c \in BOOLEAN, AcquireSession(p, n, c)
      PROVE  TypeOK'
  BY <1>1 DEF AcquireSession, Positions, Args, Names, Phases
<1>2. ASSUME NEW p \in Proc, NEW e \in SUBSET Sessions, NEW b \in BOOLEAN, AcquireGuard(p, e, b)
      PROVE  TypeOK'
  BY <1>2 DEF AcquireGuard, Positions, Args, Names, Phases
<1>3. ASSUME NEW p \in Proc, Recovery(p) PROVE TypeOK'
  BY <1>3 DEF Recovery, Positions
<1>4. ASSUME NEW p \in Proc, RecoveryRead(p) PROVE TypeOK'
  BY <1>4 DEF RecoveryRead, Positions
<1>5. ASSUME NEW p \in Proc, RecoveryCompare(p) PROVE TypeOK'
  BY <1>5 DEF RecoveryCompare, Positions
<1>6. ASSUME NEW p \in Proc, RecoveryRemove(p) PROVE TypeOK'
  BY <1>6 DEF RecoveryRemove, Positions
<1>7. ASSUME NEW p \in Proc, RecoveryGone(p) PROVE TypeOK'
  BY <1>7 DEF RecoveryGone, Positions
<1>8. ASSUME NEW p \in Proc, Mkdir(p) PROVE TypeOK'
  BY <1>8 DEF Mkdir, Positions
<1>9. ASSUME NEW p \in Proc, Sign(p) PROVE TypeOK'
  <2>1. args[p].goal \in Names /\ target' \in [Names -> Dir \union {NoDir}]
    BY <1>9 DEF Sign, Args
  <2>2. held' \in [Proc -> SUBSET Names]
    BY <1>9, <2>1 DEF Sign
  <2>3. CASE args[p].capability
    BY SMTT(20), <1>9, <2>1, <2>2, <2>3 DEF Sign, Positions
  <2>4. CASE ~args[p].capability
    BY <1>9, <2>1, <2>2, <2>4 DEF Sign, Positions, Phases, Names
  <2>5. QED
    BY <2>3, <2>4
<1>10. ASSUME NEW p \in Proc, SignFails(p) PROVE TypeOK'
  BY <1>10 DEF SignFails, Positions
<1>11. ASSUME NEW p \in Proc, Read(p) PROVE TypeOK'
  BY <1>11 DEF Read, Positions
<1>12. ASSUME NEW p \in Proc, Mark(p) PROVE TypeOK'
  BY <1>12 DEF Mark, Positions, InRecovery, Afterwards
<1>13. ASSUME NEW p \in Proc, SignMarker(p) PROVE TypeOK'
  BY <1>13 DEF SignMarker, Positions, InRecovery
<1>14. ASSUME NEW p \in Proc, SignMarkerFails(p) PROVE TypeOK'
  BY SMTT(20), <1>14 DEF SignMarkerFails, Positions, Afterwards
<1>15. ASSUME NEW p \in Proc, Compare(p) PROVE TypeOK'
  BY <1>15 DEF Compare, Positions, InRecovery
<1>16. ASSUME NEW p \in Proc, Confirm(p) PROVE TypeOK'
  BY <1>16 DEF Confirm, Positions, InRecovery, Signatures
<1>17. ASSUME NEW p \in Proc, Remove(p) PROVE TypeOK'
  BY <1>17 DEF Remove, Positions, InRecovery
<1>18. ASSUME NEW p \in Proc, ReadMarker(p) PROVE TypeOK'
  BY <1>18 DEF ReadMarker, Positions, InRecovery, Leave, Afterwards
<1>19. ASSUME NEW p \in Proc, Unmark(p) PROVE TypeOK'
  BY <1>19 DEF Unmark, Positions, InRecovery, Leave, Afterwards
<1>20. ASSUME NEW p \in Proc, List(p) PROVE TypeOK'
  BY <1>20 DEF List, Positions, Names
<1>21. ASSUME NEW p \in Proc, NEW n \in Names, ScanNext(p, n) PROVE TypeOK'
  BY <1>21 DEF ScanNext, Positions
<1>22. ASSUME NEW p \in Proc, ScanDone(p) PROVE TypeOK'
  BY <1>22 DEF ScanDone, Positions, Names
<1>23. ASSUME NEW p \in Proc, Active(p) PROVE TypeOK'
  BY <1>23 DEF Active, Positions
<1>24. ASSUME NEW p \in Proc, Inactive(p) PROVE TypeOK'
  <2>1. args[p].goal \in Names
    BY DEF Args
  <2>2. CASE phase[p] = "pre"
    BY SMTT(20), <1>24, <2>1, <2>2 DEF Inactive, Positions, Phases
  <2>3. CASE phase[p] = "post"
    BY SMTT(20), <1>24, <2>1, <2>3 DEF Inactive, Positions
  <2>4. CASE phase[p] = "scan"
    BY <1>24, <2>4 DEF Inactive, Positions
  <2>5. CASE phase[p] = "look"
    BY <1>24, <2>5 DEF Inactive, Positions
  <2>6. QED
    BY <1>24, <2>2, <2>3, <2>4, <2>5 DEF Inactive
<1>25. ASSUME NEW p \in Proc, GiveUp(p) PROVE TypeOK'
  BY <1>25 DEF GiveUp, Positions, ReleaseFiles
<1>26. ASSUME NEW p \in Proc, AskGuard(p) PROVE TypeOK'
  BY <1>26 DEF AskGuard, Positions, Dir, Names
<1>27. ASSUME NEW p \in Proc, NEW n \in Names, Release(p, n) PROVE TypeOK'
  BY <1>27 DEF Release, ReleaseFiles
<1>28. ASSUME NEW p \in Proc, Crash(p) PROVE TypeOK'
  BY <1>28 DEF Crash, Positions
<1>29. ASSUME NEW n \in Names, Age(n) PROVE TypeOK'
  BY <1>29 DEF Age, MayAge
<1>30. ASSUME NEW p \in Proc, NEW n \in Names, Look(p, n) PROVE TypeOK'
  BY <1>30 DEF Look, Positions, Phases
<1>31. CASE UNCHANGED vars
  BY <1>31 DEF vars
<1> HIDE DEF TypeOK, Go, Throw, Missing, locals
<1>32. QED
  BY <1>1, <1>2, <1>3, <1>4, <1>5, <1>6, <1>7, <1>8, <1>9, <1>10, <1>11, <1>12, <1>13, <1>14, <1>15, <1>16, <1>17, <1>18, <1>19, <1>20, <1>21, <1>22, <1>23, <1>24, <1>25, <1>26, <1>27, <1>28, <1>29, <1>30, <1>31 DEF Next, Continue
-----------------------------------------------------------------------------
(* The parts of the inductive invariant. *)

(* What each phase of an operation has established.                        *)
Shape(p) ==
    /\ p \notin alive <=> at[p] = "dead"
    /\ at[p] = "dead" => held[p] = {}
    /\ granted[p] \subseteq held[p]
    /\ at[p] \notin {"idle", "dead"} =>
         /\ phase[p] = "take" =>
              /\ file[p] = args[p].goal
              /\ args[p].goal \notin held[p]
              /\ args[p].capability => args[p].goal # Guard /\ Guard \in granted[p]
              /\ args[p].except \subseteq granted[p]
              /\ args[p].goal # Guard => args[p].except = {}
         /\ phase[p] \in {"pre", "post"} => file[p] = Guard /\ args[p].goal # Guard
         /\ phase[p] = "pre" => args[p].goal \notin held[p]
         /\ phase[p] = "post" =>
              /\ args[p].goal \notin granted[p]
              /\ at[p] # "askGuard" => args[p].goal \in held[p]
         /\ phase[p] \in {"pre", "post"} => ~args[p].capability /\ args[p].except = {}
         /\ phase[p] = "scan" =>
              /\ args[p].goal = Guard
              /\ Guard \in held[p] \ granted[p]
              /\ args[p].except \subseteq granted[p]
    /\ at[p] \in {"mkdir", "sign"} => phase[p] = "take"
    /\ at[p] \in {"list", "scan"} => phase[p] = "scan"
    /\ at[p] = "giveUp" => phase[p] \in {"post", "scan"}
    /\ at[p] = "askGuard" => phase[p] \in {"pre", "post"}

OpShape == \A p \in Proc : Shape(p)

(* A live process that has a lease has its signed directory, and one about *)
(* to sign has its unsigned one.                                           *)
OnDisk(p) ==
    /\ \A n \in held[p] : SignedBy(target[n], p)
    /\ at[p] = "sign" =>
         /\ Unsigned(target[args[p].goal])
         /\ target[args[p].goal].by = p

LeaseOnDisk == \A p \in Proc : OnDisk(p)

(* An unsigned directory outlives the grace period only after its maker    *)
(* has died.                                                               *)
AgedIsDead ==
    \A n \in Names :
      target[n] # NoDir /\ target[n].state = "aged" => target[n].by \notin alive

(* A marker belongs to a live process inside removeStaleLease, and such a  *)
(* process has its marker.                                                 *)
OwnMarker(p) ==
    /\ at[p] \in InRecovery =>
         /\ marker[file[p]] # NoDir
         /\ marker[file[p]].by = p
         /\ marker[file[p]].state = IF at[p] = "signMarker" THEN "fresh" ELSE "signed"
    /\ at[p] \notin {"recoveryCompare", "recoveryRemove"}

MarkerOwned ==
    /\ \A p \in Proc : OwnMarker(p)
    /\ \A n \in Names : marker[n] # NoDir =>
         at[marker[n].by] \in InRecovery /\ file[marker[n].by] = n

(* What a recoverer is about to remove has a dead owner.                   *)
RemovesDead ==
    \A p \in Proc : at[p] = "remove" =>
      /\ target[file[p]] # NoDir
      /\ target[file[p]].by \notin alive

LeaseInv == TypeOK /\ OpShape /\ LeaseOnDisk /\ AgedIsDead /\ MarkerOwned /\ RemovesDead

-----------------------------------------------------------------------------
(* Each phase of an operation keeps what the earlier ones established.     *)
LEMMA OpShapeStep == LeaseInv /\ [Next]_vars /\ Reliable => OpShape'
<1> SUFFICES ASSUME LeaseInv, [Next]_vars, Reliable PROVE OpShape'
  OBVIOUS
<1> USE DEF LeaseInv, OpShape, Shape, TypeOK, Go, Throw, Missing, Forget, locals, NoArgs, InRecovery
<1>1. ASSUME NEW p \in Proc, NEW n \in Sessions, NEW c \in BOOLEAN, AcquireSession(p, n, c) PROVE OpShape'
  <2>1. CASE c
    BY <1>1, <2>1 DEF AcquireSession
  <2>2. CASE ~c
    BY <1>1, <2>2, GuardAssumption DEF AcquireSession
  <2>3. QED
    BY <2>1, <2>2
<1>2. ASSUME NEW p \in Proc, NEW e \in SUBSET Sessions, NEW b \in BOOLEAN, AcquireGuard(p, e, b) PROVE OpShape'
  BY <1>2 DEF AcquireGuard
<1>3. ASSUME NEW p \in Proc, Recovery(p) PROVE OpShape'
  BY <1>3 DEF Recovery
<1>4. ASSUME NEW p \in Proc, RecoveryRead(p) PROVE OpShape'
  BY <1>4 DEF RecoveryRead
<1>5. ASSUME NEW p \in Proc, RecoveryCompare(p) PROVE OpShape'
  BY <1>5 DEF RecoveryCompare
<1>6. ASSUME NEW p \in Proc, RecoveryRemove(p) PROVE OpShape'
  BY <1>6 DEF RecoveryRemove
<1>7. ASSUME NEW p \in Proc, RecoveryGone(p) PROVE OpShape'
  BY <1>7 DEF RecoveryGone
<1>8. ASSUME NEW p \in Proc, Mkdir(p) PROVE OpShape'
  BY <1>8 DEF Mkdir
<1>9. ASSUME NEW p \in Proc, Sign(p) PROVE OpShape'
  <2>1. args[p].goal \in Names /\ phase[p] = "take" /\ args[p].goal \notin held[p]
    BY <1>9 DEF Sign, Args
  <2>2. CASE args[p].capability
    BY <1>9, <2>1, <2>2 DEF Sign
  <2>3. CASE ~args[p].capability /\ args[p].goal = Guard
    BY <1>9, <2>1, <2>3 DEF Sign
  <2>4. CASE ~args[p].capability /\ args[p].goal # Guard
    <3>1. ASSUME NEW q \in Proc, q # p PROVE Shape(q)'
      BY <1>9, <2>1, <2>4, <3>1 DEF Sign
    <3>2. Shape(p)'
      BY <1>9, <2>1, <2>4 DEF Sign
    <3>3. QED
      BY <3>1, <3>2
  <2>5. QED
    BY <2>2, <2>3, <2>4
<1>10. ASSUME NEW p \in Proc, SignFails(p) PROVE OpShape'
  BY <1>10 DEF SignFails
<1>11. ASSUME NEW p \in Proc, Read(p) PROVE OpShape'
  BY <1>11 DEF Read
<1>12. ASSUME NEW p \in Proc, Mark(p) PROVE OpShape'
  BY <1>12 DEF Mark, Afterwards
<1>13. ASSUME NEW p \in Proc, SignMarker(p) PROVE OpShape'
  BY <1>13 DEF SignMarker
<1>14. ASSUME NEW p \in Proc, SignMarkerFails(p) PROVE OpShape'
  BY <1>14 DEF SignMarkerFails, Afterwards
<1>15. ASSUME NEW p \in Proc, Compare(p) PROVE OpShape'
  BY <1>15 DEF Compare
<1>16. ASSUME NEW p \in Proc, Confirm(p) PROVE OpShape'
  BY <1>16 DEF Confirm
<1>17. ASSUME NEW p \in Proc, Remove(p) PROVE OpShape'
  BY <1>17 DEF Remove
<1>18. ASSUME NEW p \in Proc, ReadMarker(p) PROVE OpShape'
  BY <1>18 DEF ReadMarker, Leave, Afterwards
<1>19. ASSUME NEW p \in Proc, Unmark(p) PROVE OpShape'
  BY <1>19 DEF Unmark, Leave, Afterwards
<1>20. ASSUME NEW p \in Proc, List(p) PROVE OpShape'
  BY <1>20 DEF List
<1>21. ASSUME NEW p \in Proc, NEW n \in Names, ScanNext(p, n) PROVE OpShape'
  BY <1>21 DEF ScanNext
<1>22. ASSUME NEW p \in Proc, ScanDone(p) PROVE OpShape'
  BY <1>22 DEF ScanDone
<1>23. ASSUME NEW p \in Proc, Active(p) PROVE OpShape'
  <2>1. CASE phase[p] = "take"
    BY <1>23, <2>1 DEF Active
  <2>2. CASE phase[p] = "pre"
    BY <1>23, <2>2 DEF Active
  <2>3. CASE phase[p] \in {"post", "scan"}
    BY <1>23, <2>3 DEF Active
  <2>4. CASE phase[p] = "look"
    BY <1>23, <2>4 DEF Active
  <2>5. QED
    BY <2>1, <2>2, <2>3, <2>4 DEF Phases
<1>24. ASSUME NEW p \in Proc, Inactive(p) PROVE OpShape'
  BY <1>24 DEF Inactive
<1>25. ASSUME NEW p \in Proc, GiveUp(p) PROVE OpShape'
  <2>1. \/ held'[p] = held[p]
        \/ held'[p] = held[p] \ {args[p].goal}
    BY <1>25 DEF GiveUp, ReleaseFiles
  <2>2. \A q \in Proc : q # p => held'[q] = held[q]
    BY <1>25 DEF GiveUp, ReleaseFiles
  <2>3. args[p].goal \notin granted[p]
    BY <1>25 DEF GiveUp
  <2>4. CASE phase[p] = "post"
    BY <1>25, <2>1, <2>2, <2>3, <2>4 DEF GiveUp
  <2>5. CASE phase[p] = "scan"
    BY <1>25, <2>1, <2>2, <2>3, <2>5 DEF GiveUp
  <2>6. QED
    BY <1>25, <2>4, <2>5 DEF GiveUp
<1>26. ASSUME NEW p \in Proc, AskGuard(p) PROVE OpShape'
  BY <1>26 DEF AskGuard
<1>27. ASSUME NEW p \in Proc, NEW n \in Names, Release(p, n) PROVE OpShape'
  BY <1>27 DEF Release, ReleaseFiles
<1>28. ASSUME NEW p \in Proc, Crash(p) PROVE OpShape'
  BY <1>28 DEF Crash
<1>29. ASSUME NEW n \in Names, Age(n) PROVE OpShape'
  BY <1>29 DEF Age, MayAge
<1>30. ASSUME NEW p \in Proc, NEW n \in Names, Look(p, n) PROVE OpShape'
  BY <1>30 DEF Look
<1>31. CASE UNCHANGED vars
  BY <1>31 DEF vars
<1> HIDE DEF LeaseInv, OpShape, Shape, TypeOK, Go, Throw, Missing, Forget, locals, NoArgs, InRecovery, OpShape
<1>32. QED
  BY <1>1, <1>2, <1>3, <1>4, <1>5, <1>6, <1>7, <1>8, <1>9, <1>10, <1>11, <1>12, <1>13, <1>14, <1>15, <1>16, <1>17, <1>18, <1>19, <1>20, <1>21, <1>22, <1>23, <1>24, <1>25, <1>26, <1>27, <1>28, <1>29, <1>30, <1>31 DEF Next, Continue

(* Nobody takes the directory of a live owner: a recoverer removes a dead  *)
(* one's, and every other removal is by the owner itself.                  *)
LEMMA LeaseOnDiskStep == LeaseInv /\ [Next]_vars /\ Reliable => LeaseOnDisk'
<1> SUFFICES ASSUME LeaseInv, [Next]_vars, Reliable PROVE LeaseOnDisk'
  OBVIOUS
<1> USE DEF LeaseInv, OpShape, Shape, LeaseOnDisk, OnDisk, SignedBy, Unsigned, TypeOK, Go, Throw, Missing, Forget, locals, InRecovery
<1>1. ASSUME NEW p \in Proc, NEW n \in Sessions, NEW c \in BOOLEAN, AcquireSession(p, n, c) PROVE LeaseOnDisk'
  BY <1>1 DEF AcquireSession
<1>2. ASSUME NEW p \in Proc, NEW e \in SUBSET Sessions, NEW b \in BOOLEAN, AcquireGuard(p, e, b) PROVE LeaseOnDisk'
  BY <1>2 DEF AcquireGuard
<1>3. ASSUME NEW p \in Proc, Recovery(p) PROVE LeaseOnDisk'
  BY <1>3 DEF Recovery
<1>4. ASSUME NEW p \in Proc, RecoveryRead(p) PROVE LeaseOnDisk'
  BY <1>4 DEF RecoveryRead
<1>5. ASSUME NEW p \in Proc, RecoveryCompare(p) PROVE LeaseOnDisk'
  BY <1>5 DEF RecoveryCompare
<1>6. ASSUME NEW p \in Proc, RecoveryRemove(p) PROVE LeaseOnDisk'
  BY <1>6 DEF RecoveryRemove
<1>7. ASSUME NEW p \in Proc, RecoveryGone(p) PROVE LeaseOnDisk'
  BY <1>7 DEF RecoveryGone
<1>8. ASSUME NEW p \in Proc, Mkdir(p) PROVE LeaseOnDisk'
  <2>1. CASE target[file[p]] = NoDir
    <3>1. \A q \in Proc : file[p] \notin held[q] /\ (at[q] = "sign" => args[q].goal # file[p])
      BY <2>1
    <3>2. Unsigned(Fresh(p)) /\ Fresh(p).by = p
      BY DirTypes DEF Fresh
    <3>3. \A q \in Proc : q # p => OnDisk(q)'
      <4>1. /\ \A n \in Names : n # file[p] => target'[n] = target[n]
            /\ file[p] \in Names /\ held' = held /\ args' = args
            /\ \A q \in Proc : q # p => at'[q] = at[q]
        BY <1>8, <2>1 DEF Mkdir
      <4>2. \A q \in Proc : held[q] \subseteq Names /\ (at[q] = "sign" => args[q].goal \in Names)
        OBVIOUS
      <4>3. ASSUME NEW q \in Proc, q # p, NEW n \in held'[q] PROVE SignedBy(target[n], q)'
        <5>1. n \in held[q] /\ n # file[p] /\ n \in Names /\ SignedBy(target[n], q)
          BY <3>1, <4>1, <4>2, <4>3
        <5>. QED  BY <4>1, <5>1
      <4>4. ASSUME NEW q \in Proc, q # p, at'[q] = "sign"
            PROVE  Unsigned(target[args[q].goal])' /\ (target[args[q].goal].by = q)'
        <5>1. at[q] = "sign" /\ args[q].goal # file[p] /\ args[q].goal \in Names
          BY <3>1, <4>1, <4>2, <4>4
        <5>2. Unsigned(target[args[q].goal]) /\ target[args[q].goal].by = q
          BY <5>1
        <5>. QED  BY <4>1, <5>1, <5>2
      <4>. QED  BY <4>3, <4>4
    <3>4. OnDisk(p)'
      BY <1>8, <2>1, <3>1, <3>2, DirTypes DEF Mkdir, Fresh
    <3>5. QED
      BY <3>3, <3>4
  <2>2. CASE target[file[p]] # NoDir
    BY <1>8, <2>2 DEF Mkdir
  <2>3. QED
    BY <2>1, <2>2
<1>9. ASSUME NEW p \in Proc, Sign(p) PROVE LeaseOnDisk'
  <2> DEFINE n == args[p].goal
             d == Signed(p, IF args[p].preemptible THEN "may" ELSE "no")
  <2>1. n \in Names /\ d # NoDir /\ d.state = "signed" /\ d.by = p
    <3>1. d = Signed(p, "may") \/ d = Signed(p, "no")
      OBVIOUS
    <3>2. \A y \in {"may", "no"} : Signed(p, y) \in Dir /\ Signed(p, y).state = "signed"
                                  /\ Signed(p, y).by = p
      BY DirTypes DEF Signed
    <3>3. n \in Names
      BY DEF Args
    <3>4. QED
      BY <3>1, <3>2, <3>3, DirTypes
  <2>2. target' = [target EXCEPT ![n] = d] /\ held' = [held EXCEPT ![p] = @ \union {n}]
    BY <1>9 DEF Sign
  <2>3. at'[p] # "sign" /\ \A q \in Proc : q # p => at'[q] = at[q] /\ args'[q] = args[q]
    BY <1>9 DEF Sign
  <2>4. Unsigned(target[n]) /\ target[n].by = p
    BY <1>9 DEF Sign
  <2> HIDE DEF n, d
  <2>5. \A q \in Proc : q # p => OnDisk(q)'
    BY <2>1, <2>2, <2>3, <2>4
  <2>6. OnDisk(p)'
    BY <2>1, <2>2, <2>3, <2>4
  <2>7. QED
    BY <2>5, <2>6
<1>10. ASSUME NEW p \in Proc, SignFails(p) PROVE LeaseOnDisk'
  BY <1>10 DEF SignFails
<1>11. ASSUME NEW p \in Proc, Read(p) PROVE LeaseOnDisk'
  BY <1>11 DEF Read
<1>12. ASSUME NEW p \in Proc, Mark(p) PROVE LeaseOnDisk'
  BY <1>12 DEF Mark, Afterwards
<1>13. ASSUME NEW p \in Proc, SignMarker(p) PROVE LeaseOnDisk'
  BY <1>13 DEF SignMarker
<1>14. ASSUME NEW p \in Proc, SignMarkerFails(p) PROVE LeaseOnDisk'
  BY SMTT(20), <1>14 DEF SignMarkerFails, Afterwards
<1>15. ASSUME NEW p \in Proc, Compare(p) PROVE LeaseOnDisk'
  BY <1>15 DEF Compare
<1>16. ASSUME NEW p \in Proc, Confirm(p) PROVE LeaseOnDisk'
  BY <1>16 DEF Confirm
<1>17. ASSUME NEW p \in Proc, Remove(p) PROVE LeaseOnDisk'
  <2>1. file[p] \in Names /\ target[file[p]] # NoDir /\ target[file[p]].by \notin alive
    BY <1>17 DEF Remove, RemovesDead
  <2>2. \A q \in Proc : file[p] \notin held[q] /\ (at[q] = "sign" => args[q].goal # file[p])
    BY <2>1
  <2>3. QED
    BY <1>17, <2>1, <2>2 DEF Remove
<1>18. ASSUME NEW p \in Proc, ReadMarker(p) PROVE LeaseOnDisk'
  BY <1>18 DEF ReadMarker, Leave, Afterwards
<1>19. ASSUME NEW p \in Proc, Unmark(p) PROVE LeaseOnDisk'
  BY SMTT(20), <1>19 DEF Unmark, Leave, Afterwards
<1>20. ASSUME NEW p \in Proc, List(p) PROVE LeaseOnDisk'
  BY <1>20 DEF List
<1>21. ASSUME NEW p \in Proc, NEW n \in Names, ScanNext(p, n) PROVE LeaseOnDisk'
  BY <1>21 DEF ScanNext
<1>22. ASSUME NEW p \in Proc, ScanDone(p) PROVE LeaseOnDisk'
  BY <1>22 DEF ScanDone
<1>23. ASSUME NEW p \in Proc, Active(p) PROVE LeaseOnDisk'
  BY <1>23 DEF Active
<1>24. ASSUME NEW p \in Proc, Inactive(p) PROVE LeaseOnDisk'
  BY SMTT(20), <1>24 DEF Inactive
<1>25. ASSUME NEW p \in Proc, GiveUp(p) PROVE LeaseOnDisk'
  BY SMTT(20), <1>25 DEF GiveUp, ReleaseFiles
<1>26. ASSUME NEW p \in Proc, AskGuard(p) PROVE LeaseOnDisk'
  <2>1. \A q \in Proc : q # p => at'[q] = at[q] /\ args'[q] = args[q]
    BY <1>26 DEF AskGuard
  <2>2. at'[p] # "sign" /\ held' = held
    BY <1>26 DEF AskGuard
  <2>3. CASE target' = target
    BY <2>1, <2>2, <2>3
  <2>4. CASE /\ target[Guard] # NoDir /\ target[Guard].state = "signed"
             /\ target' = [target EXCEPT ![Guard] = Signed(target[Guard].by, "asked")]
    <3> DEFINE d == Signed(target[Guard].by, "asked")
    <3>1. target[Guard].by \in Proc /\ d # NoDir /\ d.state = "signed" /\ d.by = target[Guard].by
      BY <2>4, DirTypes DEF Signed, Dir, Names
    <3>2. Guard \in Names /\ target' = [target EXCEPT ![Guard] = d]
      BY <2>4 DEF Names
    <3> HIDE DEF d
    <3>3. QED
      BY <2>1, <2>2, <2>4, <3>1, <3>2
  <2>5. QED
    BY <1>26, <2>3, <2>4 DEF AskGuard
<1>27. ASSUME NEW p \in Proc, NEW n \in Names, Release(p, n) PROVE LeaseOnDisk'
  BY <1>27 DEF Release, ReleaseFiles
<1>28. ASSUME NEW p \in Proc, Crash(p) PROVE LeaseOnDisk'
  BY <1>28 DEF Crash
<1>29. ASSUME NEW n \in Names, Age(n) PROVE LeaseOnDisk'
  <2>1. CASE /\ target[n] # NoDir /\ target[n].state = "fresh"
             /\ target' = [target EXCEPT ![n] = Aged(@)]
             /\ UNCHANGED <<held, at, args>>
    <3>1. /\ Aged(target[n]) # NoDir /\ Aged(target[n]).by = target[n].by
          /\ Aged(target[n]).state # "signed"
      BY <2>1, DirTypes DEF Aged
    <3>2. QED
      BY <2>1, <3>1
  <2>2. CASE UNCHANGED <<target, held, at, args>>
    BY <2>2
  <2>3. QED
    BY <1>29, <2>1, <2>2 DEF Age, MayAge
<1>30. ASSUME NEW p \in Proc, NEW n \in Names, Look(p, n) PROVE LeaseOnDisk'
  BY <1>30 DEF Look
<1>31. CASE UNCHANGED vars
  BY <1>31 DEF vars
<1> HIDE DEF LeaseInv, OpShape, Shape, LeaseOnDisk, OnDisk, SignedBy, Unsigned, TypeOK, Go, Throw, Missing, Forget, locals, InRecovery, LeaseOnDisk
<1>32. QED
  BY <1>1, <1>2, <1>3, <1>4, <1>5, <1>6, <1>7, <1>8, <1>9, <1>10, <1>11, <1>12, <1>13, <1>14, <1>15, <1>16, <1>17, <1>18, <1>19, <1>20, <1>21, <1>22, <1>23, <1>24, <1>25, <1>26, <1>27, <1>28, <1>29, <1>30, <1>31 DEF Next, Continue

(* A live process signs its directory within the grace period.             *)
LEMMA AgedIsDeadStep == LeaseInv /\ [Next]_vars /\ Reliable => AgedIsDead'
<1> SUFFICES ASSUME LeaseInv, [Next]_vars, Reliable PROVE AgedIsDead'
  OBVIOUS
<1> USE DEF LeaseInv, AgedIsDead, Reliable, TypeOK
<1>1. ASSUME NEW p \in Proc, NEW n \in Sessions, NEW c \in BOOLEAN, AcquireSession(p, n, c) PROVE AgedIsDead'
  BY <1>1 DEF AcquireSession
<1>2. ASSUME NEW p \in Proc, NEW e \in SUBSET Sessions, NEW b \in BOOLEAN, AcquireGuard(p, e, b) PROVE AgedIsDead'
  BY <1>2 DEF AcquireGuard
<1>3. ASSUME NEW p \in Proc, Recovery(p) PROVE AgedIsDead'
  BY <1>3 DEF Recovery
<1>4. ASSUME NEW p \in Proc, RecoveryRead(p) PROVE AgedIsDead'
  BY <1>4 DEF RecoveryRead
<1>5. ASSUME NEW p \in Proc, RecoveryCompare(p) PROVE AgedIsDead'
  BY <1>5 DEF RecoveryCompare
<1>6. ASSUME NEW p \in Proc, RecoveryRemove(p) PROVE AgedIsDead'
  BY <1>6 DEF RecoveryRemove
<1>7. ASSUME NEW p \in Proc, RecoveryGone(p) PROVE AgedIsDead'
  BY <1>7 DEF RecoveryGone
<1>8. ASSUME NEW p \in Proc, Mkdir(p) PROVE AgedIsDead'
  BY <1>8, DirTypes DEF Mkdir, Fresh
<1>9. ASSUME NEW p \in Proc, Sign(p) PROVE AgedIsDead'
  <2>1. args[p].goal \in Names
    BY DEF Args
  <2>2. QED
    BY <1>9, <2>1, DirTypes DEF Sign, Signed
<1>10. ASSUME NEW p \in Proc, SignFails(p) PROVE AgedIsDead'
  BY <1>10 DEF SignFails
<1>11. ASSUME NEW p \in Proc, Read(p) PROVE AgedIsDead'
  BY <1>11 DEF Read
<1>12. ASSUME NEW p \in Proc, Mark(p) PROVE AgedIsDead'
  BY <1>12 DEF Mark, Afterwards
<1>13. ASSUME NEW p \in Proc, SignMarker(p) PROVE AgedIsDead'
  BY <1>13 DEF SignMarker
<1>14. ASSUME NEW p \in Proc, SignMarkerFails(p) PROVE AgedIsDead'
  BY <1>14 DEF SignMarkerFails, Afterwards
<1>15. ASSUME NEW p \in Proc, Compare(p) PROVE AgedIsDead'
  BY <1>15 DEF Compare
<1>16. ASSUME NEW p \in Proc, Confirm(p) PROVE AgedIsDead'
  BY <1>16 DEF Confirm
<1>17. ASSUME NEW p \in Proc, Remove(p) PROVE AgedIsDead'
  BY <1>17 DEF Remove
<1>18. ASSUME NEW p \in Proc, ReadMarker(p) PROVE AgedIsDead'
  BY <1>18 DEF ReadMarker, Leave, Afterwards
<1>19. ASSUME NEW p \in Proc, Unmark(p) PROVE AgedIsDead'
  BY <1>19 DEF Unmark, Leave, Afterwards
<1>20. ASSUME NEW p \in Proc, List(p) PROVE AgedIsDead'
  BY <1>20 DEF List
<1>21. ASSUME NEW p \in Proc, NEW n \in Names, ScanNext(p, n) PROVE AgedIsDead'
  BY <1>21 DEF ScanNext
<1>22. ASSUME NEW p \in Proc, ScanDone(p) PROVE AgedIsDead'
  BY <1>22 DEF ScanDone
<1>23. ASSUME NEW p \in Proc, Active(p) PROVE AgedIsDead'
  BY <1>23 DEF Active
<1>24. ASSUME NEW p \in Proc, Inactive(p) PROVE AgedIsDead'
  BY <1>24 DEF Inactive
<1>25. ASSUME NEW p \in Proc, GiveUp(p) PROVE AgedIsDead'
  BY <1>25 DEF GiveUp, ReleaseFiles
<1>26. ASSUME NEW p \in Proc, AskGuard(p) PROVE AgedIsDead'
  <2>1. Signed(target[Guard].by, "asked").state # "aged"
    BY DEF Signed
  <2>2. Guard \in Names
    BY DEF Names
  <2>3. QED
    BY <1>26, <2>1, <2>2 DEF AskGuard
<1>27. ASSUME NEW p \in Proc, NEW n \in Names, Release(p, n) PROVE AgedIsDead'
  BY <1>27 DEF Release, ReleaseFiles
<1>28. ASSUME NEW p \in Proc, Crash(p) PROVE AgedIsDead'
  BY <1>28 DEF Crash
<1>29. ASSUME NEW n \in Names, Age(n) PROVE AgedIsDead'
  <2>1. target[n] # NoDir => Aged(target[n]).by = target[n].by
    BY DEF Aged
  <2>2. QED
    BY <1>29, <2>1 DEF Age, MayAge
<1>30. ASSUME NEW p \in Proc, NEW n \in Names, Look(p, n) PROVE AgedIsDead'
  BY <1>30 DEF Look
<1>31. CASE UNCHANGED vars
  BY <1>31 DEF vars
<1> HIDE DEF LeaseInv, AgedIsDead, Reliable, TypeOK, AgedIsDead
<1>32. QED
  BY <1>1, <1>2, <1>3, <1>4, <1>5, <1>6, <1>7, <1>8, <1>9, <1>10, <1>11, <1>12, <1>13, <1>14, <1>15, <1>16, <1>17, <1>18, <1>19, <1>20, <1>21, <1>22, <1>23, <1>24, <1>25, <1>26, <1>27, <1>28, <1>29, <1>30, <1>31 DEF Next, Continue

(* An action outside removeStaleLease that leaves the markers alone.       *)
LEMMA MarkerKept ==
    ASSUME TypeOK, MarkerOwned, NEW p \in Proc, marker' = marker,
           at[p] \notin InRecovery,
           at'[p] \notin InRecovery \union {"recoveryCompare", "recoveryRemove"},
           \A q \in Proc : q # p => at'[q] = at[q] /\ file'[q] = file[q]
    PROVE  MarkerOwned'
<1>1. \A q \in Proc : OwnMarker(q)'
  BY DEF MarkerOwned, OwnMarker
<1>2. ASSUME NEW n \in Names, marker[n] # NoDir
      PROVE  at'[marker[n].by] \in InRecovery /\ file'[marker[n].by] = n
  <2>1. marker[n].by \in Proc
    BY <1>2 DEF TypeOK, Dir
  <2>2. at[marker[n].by] \in InRecovery /\ file[marker[n].by] = n
    BY <1>2 DEF MarkerOwned
  <2>3. QED
    BY <2>1, <2>2
<1>3. QED
  BY <1>1, <1>2 DEF MarkerOwned

(* Every marker found is of a live process.                                *)
LEMMA MarkersAlive ==
    ASSUME TypeOK, OpShape, MarkerOwned, NEW n \in Names, marker[n] # NoDir
    PROVE  marker[n].by \in Proc /\ IsAlive(marker[n])
  BY DEF TypeOK, Dir, OpShape, Shape, MarkerOwned, OwnMarker, IsAlive, InRecovery

(* A marker goes only by the hand of its owner.                            *)
LEMMA MarkerOwnedStep == LeaseInv /\ [Next]_vars /\ Reliable => MarkerOwned'
<1> SUFFICES ASSUME LeaseInv, [Next]_vars, Reliable PROVE MarkerOwned'
  OBVIOUS
<1> USE DEF LeaseInv, Go, Throw, Missing, Forget, locals
<1> DEFINE Outside(p) ==
      /\ at[p] \notin InRecovery
      /\ at'[p] \notin InRecovery \union {"recoveryCompare", "recoveryRemove"}
      /\ marker' = marker
      /\ \A q \in Proc : q # p => at'[q] = at[q] /\ file'[q] = file[q]
<1>1. ASSUME NEW p \in Proc, NEW n \in Sessions, NEW c \in BOOLEAN, AcquireSession(p, n, c) PROVE Outside(p)
  BY <1>1 DEF AcquireSession, TypeOK, InRecovery
<1>2. ASSUME NEW p \in Proc, NEW e \in SUBSET Sessions, NEW b \in BOOLEAN, AcquireGuard(p, e, b) PROVE Outside(p)
  BY <1>2 DEF AcquireGuard, TypeOK, InRecovery
<1>3. ASSUME NEW p \in Proc, NEW n \in Names, Look(p, n) PROVE Outside(p)
  BY <1>3 DEF Look, TypeOK, InRecovery
<1>4. ASSUME NEW p \in Proc, Recovery(p) PROVE Outside(p)
  BY <1>4 DEF Recovery, TypeOK, InRecovery
<1>5. ASSUME NEW p \in Proc, RecoveryRead(p) PROVE Outside(p)
  BY <1>5, MarkersAlive DEF RecoveryRead, TypeOK, InRecovery
<1>6. ASSUME NEW p \in Proc, RecoveryCompare(p) PROVE Outside(p)
  BY <1>6 DEF RecoveryCompare, MarkerOwned, OwnMarker
<1>7. ASSUME NEW p \in Proc, RecoveryRemove(p) PROVE Outside(p)
  BY <1>7 DEF RecoveryRemove, MarkerOwned, OwnMarker
<1>8. ASSUME NEW p \in Proc, RecoveryGone(p) PROVE Outside(p)
  BY <1>8 DEF RecoveryGone, TypeOK, InRecovery
<1>9. ASSUME NEW p \in Proc, Mkdir(p) PROVE Outside(p)
  BY <1>9 DEF Mkdir, TypeOK, InRecovery
<1>10. ASSUME NEW p \in Proc, Sign(p) PROVE Outside(p)
  BY <1>10 DEF Sign, TypeOK, InRecovery
<1>11. ASSUME NEW p \in Proc, SignFails(p) PROVE Outside(p)
  BY <1>11 DEF SignFails, TypeOK, InRecovery
<1>12. ASSUME NEW p \in Proc, Read(p) PROVE Outside(p)
  BY <1>12 DEF Read, TypeOK, InRecovery
<1>13. ASSUME NEW p \in Proc, Mark(p) PROVE MarkerOwned'
  <2>1. CASE marker[file[p]] = NoDir
    <3>1. /\ file[p] \in Names /\ at' = [at EXCEPT ![p] = "signMarker"] /\ file' = file
          /\ marker' = [marker EXCEPT ![file[p]] = Fresh(p)] /\ at[p] = "mark"
      BY <1>13, <2>1 DEF Mark, TypeOK
    <3>2. Fresh(p) # NoDir /\ Fresh(p).by = p /\ Fresh(p).state = "fresh"
      BY DirTypes DEF Fresh
    <3>3. \A q \in Proc : at[q] \in InRecovery => file[q] # file[p]
      BY <2>1 DEF MarkerOwned, OwnMarker
    <3>4. \A q \in Proc : OwnMarker(q)'
      BY <3>1, <3>2, <3>3 DEF MarkerOwned, OwnMarker, TypeOK, InRecovery
    <3>5. ASSUME NEW n \in Names, marker'[n] # NoDir
          PROVE  at'[marker'[n].by] \in InRecovery /\ file'[marker'[n].by] = n
      BY <3>1, <3>2, <3>5 DEF MarkerOwned, TypeOK, InRecovery
    <3>6. QED
      BY <3>4, <3>5 DEF MarkerOwned
  <2>2. CASE marker[file[p]] # NoDir
    <3>1. Outside(p)
      BY <1>13, <2>2 DEF Mark, Afterwards, TypeOK, InRecovery
    <3>2. QED
      BY <3>1, MarkerKept
  <2>3. QED
    BY <2>1, <2>2
<1>14. ASSUME NEW p \in Proc, SignMarker(p) PROVE MarkerOwned'
  <2>1. /\ file[p] \in Names /\ at' = [at EXCEPT ![p] = "compare"] /\ file' = file
        /\ marker' = [marker EXCEPT ![file[p]] = Signed(p, "no")] /\ at[p] = "signMarker"
    BY <1>14 DEF SignMarker, TypeOK
  <2>2. /\ Signed(p, "no") # NoDir /\ Signed(p, "no").by = p
        /\ Signed(p, "no").state = "signed"
    BY DirTypes DEF Signed
  <2>3. \A q \in Proc : q # p /\ at[q] \in InRecovery => file[q] # file[p]
    BY <2>1 DEF MarkerOwned, OwnMarker, InRecovery
  <2>4. \A q \in Proc : OwnMarker(q)'
    BY <2>1, <2>2, <2>3 DEF MarkerOwned, OwnMarker, TypeOK, InRecovery
  <2>5. ASSUME NEW n \in Names, marker'[n] # NoDir
        PROVE  at'[marker'[n].by] \in InRecovery /\ file'[marker'[n].by] = n
    BY <2>1, <2>2, <2>5 DEF MarkerOwned, TypeOK, InRecovery
  <2>6. QED
    BY <2>4, <2>5 DEF MarkerOwned
<1>15. ASSUME NEW p \in Proc, SignMarkerFails(p) PROVE MarkerOwned'
  BY <1>15 DEF SignMarkerFails, MarkerOwned, OwnMarker, InRecovery, Unsigned
<1>16. ASSUME NEW p \in Proc, Compare(p) PROVE MarkerOwned'
  <2>1. /\ marker' = marker /\ file' = file
        /\ at[p] \in InRecovery \ {"signMarker"} /\ at'[p] \in InRecovery \ {"signMarker"}
        /\ \A q \in Proc : q # p => at'[q] = at[q]
    BY <1>16 DEF Compare, TypeOK, InRecovery
  <2>2. \A q \in Proc : OwnMarker(q)'
    BY <2>1 DEF MarkerOwned, OwnMarker, InRecovery
  <2>3. QED
    BY <2>1, <2>2 DEF MarkerOwned, TypeOK, Dir
<1>17. ASSUME NEW p \in Proc, Confirm(p) PROVE MarkerOwned'
  <2>1. /\ marker' = marker /\ file' = file
        /\ at[p] \in InRecovery \ {"signMarker"} /\ at'[p] \in InRecovery \ {"signMarker"}
        /\ \A q \in Proc : q # p => at'[q] = at[q]
    BY <1>17 DEF Confirm, TypeOK, InRecovery
  <2>2. \A q \in Proc : OwnMarker(q)'
    BY <2>1 DEF MarkerOwned, OwnMarker, InRecovery
  <2>3. QED
    BY <2>1, <2>2 DEF MarkerOwned, TypeOK, Dir
<1>18. ASSUME NEW p \in Proc, Remove(p) PROVE MarkerOwned'
  <2>1. /\ marker' = marker /\ file' = file
        /\ at[p] \in InRecovery \ {"signMarker"} /\ at'[p] \in InRecovery \ {"signMarker"}
        /\ \A q \in Proc : q # p => at'[q] = at[q]
    BY <1>18 DEF Remove, TypeOK, InRecovery
  <2>2. \A q \in Proc : OwnMarker(q)'
    BY <2>1 DEF MarkerOwned, OwnMarker, InRecovery
  <2>3. QED
    BY <2>1, <2>2 DEF MarkerOwned, TypeOK, Dir
<1>19. ASSUME NEW p \in Proc, ReadMarker(p) PROVE MarkerOwned'
  <2>1. SignedBy(marker[file[p]], p)
    BY <1>19 DEF ReadMarker, MarkerOwned, OwnMarker, InRecovery, SignedBy
  <2>2. /\ marker' = marker /\ file' = file
        /\ at[p] = "readMarker" /\ at' = [at EXCEPT ![p] = "unmark"]
    BY <1>19, <2>1 DEF ReadMarker
  <2>3. \A q \in Proc : OwnMarker(q)'
    BY <2>2 DEF MarkerOwned, OwnMarker, InRecovery, TypeOK
  <2>4. QED
    BY <2>2, <2>3 DEF MarkerOwned, TypeOK, Dir, InRecovery
<1>20. ASSUME NEW p \in Proc, Unmark(p) PROVE MarkerOwned'
  <2>1. /\ file[p] \in Names /\ at[p] = "unmark"
        /\ marker' = [marker EXCEPT ![file[p]] = NoDir]
        /\ at'[p] \notin InRecovery \union {"recoveryCompare", "recoveryRemove"}
        /\ \A q \in Proc : q # p => at'[q] = at[q] /\ file'[q] = file[q]
    BY <1>20 DEF Unmark, Leave, Afterwards, TypeOK, InRecovery
  <2>2. marker[file[p]].by = p
    BY <2>1 DEF MarkerOwned, OwnMarker, InRecovery
  <2>3. \A q \in Proc : q # p /\ at[q] \in InRecovery => file[q] # file[p]
    BY <2>2 DEF MarkerOwned, OwnMarker
  <2>4. \A q \in Proc : OwnMarker(q)'
    BY <2>1, <2>3 DEF MarkerOwned, OwnMarker, TypeOK
  <2>5. ASSUME NEW n \in Names, marker'[n] # NoDir
        PROVE  at'[marker'[n].by] \in InRecovery /\ file'[marker'[n].by] = n
    <3>1. n # file[p] /\ marker'[n] = marker[n]
      BY <2>1, <2>5 DEF TypeOK
    <3>2. marker[n].by \in Proc /\ at[marker[n].by] \in InRecovery /\ file[marker[n].by] = n
      BY <2>5, <3>1 DEF MarkerOwned, TypeOK, Dir
    <3>3. QED
      BY <2>1, <3>1, <3>2
  <2>6. QED
    BY <2>4, <2>5 DEF MarkerOwned
<1>21. ASSUME NEW p \in Proc, List(p) PROVE Outside(p)
  BY <1>21 DEF List, TypeOK, InRecovery
<1>22. ASSUME NEW p \in Proc, NEW n \in Names, ScanNext(p, n) PROVE Outside(p)
  BY <1>22 DEF ScanNext, TypeOK, InRecovery
<1>23. ASSUME NEW p \in Proc, ScanDone(p) PROVE Outside(p)
  BY <1>23 DEF ScanDone, TypeOK, InRecovery
<1>24. ASSUME NEW p \in Proc, Active(p) PROVE Outside(p)
  BY <1>24 DEF Active, TypeOK, InRecovery
<1>25. ASSUME NEW p \in Proc, Inactive(p) PROVE Outside(p)
  BY <1>25 DEF Inactive, TypeOK, InRecovery
<1>26. ASSUME NEW p \in Proc, GiveUp(p) PROVE Outside(p)
  BY <1>26 DEF GiveUp, TypeOK, InRecovery
<1>27. ASSUME NEW p \in Proc, AskGuard(p) PROVE Outside(p)
  BY <1>27 DEF AskGuard, TypeOK, InRecovery
<1>28. ASSUME NEW p \in Proc, NEW n \in Names, Release(p, n) PROVE Outside(p)
  BY <1>28 DEF Release, TypeOK, InRecovery
<1>29. ASSUME NEW p \in Proc, Crash(p) PROVE Outside(p)
  BY <1>29 DEF Crash, TypeOK, InRecovery, Reliable
<1>30. ASSUME NEW n \in Names, Age(n) PROVE MarkerOwned'
  <2>1. ~MayAge(marker[n])
    BY MarkersAlive DEF MayAge, IsAlive, MarkerOwned, OwnMarker, OpShape, Shape, InRecovery, Reliable, TypeOK, Dir
  <2>2. UNCHANGED <<marker, at, file>>
    BY <1>30, <2>1 DEF Age
  <2>3. QED
    BY <2>2 DEF MarkerOwned, OwnMarker
<1>31. CASE UNCHANGED vars
  BY <1>31 DEF vars, MarkerOwned, OwnMarker
<1>32. ASSUME NEW p \in Proc, Outside(p) PROVE MarkerOwned'
  BY <1>32, MarkerKept
<1> HIDE DEF Outside, LeaseInv, Go, Throw, Missing, Forget, locals
<1>33. QED
  BY <1>1, <1>2, <1>3, <1>4, <1>5, <1>6, <1>7, <1>8, <1>9, <1>10, <1>11, <1>12, <1>13, <1>14, <1>15, <1>16, <1>17, <1>18, <1>19, <1>20, <1>21, <1>22, <1>23, <1>24, <1>25, <1>26, <1>27, <1>28, <1>29, <1>30, <1>31, <1>32 DEF Next, Continue

(* Under its marker a recoverer's judgement stays true until it acts.      *)
LEMMA RemovesDeadStep == LeaseInv /\ [Next]_vars /\ Reliable => RemovesDead'
<1> SUFFICES ASSUME LeaseInv, [Next]_vars, Reliable PROVE RemovesDead'
  OBVIOUS
<1> USE DEF LeaseInv, OpShape, Shape, RemovesDead, MarkerOwned, OwnMarker, LeaseOnDisk, OnDisk, SignedBy, Unsigned, IsAlive, AgedIsDead, TypeOK, Go, Throw, Missing, Forget, locals, InRecovery
<1>1. ASSUME NEW p \in Proc, NEW n \in Sessions, NEW c \in BOOLEAN, AcquireSession(p, n, c) PROVE RemovesDead'
  BY <1>1 DEF AcquireSession
<1>2. ASSUME NEW p \in Proc, NEW e \in SUBSET Sessions, NEW b \in BOOLEAN, AcquireGuard(p, e, b) PROVE RemovesDead'
  BY <1>2 DEF AcquireGuard
<1>3. ASSUME NEW p \in Proc, Recovery(p) PROVE RemovesDead'
  BY <1>3 DEF Recovery
<1>4. ASSUME NEW p \in Proc, RecoveryRead(p) PROVE RemovesDead'
  BY <1>4 DEF RecoveryRead
<1>5. ASSUME NEW p \in Proc, RecoveryCompare(p) PROVE RemovesDead'
  BY <1>5 DEF RecoveryCompare
<1>6. ASSUME NEW p \in Proc, RecoveryRemove(p) PROVE RemovesDead'
  BY <1>6 DEF RecoveryRemove
<1>7. ASSUME NEW p \in Proc, RecoveryGone(p) PROVE RemovesDead'
  BY <1>7 DEF RecoveryGone
<1>8. ASSUME NEW p \in Proc, Mkdir(p) PROVE RemovesDead'
  BY SMTT(20), <1>8 DEF Mkdir
<1>9. ASSUME NEW p \in Proc, Sign(p) PROVE RemovesDead'
  BY <1>9 DEF Sign
<1>10. ASSUME NEW p \in Proc, SignFails(p) PROVE RemovesDead'
  BY <1>10 DEF SignFails
<1>11. ASSUME NEW p \in Proc, Read(p) PROVE RemovesDead'
  BY <1>11 DEF Read
<1>12. ASSUME NEW p \in Proc, Mark(p) PROVE RemovesDead'
  BY <1>12 DEF Mark, Afterwards
<1>13. ASSUME NEW p \in Proc, SignMarker(p) PROVE RemovesDead'
  BY <1>13 DEF SignMarker
<1>14. ASSUME NEW p \in Proc, SignMarkerFails(p) PROVE RemovesDead'
  BY <1>14 DEF SignMarkerFails, Afterwards
<1>15. ASSUME NEW p \in Proc, Compare(p) PROVE RemovesDead'
  BY <1>15 DEF Compare
<1>16. ASSUME NEW p \in Proc, Confirm(p) PROVE RemovesDead'
  <2>1. \A q \in Proc : q # p => at'[q] = at[q]
    BY <1>16 DEF Confirm
  <2>2. at'[p] = "remove" => target[file[p]] # NoDir /\ target[file[p]].by \notin alive
    <3>1. file[p] \in Names
      OBVIOUS
    <3>2. target[file[p]] # NoDir => target[file[p]].state \in {"fresh", "aged", "signed"}
      BY <3>1 DEF Dir
    <3>3. QED
      BY <1>16, <3>1, <3>2 DEF Confirm
  <2>3. UNCHANGED <<target, file, alive>>
    BY <1>16 DEF Confirm
  <2>4. QED
    BY <2>1, <2>2, <2>3
<1>17. ASSUME NEW p \in Proc, Remove(p) PROVE RemovesDead'
  BY <1>17 DEF Remove
<1>18. ASSUME NEW p \in Proc, ReadMarker(p) PROVE RemovesDead'
  BY <1>18 DEF ReadMarker, Leave, Afterwards
<1>19. ASSUME NEW p \in Proc, Unmark(p) PROVE RemovesDead'
  BY <1>19 DEF Unmark, Leave, Afterwards
<1>20. ASSUME NEW p \in Proc, List(p) PROVE RemovesDead'
  BY <1>20 DEF List
<1>21. ASSUME NEW p \in Proc, NEW n \in Names, ScanNext(p, n) PROVE RemovesDead'
  BY <1>21 DEF ScanNext
<1>22. ASSUME NEW p \in Proc, ScanDone(p) PROVE RemovesDead'
  BY <1>22 DEF ScanDone
<1>23. ASSUME NEW p \in Proc, Active(p) PROVE RemovesDead'
  BY <1>23 DEF Active
<1>24. ASSUME NEW p \in Proc, Inactive(p) PROVE RemovesDead'
  BY <1>24 DEF Inactive
<1>25. ASSUME NEW p \in Proc, GiveUp(p) PROVE RemovesDead'
  BY <1>25 DEF GiveUp, ReleaseFiles
<1>26. ASSUME NEW p \in Proc, AskGuard(p) PROVE RemovesDead'
  <2>1. at'[p] # "remove" /\ \A q \in Proc : q # p => at'[q] = at[q] /\ file'[q] = file[q]
    BY <1>26 DEF AskGuard
  <2>2. Guard \in Names /\ alive' = alive
    BY <1>26 DEF AskGuard, Names
  <2>3. ASSUME NEW n \in Names, target[n] # NoDir
        PROVE  target'[n] # NoDir /\ target'[n].by = target[n].by
    <3>1. Signed(target[n].by, "asked") # NoDir /\ Signed(target[n].by, "asked").by = target[n].by
      BY <2>3, DirTypes DEF Signed, Dir
    <3>2. QED
      BY <1>26, <2>2, <2>3, <3>1 DEF AskGuard
  <2>4. QED
    BY <2>1, <2>2, <2>3
<1>27. ASSUME NEW p \in Proc, NEW n \in Names, Release(p, n) PROVE RemovesDead'
  BY <1>27 DEF Release, ReleaseFiles
<1>28. ASSUME NEW p \in Proc, Crash(p) PROVE RemovesDead'
  BY <1>28 DEF Crash
<1>29. ASSUME NEW n \in Names, Age(n) PROVE RemovesDead'
  <2>1. UNCHANGED <<at, file, alive>>
    BY <1>29 DEF Age
  <2>2. ASSUME NEW m \in Names, target[m] # NoDir
        PROVE  target'[m] # NoDir /\ target'[m].by = target[m].by
    <3>1. Aged(target[m]) # NoDir /\ Aged(target[m]).by = target[m].by
      BY <2>2, DirTypes DEF Aged
    <3>2. QED
      BY SMTT(20), <1>29, <2>2, <3>1 DEF Age, MayAge
  <2>3. QED
    BY <2>1, <2>2
<1>30. ASSUME NEW p \in Proc, NEW n \in Names, Look(p, n) PROVE RemovesDead'
  BY <1>30 DEF Look
<1>31. CASE UNCHANGED vars
  BY <1>31 DEF vars
<1> HIDE DEF LeaseInv, OpShape, Shape, RemovesDead, MarkerOwned, OwnMarker, LeaseOnDisk, OnDisk, SignedBy, Unsigned, IsAlive, AgedIsDead, TypeOK, Go, Throw, Missing, Forget, locals, InRecovery, RemovesDead
<1>32. QED
  BY <1>1, <1>2, <1>3, <1>4, <1>5, <1>6, <1>7, <1>8, <1>9, <1>10, <1>11, <1>12, <1>13, <1>14, <1>15, <1>16, <1>17, <1>18, <1>19, <1>20, <1>21, <1>22, <1>23, <1>24, <1>25, <1>26, <1>27, <1>28, <1>29, <1>30, <1>31 DEF Next, Continue

-----------------------------------------------------------------------------
(* The inductive invariant holds before any process has acted.             *)
LEMMA LeaseInvInit == Init => LeaseInv
  BY TypeInit
  DEF Init, LeaseInv, OpShape, Shape, LeaseOnDisk, OnDisk, AgedIsDead, MarkerOwned,
      OwnMarker, RemovesDead, InRecovery

(* Every step of the protocol, by any process, keeps the whole of it.      *)
LEMMA LeaseInvStep == LeaseInv /\ [Next]_vars /\ Reliable => LeaseInv'
  BY TypeStep, OpShapeStep, LeaseOnDiskStep, AgedIsDeadStep, MarkerOwnedStep, RemovesDeadStep
  DEF LeaseInv

(* Type correctness, whatever may crash or stall.                          *)
THEOREM TypeCorrect == Spec => []TypeOK
  BY TypeInit, TypeStep, PTL DEF Spec

(* So it holds at every moment of a reliable run.                          *)
LEMMA LeaseInvariant == ASSUME Reliable PROVE Spec => []LeaseInv
<1>1. LeaseInv /\ [Next]_vars => LeaseInv'
  BY LeaseInvStep
<1>2. QED
  BY <1>1, LeaseInvInit, PTL DEF Spec

(* Two processes that both have a lease on a name have both signed the one *)
(* directory of that name.                                                 *)
LEMMA OneHolder ==
    ASSUME LeaseInv, NEW p \in Proc, NEW q \in Proc,
           NEW n \in Names, n \in held[p], n \in held[q]
    PROVE  p = q
  BY DEF LeaseInv, LeaseOnDisk, OnDisk, SignedBy

(* No two live processes are ever granted the same lease.                  *)
THEOREM MutualExclusion == ASSUME Reliable PROVE Spec => []Exclusive
<1>1. LeaseInv => Exclusive
  BY OneHolder DEF LeaseInv, OpShape, Shape, Exclusive, TypeOK
<1>2. Spec => []LeaseInv
  BY LeaseInvariant
<1>3. QED
  BY <1>1, <1>2, PTL

-----------------------------------------------------------------------------
(* The guard's scan and a session's second look at the guard: whichever    *)
(* comes later sees the other.                                             *)
Looking == {"recovery", "recoveryRead", "recoveryCompare", "recoveryRemove",
            "recoveryGone", "read"}

(* The process of the guard has it, or has found no life in session n.     *)
GuardPassed(p, n) ==
    \/ Guard \in granted[p]
    \/ /\ at[p] \notin {"idle", "dead", "list", "active", "giveUp"}
       /\ phase[p] = "scan"
       /\ n \notin todo[p]
       /\ at[p] \in Looking => file[p] # n

(* The process of session n has it, or has found no life in the guard.     *)
SessionPassed(q, n) ==
    \/ n \in granted[q]
    \/ /\ at[q] \in InRecovery \union {"mark", "inactive"}
       /\ phase[q] = "post"
       /\ args[q].goal = n

NoneMissed ==
    \A p, q \in Proc, n \in Sessions : GuardPassed(p, n) /\ SessionPassed(q, n) => p = q

(* Whoever has passed its look at the other side already has its lease.    *)
LEMMA PassedHolds ==
    ASSUME LeaseInv, NEW p \in Proc, NEW n \in Sessions
    PROVE  /\ GuardPassed(p, n) => Guard \in held[p]
           /\ SessionPassed(p, n) => n \in held[p]
  BY DEF LeaseInv, OpShape, Shape, GuardPassed, SessionPassed, InRecovery

(* No step lets both sides pass: whichever looks later sees the other's    *)
(* directory, which stays while its owner lives.                           *)
LEMMA NoneMissedStep == LeaseInv /\ LeaseInv' /\ NoneMissed /\ [Next]_vars => NoneMissed'
<1> SUFFICES ASSUME LeaseInv, LeaseInv', NoneMissed, [Next]_vars PROVE NoneMissed'
  OBVIOUS
<1> DEFINE NoGain == \A p \in Proc, n \in Sessions :
                        /\ GuardPassed(p, n)' => GuardPassed(p, n)
                        /\ SessionPassed(p, n)' => SessionPassed(p, n)
<1> USE DEF Go, Throw, Missing, Forget, locals
<1>1. ASSUME NEW p \in Proc, NEW n \in Sessions, NEW c \in BOOLEAN, AcquireSession(p, n, c) PROVE NoGain
  BY <1>1 DEF AcquireSession, GuardPassed, SessionPassed, LeaseInv, OpShape, Shape, MarkerOwned, OwnMarker, TypeOK, Looking, InRecovery
<1>2. ASSUME NEW p \in Proc, NEW e \in SUBSET Sessions, NEW b \in BOOLEAN, AcquireGuard(p, e, b) PROVE NoGain
  BY <1>2 DEF AcquireGuard, GuardPassed, SessionPassed, LeaseInv, OpShape, Shape, MarkerOwned, OwnMarker, TypeOK, Looking, InRecovery
<1>3. ASSUME NEW p \in Proc, NEW n \in Names, Look(p, n) PROVE NoGain
  BY <1>3 DEF Look, GuardPassed, SessionPassed, LeaseInv, OpShape, Shape, MarkerOwned, OwnMarker, TypeOK, Looking, InRecovery
<1>4. ASSUME NEW p \in Proc, Recovery(p) PROVE NoGain
  BY <1>4 DEF Recovery, GuardPassed, SessionPassed, LeaseInv, OpShape, Shape, MarkerOwned, OwnMarker, TypeOK, Looking, InRecovery
<1>5. ASSUME NEW p \in Proc, RecoveryRead(p) PROVE NoGain
  BY <1>5 DEF RecoveryRead, GuardPassed, SessionPassed, LeaseInv, OpShape, Shape, MarkerOwned, OwnMarker, TypeOK, Looking, InRecovery
<1>6. ASSUME NEW p \in Proc, RecoveryCompare(p) PROVE NoGain
  BY <1>6 DEF RecoveryCompare, GuardPassed, SessionPassed, LeaseInv, OpShape, Shape, MarkerOwned, OwnMarker, TypeOK, Looking, InRecovery
<1>7. ASSUME NEW p \in Proc, RecoveryRemove(p) PROVE NoGain
  BY <1>7 DEF RecoveryRemove, GuardPassed, SessionPassed, LeaseInv, OpShape, Shape, MarkerOwned, OwnMarker, TypeOK, Looking, InRecovery
<1>8. ASSUME NEW p \in Proc, RecoveryGone(p) PROVE NoGain
  BY <1>8 DEF RecoveryGone, GuardPassed, SessionPassed, LeaseInv, OpShape, Shape, MarkerOwned, OwnMarker, TypeOK, Looking, InRecovery
<1>9. ASSUME NEW p \in Proc, Mkdir(p) PROVE NoGain
  BY <1>9 DEF Mkdir, GuardPassed, SessionPassed, LeaseInv, OpShape, Shape, MarkerOwned, OwnMarker, TypeOK, Looking, InRecovery
<1>10. ASSUME NEW p \in Proc, SignFails(p) PROVE NoGain
  BY <1>10 DEF SignFails, GuardPassed, SessionPassed, LeaseInv, OpShape, Shape, MarkerOwned, OwnMarker, TypeOK, Looking, InRecovery
<1>11. ASSUME NEW p \in Proc, Mark(p) PROVE NoGain
  BY <1>11 DEF Mark, Afterwards, GuardPassed, SessionPassed, LeaseInv, OpShape, Shape, MarkerOwned, OwnMarker, TypeOK, Looking, InRecovery
<1>12. ASSUME NEW p \in Proc, SignMarker(p) PROVE NoGain
  BY <1>12 DEF SignMarker, GuardPassed, SessionPassed, LeaseInv, OpShape, Shape, MarkerOwned, OwnMarker, TypeOK, Looking, InRecovery
<1>13. ASSUME NEW p \in Proc, SignMarkerFails(p) PROVE NoGain
  BY <1>13 DEF SignMarkerFails, Afterwards, GuardPassed, SessionPassed, LeaseInv, OpShape, Shape, MarkerOwned, OwnMarker, TypeOK, Looking, InRecovery
<1>14. ASSUME NEW p \in Proc, Compare(p) PROVE NoGain
  BY <1>14 DEF Compare, GuardPassed, SessionPassed, LeaseInv, OpShape, Shape, MarkerOwned, OwnMarker, TypeOK, Looking, InRecovery
<1>15. ASSUME NEW p \in Proc, Confirm(p) PROVE NoGain
  BY <1>15 DEF Confirm, GuardPassed, SessionPassed, LeaseInv, OpShape, Shape, MarkerOwned, OwnMarker, TypeOK, Looking, InRecovery
<1>16. ASSUME NEW p \in Proc, Remove(p) PROVE NoGain
  BY <1>16 DEF Remove, GuardPassed, SessionPassed, LeaseInv, OpShape, Shape, MarkerOwned, OwnMarker, TypeOK, Looking, InRecovery
<1>17. ASSUME NEW p \in Proc, ReadMarker(p) PROVE NoGain
  BY <1>17 DEF ReadMarker, Leave, Afterwards, GuardPassed, SessionPassed, LeaseInv, OpShape, Shape, MarkerOwned, OwnMarker, TypeOK, Looking, InRecovery
<1>18. ASSUME NEW p \in Proc, Unmark(p) PROVE NoGain
  BY <1>18 DEF Unmark, Leave, Afterwards, GuardPassed, SessionPassed, LeaseInv, OpShape, Shape, MarkerOwned, OwnMarker, TypeOK, Looking, InRecovery
<1>19. ASSUME NEW p \in Proc, NEW n \in Names, ScanNext(p, n) PROVE NoGain
  BY <1>19 DEF ScanNext, GuardPassed, SessionPassed, LeaseInv, OpShape, Shape, MarkerOwned, OwnMarker, TypeOK, Looking, InRecovery
<1>20. ASSUME NEW p \in Proc, Active(p) PROVE NoGain
  BY <1>20 DEF Active, GuardPassed, SessionPassed, LeaseInv, OpShape, Shape, MarkerOwned, OwnMarker, TypeOK, Looking, InRecovery
<1>21. ASSUME NEW p \in Proc, Inactive(p) PROVE NoGain
  BY SMTT(20), <1>21 DEF Inactive, GuardPassed, SessionPassed, LeaseInv, OpShape, Shape, MarkerOwned, OwnMarker, TypeOK, Looking, InRecovery
<1>22. ASSUME NEW p \in Proc, GiveUp(p) PROVE NoGain
  BY <1>22 DEF GiveUp, ReleaseFiles, GuardPassed, SessionPassed, LeaseInv, OpShape, Shape, MarkerOwned, OwnMarker, TypeOK, Looking, InRecovery
<1>23. ASSUME NEW p \in Proc, AskGuard(p) PROVE NoGain
  BY SMTT(20), <1>23 DEF AskGuard, GuardPassed, SessionPassed, LeaseInv, OpShape, Shape, MarkerOwned, OwnMarker, TypeOK, Looking, InRecovery
<1>24. ASSUME NEW p \in Proc, NEW n \in Names, Release(p, n) PROVE NoGain
  BY <1>24 DEF Release, ReleaseFiles, GuardPassed, SessionPassed, LeaseInv, OpShape, Shape, MarkerOwned, OwnMarker, TypeOK, Looking, InRecovery
<1>25. ASSUME NEW p \in Proc, Crash(p) PROVE NoGain
  BY <1>25 DEF Crash, GuardPassed, SessionPassed, LeaseInv, OpShape, Shape, MarkerOwned, OwnMarker, TypeOK, Looking, InRecovery
<1>26. ASSUME NEW n \in Names, Age(n) PROVE NoGain
  BY <1>26 DEF Age, GuardPassed, SessionPassed, LeaseInv, OpShape, Shape, MarkerOwned, OwnMarker, TypeOK, Looking, InRecovery
<1>27. CASE UNCHANGED vars
  BY <1>27 DEF vars, GuardPassed, SessionPassed, NoneMissed
<1>28. ASSUME NEW p \in Proc, Sign(p) PROVE NoneMissed'
  <2>1. CASE ~args[p].capability
    <3>1. NoGain
      BY <1>28, <2>1 DEF Sign, GuardPassed, SessionPassed, LeaseInv, TypeOK, Looking, InRecovery
    <3>2. QED
      BY <3>1 DEF NoneMissed
  <2>2. CASE args[p].capability
    <3>1. Guard \in held[p] /\ Guard \in held'[p]
      BY <1>28, <2>2 DEF Sign, LeaseInv, OpShape, Shape, TypeOK
    <3>2. \A q \in Proc, n \in Sessions : q # p => ~GuardPassed(q, n)'
      <4>1. \A q \in Proc, n \in Sessions :
               q # p => (GuardPassed(q, n)' => GuardPassed(q, n))
        BY <1>28, <2>2 DEF Sign, GuardPassed, LeaseInv, TypeOK
      <4>2. \A q \in Proc, n \in Sessions : q # p => ~GuardPassed(q, n)
        BY <3>1, PassedHolds, OneHolder DEF Names
      <4>3. QED
        BY <4>1, <4>2
    <3>3. \A q \in Proc, n \in Sessions : q # p =>
             (SessionPassed(q, n)' => SessionPassed(q, n))
      BY <1>28, <2>2 DEF Sign, SessionPassed, LeaseInv, TypeOK
    <3>4. \A n \in Sessions : GuardPassed(p, n)' => GuardPassed(p, n)
      BY <1>28, <2>2 DEF Sign, GuardPassed, LeaseInv, TypeOK, OpShape, Shape
    <3>5. QED
      BY <3>2, <3>3, <3>4 DEF NoneMissed
  <2>3. QED
    BY <2>1, <2>2
<1>29. ASSUME NEW p \in Proc, List(p) PROVE NoneMissed'
  <2>1. \A q \in Proc, n \in Sessions : SessionPassed(q, n)' => SessionPassed(q, n)
    BY <1>29 DEF List, SessionPassed, LeaseInv, TypeOK, InRecovery
  <2>2. \A q \in Proc, n \in Sessions : q # p /\ GuardPassed(q, n)' => GuardPassed(q, n)
    BY <1>29 DEF List, GuardPassed, LeaseInv, TypeOK
  <2>3. ASSUME NEW n \in Sessions, NEW q \in Proc, q # p, GuardPassed(p, n)', SessionPassed(q, n)
        PROVE  FALSE
    <3>1. n \in held[q] /\ n \in Names
      BY <2>3, PassedHolds DEF Names
    <3>2. target[n] # NoDir /\ n \notin held[p]
      BY <2>3, <3>1, OneHolder DEF LeaseInv, LeaseOnDisk, OnDisk, SignedBy
    <3>3. args[p].except \subseteq held[p] /\ Guard \notin granted[p]
      BY <1>29 DEF List, LeaseInv, OpShape, Shape
    <3>4. n \notin todo'[p] /\ at'[p] # "active"
      BY <1>29, <2>3, <3>3 DEF List, GuardPassed
    <3>5. QED
      BY <1>29, <3>2, <3>3, <3>4 DEF List, LeaseInv, TypeOK
  <2>4. QED
    BY <2>1, <2>2, <2>3 DEF NoneMissed
<1>30. ASSUME NEW p \in Proc, Read(p) PROVE NoneMissed'
  <2>1. file[p] \in Names /\ at[p] = "read"
    BY <1>30 DEF Read, LeaseInv, TypeOK
  <2>2. \A q \in Proc, n \in Sessions : q # p =>
           /\ GuardPassed(q, n)' => GuardPassed(q, n)
           /\ SessionPassed(q, n)' => SessionPassed(q, n)
    BY <1>30 DEF Read, GuardPassed, SessionPassed, LeaseInv, TypeOK
  <2>3. CASE at'[p] \in {"idle", "active"}
    <3>1. NoGain
      BY <1>30, <2>1, <2>2, <2>3 DEF Read, GuardPassed, SessionPassed, LeaseInv, TypeOK, InRecovery
    <3>2. QED
      BY <3>1 DEF NoneMissed
  <2>4. CASE at'[p] \notin {"idle", "active"}
    <3>1. UNCHANGED <<phase, file, todo, args, granted, held>>
      BY <1>30, <2>4 DEF Read, LeaseInv, TypeOK
    <3>2. target[file[p]] = NoDir \/ ~IsAlive(target[file[p]])
      BY <1>30, <2>4 DEF Read, LeaseInv, TypeOK
    <3>3. \A q \in Proc : file[p] \notin held[q]
      BY <2>1, <3>2 DEF LeaseInv, OpShape, Shape, LeaseOnDisk, OnDisk, SignedBy, IsAlive
    <3>4. ASSUME NEW n \in Sessions, NEW q \in Proc, q # p, GuardPassed(p, n)', SessionPassed(q, n)
          PROVE  FALSE
      <4>1. n # file[p]
        BY <3>3, <3>4, PassedHolds
      <4>2. GuardPassed(p, n)
        BY <2>1, <3>1, <3>4, <4>1 DEF GuardPassed
      <4>3. QED
        BY <3>4, <4>2 DEF NoneMissed
    <3>5. ASSUME NEW n \in Sessions, NEW q \in Proc, q # p, GuardPassed(q, n), SessionPassed(p, n)'
          PROVE  FALSE
      <4>1. Guard \in held[q]
        BY <3>5, PassedHolds
      <4>2. SessionPassed(p, n)
        BY <2>1, <3>1, <3>3, <3>5, <4>1 DEF SessionPassed, LeaseInv, OpShape, Shape
      <4>3. QED
        BY <3>5, <4>2 DEF NoneMissed
    <3>6. QED
      BY <2>2, <3>4, <3>5 DEF NoneMissed
  <2>5. QED
    BY <2>3, <2>4
<1>31. ASSUME NEW p \in Proc, ScanDone(p) PROVE NoneMissed'
  <2>1. \A n \in Sessions : GuardPassed(p, n)
    BY <1>31 DEF ScanDone, GuardPassed, Looking, LeaseInv, OpShape, Shape
  <2>2. \A q \in Proc, n \in Sessions :
           /\ q # p => (GuardPassed(q, n)' => GuardPassed(q, n))
           /\ SessionPassed(q, n)' => SessionPassed(q, n)
    BY <1>31, GuardAssumption DEF ScanDone, GuardPassed, SessionPassed, LeaseInv, TypeOK, InRecovery
  <2>3. QED
    BY <2>1, <2>2 DEF NoneMissed
<1>32. NoGain => NoneMissed'
  BY DEF NoneMissed
<1> HIDE DEF NoGain, Go, Throw, Missing, Forget, locals
<1>33. QED
  BY <1>1, <1>2, <1>3, <1>4, <1>5, <1>6, <1>7, <1>8, <1>9, <1>10, <1>11, <1>12, <1>13, <1>14, <1>15, <1>16, <1>17, <1>18, <1>19, <1>20, <1>21, <1>22, <1>23, <1>24, <1>25, <1>26, <1>27, <1>28, <1>29, <1>30, <1>31, <1>32 DEF Next, Continue

(* While one process has the workspace guard, no other has a session.      *)
THEOREM GuardExcludes == ASSUME Reliable PROVE Spec => []GuardExclusion
<1>1. Init => NoneMissed
  BY DEF Init, NoneMissed, GuardPassed, SessionPassed, InRecovery
<1>2. LeaseInv /\ NoneMissed => GuardExclusion
  <2> SUFFICES ASSUME LeaseInv, NoneMissed, NEW p \in Proc, NEW q \in Proc, NEW n \in Names,
                      Guard \in granted[p], n \in granted[q]
               PROVE  p = q
    BY DEF GuardExclusion, LeaseInv, TypeOK
  <2>1. CASE n = Guard
    BY <2>1, OneHolder DEF LeaseInv, OpShape, Shape
  <2>2. CASE n \in Sessions
    BY <2>2 DEF NoneMissed, GuardPassed, SessionPassed
  <2>3. QED
    BY <2>1, <2>2 DEF Names
<1>3. Spec => []LeaseInv
  BY LeaseInvariant
<1>4. QED
  BY <1>1, <1>2, <1>3, NoneMissedStep, PTL DEF Spec

-----------------------------------------------------------------------------
(* Each grant is an Acquire of the abstract lease: the invariants after    *)
(* the step say that nobody else has what was granted.                     *)
Safe == LeaseInv /\ NoneMissed

(* What a step grants, nobody else has.                                    *)
LEMMA GrantIsFree ==
    ASSUME Safe', TypeOK, NEW p \in Proc, p \in alive, alive' = alive,
           NEW n \in Names, n \notin granted[p],
           granted' = [granted EXCEPT ![p] = @ \union {n}]
    PROVE  AbstractLease!Acquire(p, n)
<1>1. \A q \in Proc : q # p => granted'[q] = granted[q]
  BY DEF TypeOK
<1>2. n \in granted'[p]
  BY DEF TypeOK
<1>3. \A q \in Proc : granted'[q] \subseteq held'[q]
  BY DEF Safe, LeaseInv, OpShape, Shape
<1>4. \A q \in Proc : q # p => n \notin granted'[q]
  BY <1>2, <1>3 DEF Safe, LeaseInv, LeaseOnDisk, OnDisk, SignedBy
<1>5. ASSUME NEW q \in Proc, q # p, NEW m \in Sessions
      PROVE  ~(Guard \in granted'[p] /\ m \in granted'[q])
             /\ ~(Guard \in granted'[q] /\ m \in granted'[p])
  BY <1>5 DEF Safe, NoneMissed, GuardPassed, SessionPassed
<1>6. \A q \in Proc : granted'[q] \subseteq Names
  BY DEF Safe, LeaseInv, TypeOK
<1>7. AbstractLease!Free(p, n)
  BY <1>1, <1>2, <1>4, <1>5, <1>6, GuardAssumption
  DEF AbstractLease!Free, AbstractLease!Others, Names
<1>8. QED
  BY <1>7 DEF AbstractLease!Acquire

(* Every step of the protocol is a step of the abstract lease or leaves    *)
(* the grants alone.                                                       *)
LEMMA StepImplements == Safe /\ Safe' /\ [Next]_vars
                          => [AbstractLease!Next]_(AbstractLease!vars)
<1> SUFFICES ASSUME Safe, Safe', [Next]_vars
             PROVE  [AbstractLease!Next]_(AbstractLease!vars)
  OBVIOUS
<1> USE DEF AbstractLease!Next, AbstractLease!vars, AbstractLease!Names
<1>1. CASE UNCHANGED <<alive, granted>>
  BY <1>1
<1>2. ASSUME NEW p \in Proc, Sign(p), args[p].capability
      PROVE  AbstractLease!Next
  <2>1. args[p].goal \in Names /\ args[p].goal \notin granted[p] /\ p \in alive
    BY <1>2 DEF Sign, Safe, LeaseInv, TypeOK, Args, OpShape, Shape
  <2>2. granted' = [granted EXCEPT ![p] = @ \union {args[p].goal}] /\ alive' = alive
    BY <1>2 DEF Sign
  <2>3. AbstractLease!Acquire(p, args[p].goal)
    BY <2>1, <2>2, GrantIsFree DEF Safe, LeaseInv
  <2>4. QED
    BY <2>1, <2>3 DEF Names
<1>3. ASSUME NEW p \in Proc, ScanDone(p)
      PROVE  AbstractLease!Next
  <2>1. AbstractLease!Acquire(p, Guard)
    BY <1>3, GrantIsFree DEF ScanDone, Safe, LeaseInv, TypeOK, OpShape, Shape, Names
  <2>2. QED
    BY <2>1
<1>4. ASSUME NEW p \in Proc, Inactive(p), phase[p] = "post"
      PROVE  AbstractLease!Next
  <2>1. AbstractLease!Acquire(p, args[p].goal)
    <3>1. args[p].goal \in Names /\ Shape(p) /\ at[p] = "inactive"
      BY <1>4 DEF Inactive, Safe, LeaseInv, TypeOK, Args, OpShape
    <3>2. args[p].goal \notin granted[p] /\ p \in alive /\ TypeOK
      BY <1>4, <3>1 DEF Shape, Safe, LeaseInv
    <3>3. granted' = [granted EXCEPT ![p] = @ \union {args[p].goal}] /\ alive' = alive
      BY <1>4 DEF Inactive
    <3>. QED  BY <3>1, <3>2, <3>3, GrantIsFree
  <2>2. QED
    BY <2>1 DEF Safe, LeaseInv, TypeOK, Args, Names
<1>5. ASSUME NEW p \in Proc, NEW n \in Names, Release(p, n)
      PROVE  AbstractLease!Next
  BY <1>5 DEF Release, AbstractLease!Release, Names
<1>6. ASSUME NEW p \in Proc, Crash(p)
      PROVE  AbstractLease!Next
  BY <1>6 DEF Crash, AbstractLease!Die
<1>7. ASSUME NEW p \in Proc, Continue(p) PROVE
         \/ UNCHANGED <<alive, granted>>
         \/ Sign(p) /\ args[p].capability
         \/ ScanDone(p)
         \/ Inactive(p) /\ phase[p] = "post"
  BY <1>7 DEF Continue, Recovery, RecoveryRead, RecoveryCompare, RecoveryRemove, RecoveryGone,
       Mkdir, Sign, SignFails, Read, Mark, SignMarker, SignMarkerFails, Compare, Confirm,
       Remove, ReadMarker, Unmark, List, ScanNext, Active, Inactive, GiveUp, AskGuard
<1>8. ASSUME NEW p \in Proc, NEW n \in Sessions, NEW c \in BOOLEAN, AcquireSession(p, n, c)
      PROVE  UNCHANGED <<alive, granted>>
  BY <1>8 DEF AcquireSession
<1>9. ASSUME NEW p \in Proc, NEW e \in SUBSET Sessions, NEW b \in BOOLEAN, AcquireGuard(p, e, b)
      PROVE  UNCHANGED <<alive, granted>>
  BY <1>9 DEF AcquireGuard
<1>10. ASSUME NEW p \in Proc, NEW n \in Names, Look(p, n)
      PROVE  UNCHANGED <<alive, granted>>
  BY <1>10 DEF Look
<1>11. ASSUME NEW n \in Names, Age(n)
       PROVE  UNCHANGED <<alive, granted>>
  BY <1>11 DEF Age
<1>12. CASE UNCHANGED vars
  BY <1>1, <1>12 DEF vars
<1> HIDE DEF AbstractLease!Next, AbstractLease!vars
<1>13. CASE Next
  <2>1. (AbstractLease!Next \/ UNCHANGED <<alive, granted>>)
           => [AbstractLease!Next]_(AbstractLease!vars)
    BY <1>1
  <2>2. QED
    BY <1>2, <1>3, <1>4, <1>5, <1>6, <1>7, <1>8, <1>9, <1>10, <1>11, <1>13, <2>1 DEF Next
<1>14. QED
  BY <1>12, <1>13

(* The file protocol implements the abstract lease.                        *)
THEOREM Refinement == ASSUME Reliable PROVE Spec => ImplementsLease
<1>1. Init => NoneMissed
  BY DEF Init, NoneMissed, GuardPassed, SessionPassed, InRecovery
<1>2. Init => AbstractLease!Init
  BY DEF Init, AbstractLease!Init
<1>3. Spec => []LeaseInv
  BY LeaseInvariant
<1>4. Spec => []NoneMissed
  BY <1>1, <1>3, NoneMissedStep, PTL DEF Spec
<1>5. Spec => []Safe
  BY <1>3, <1>4, PTL DEF Safe
<1>6. QED
  BY <1>2, <1>5, StepImplements, PTL DEF Spec, ImplementsLease, AbstractLease!Spec


-----------------------------------------------------------------------------
(* A directory that goes was removed by one of four system calls: the      *)
(* error path of a signature, a recovery, or one of the two releases.      *)
LEMMA WhoRemoves ==
    ASSUME TypeOK, [Next]_vars, NEW n \in Names, target[n] # NoDir, target'[n] = NoDir
    PROVE  \E q \in Proc : \/ SignFails(q) \/ Remove(q) \/ GiveUp(q)
                           \/ \E m \in Names : Release(q, m)
<1>1. ASSUME NEW q \in Proc, Mkdir(q) PROVE FALSE
  <2>1. Fresh(q) # NoDir
    BY DirTypes DEF Fresh
  <2>. QED  BY <1>1, <2>1 DEF Mkdir, TypeOK
<1>2. ASSUME NEW q \in Proc, Sign(q) PROVE FALSE
  <2>1. \A y \in {"may", "no"} : Signed(q, y) # NoDir
    BY DirTypes DEF Signed
  <2>. QED  BY <1>2, <2>1 DEF Sign, TypeOK
<1>3. ASSUME NEW q \in Proc, AskGuard(q) PROVE FALSE
  <2>1. target' # target =>
          /\ target[Guard] # NoDir
          /\ target' = [target EXCEPT ![Guard] = Signed(target[Guard].by, "asked")]
    BY <1>3 DEF AskGuard
  <2>2. Guard \in Names /\ (target[Guard] # NoDir => target[Guard].by \in Proc)
    BY DEF Names, TypeOK, Dir
  <2>3. target[Guard] # NoDir => Signed(target[Guard].by, "asked") # NoDir
    BY <2>2, DirTypes DEF Signed
  <2>. QED  BY <2>1, <2>2, <2>3 DEF TypeOK
<1>4. ASSUME NEW m \in Names, Age(m) PROVE FALSE
  <2>1. target' # target => target[m] # NoDir /\ target' = [target EXCEPT ![m] = Aged(target[m])]
    BY <1>4 DEF Age, MayAge
  <2>2. target[m] # NoDir => Aged(target[m]) # NoDir
    BY DirTypes DEF Aged, TypeOK, Dir
  <2>. QED  BY <2>1, <2>2 DEF TypeOK
<1>5. ASSUME target' = target PROVE FALSE
  BY <1>5
<1>6. ASSUME NEW q \in Proc, Continue(q) PROVE SignFails(q) \/ Remove(q) \/ GiveUp(q)
  BY <1>1, <1>2, <1>3, <1>5, <1>6
  DEF Continue, Recovery, RecoveryRead, RecoveryCompare, RecoveryRemove, RecoveryGone, Read,
      Mark, SignMarker, SignMarkerFails, Compare, Confirm, ReadMarker, Unmark, List, ScanNext,
      ScanDone, Active, Inactive
<1>7. UNCHANGED vars => target' = target
  BY DEF vars
<1>8. ASSUME NEW q \in Proc,
             \/ \E m \in Sessions, c \in BOOLEAN : AcquireSession(q, m, c)
             \/ \E e \in SUBSET Sessions, b \in BOOLEAN : AcquireGuard(q, e, b)
             \/ \E m \in Names : Look(q, m)
             \/ Crash(q)
      PROVE  FALSE
  BY <1>5, <1>8 DEF AcquireSession, AcquireGuard, Look, Crash
<1>. QED  BY <1>4, <1>5, <1>6, <1>7, <1>8 DEF Next

(* A lease that a live process signed goes only when that process releases *)
(* it or gives it up, and with it the entry in localLeases: a recoverer    *)
(* has the marker and a dead owner when it removes, and nobody can have    *)
(* signed the directory that a process made to sign.                       *)
THEOREM OwnersRemove == ASSUME Reliable PROVE Spec => OnlyOwnerRemoves
<1>1. ASSUME LeaseInv, [Next]_vars, NEW n \in Names, NEW p \in alive,
             SignedBy(target[n], p), target'[n] = NoDir
      PROVE  at[p] \in {"idle", "giveUp"} /\ held'[p] = held[p] \ {n}
  <2>1. target[n] # NoDir /\ target[n].by = p /\ ~Unsigned(target[n]) /\ p \in Proc /\ TypeOK
    BY <1>1 DEF SignedBy, Unsigned, LeaseInv, TypeOK
  <2>2. PICK q \in Proc : \/ SignFails(q) \/ Remove(q) \/ GiveUp(q)
                          \/ \E m \in Names : Release(q, m)
    BY <1>1, <2>1, WhoRemoves
  <2>3. ~SignFails(q)
    BY <1>1 DEF SignFails, LeaseInv, LeaseOnDisk, OnDisk
  <2>4. ~Remove(q)
    <3> SUFFICES ASSUME Remove(q) PROVE FALSE
      OBVIOUS
    <3>1. file[q] \in Names /\ target[file[q]].by \notin alive
      BY <1>1 DEF Remove, LeaseInv, RemovesDead, TypeOK
    <3>2. n # file[q] => target'[n] = target[n]
      BY <2>1 DEF Remove, TypeOK
    <3>. QED  BY <1>1, <2>1, <3>1, <3>2
  <2>5. ASSUME NEW m \in Names, ReleaseFiles(q, m) PROVE q = p /\ held'[p] = held[p] \ {n}
    <3>1. n = m /\ SignedBy(target[m], q)
      BY <1>1, <2>1, <2>5 DEF ReleaseFiles, TypeOK
    <3>2. q = p
      BY <2>1, <3>1 DEF SignedBy
    <3>. QED  BY <2>1, <2>5, <3>1, <3>2 DEF ReleaseFiles, TypeOK
  <2>6. ASSUME GiveUp(q) PROVE at[p] \in {"idle", "giveUp"} /\ held'[p] = held[p] \ {n}
    <3>1. args[q].goal \in Names /\ ReleaseFiles(q, args[q].goal) /\ at[q] = "giveUp"
      BY <2>1, <2>6 DEF GiveUp, TypeOK, Args
    <3>. QED  BY <2>5, <3>1
  <2>7. ASSUME NEW m \in Names, Release(q, m)
        PROVE  at[p] \in {"idle", "giveUp"} /\ held'[p] = held[p] \ {n}
    BY <2>5, <2>7 DEF Release
  <2>. QED  BY <2>2, <2>3, <2>4, <2>6, <2>7
<1>2. LeaseInv /\ [Next]_vars
        => [\A n \in Names, p \in alive :
               SignedBy(target[n], p) /\ target'[n] = NoDir
                 => at[p] \in {"idle", "giveUp"} /\ held'[p] = held[p] \ {n}]_vars
  BY <1>1
<1>3. Spec => []LeaseInv
  BY LeaseInvariant
<1>. QED  BY <1>2, <1>3, PTL DEF Spec, OnlyOwnerRemoves
-----------------------------------------------------------------------------
(***************************************************************************)
(* The run ledger, whose writers take one of these leases: what it         *)
(* guarantees for every number of servers, runs, changes and faults.       *)
(***************************************************************************)
Line == Record \union {Torn}

(* A nonempty set of natural numbers has a least one, and a bounded one a  *)
(* greatest one.                                                           *)
LEMMA LeastExists ==
    ASSUME NEW S \in SUBSET Nat, S # {}
    PROVE  Min(S) \in S /\ \A i \in S : Min(S) =< i
<1>1. PICK m \in S : \A i \in S : <<i, m>> \notin OpToRel(<, Nat)
  BY NatLessThanWellFounded, WFMin
<1>2. \A i \in S : ~(i < m)
  BY <1>1, Zenon DEF OpToRel
<1>3. \A i \in S : m =< i
  BY <1>2
<1>. QED  BY <1>3 DEF Min

LEMMA GreatestExists ==
    ASSUME NEW n \in Nat, NEW S \in SUBSET (1 .. n), S # {}
    PROVE  Max(S) \in S /\ \A i \in S : i =< Max(S)
<1> DEFINE T == {n - i : i \in S}
<1>1. T \in SUBSET Nat /\ T # {}
  <2>1. \A i \in S : i \in 1 .. n
    OBVIOUS
  <2>2. \A i \in S : n - i \in Nat
    BY <2>1
  <2>. QED  BY <2>2
<1>2. Min(T) \in T /\ \A i \in T : Min(T) =< i
  BY <1>1, LeastExists
<1>3. PICK m \in S : Min(T) = n - m
  BY <1>2
<1>4. \A i \in S : n - i \in T
  OBVIOUS
<1>5. \A i \in S : i =< m
  <2>1. \A i \in S : Min(T) =< n - i
    BY <1>2, <1>4, Zenon
  <2>2. \A i \in S : n - m =< n - i
    BY <1>3, <2>1, Zenon
  <2>3. \A i \in S : i \in 1 .. n
    OBVIOUS
  <2> HIDE DEF T
  <2>. QED  BY <2>2, <2>3
<1>. QED  BY <1>5 DEF Max

(* The valid prefix has the records before the first broken line.          *)
LEMMA ValidIs ==
    ASSUME NEW f \in Seq(Line)
    PROVE  /\ Valid(f) \in Seq(Record) /\ Len(Valid(f)) =< Len(f)
           /\ \A i \in 1 .. Len(Valid(f)) : Valid(f)[i] = f[i]
           /\ Breaks(f) = {} => Valid(f) = f
           /\ Breaks(f) # {} => Len(Valid(f)) < Len(f) /\ f[Len(Valid(f)) + 1] = Torn
<1>1. Len(f) \in Nat /\ f \in [1 .. Len(f) -> Line] /\ DOMAIN f = 1 .. Len(f)
  BY LenProperties
<1>2. CASE Breaks(f) = {}
  <2>1. Valid(f) = f
    BY <1>2 DEF Valid
  <2>2. f \in [1 .. Len(f) -> Record]
    BY <1>1, <1>2 DEF Breaks, Line
  <2>3. f \in Seq(Record)
    BY <1>1, <2>2, SeqDef
  <2>. QED  BY <1>1, <1>2, <2>1, <2>3
<1>3. CASE Breaks(f) # {}
  <2> DEFINE m == Min(Breaks(f))
  <2>0. Breaks(f) \in SUBSET (1 .. Len(f)) /\ Breaks(f) \in SUBSET Nat
    BY <1>1 DEF Breaks
  <2>1. m \in Breaks(f) /\ \A i \in Breaks(f) : m =< i
    BY <1>3, <2>0, LeastExists
  <2>2. m \in 1 .. Len(f) /\ f[m] = Torn
    BY <1>1, <2>1 DEF Breaks
  <2>4. Valid(f) = SubSeq(f, 1, m - 1)
    BY <1>3 DEF Valid
  <2> HIDE DEF m
  <2>3. \A i \in 1 .. m - 1 : f[i] \in Record
    <3>1. ASSUME NEW i \in 1 .. m - 1 PROVE i \in 1 .. Len(f) /\ i \notin Breaks(f)
      BY <1>1, <2>1, <2>2, <3>1
    <3>2. ASSUME NEW i \in 1 .. m - 1 PROVE f[i] \in Line /\ f[i] # Torn
      BY <1>1, <3>1 DEF Breaks
    <3>. QED  BY <3>2 DEF Line
  <2>5. /\ SubSeq(f, 1, m - 1) \in Seq(Record)
        /\ Len(SubSeq(f, 1, m - 1)) = IF 1 =< m - 1 THEN m - 1 - 1 + 1 ELSE 0
        /\ \A i \in 1 .. m - 1 - 1 + 1 : SubSeq(f, 1, m - 1)[i] = f[1 + i - 1]
    BY <1>1, <2>2, <2>3, SubSeqProperties
  <2>6. Len(Valid(f)) = m - 1 /\ \A i \in 1 .. m - 1 : Valid(f)[i] = f[i]
    BY <1>1, <2>2, <2>4, <2>5
  <2>. QED  BY <1>1, <1>3, <2>2, <2>4, <2>5, <2>6
<1>. QED  BY <1>2, <1>3

(* Records have no broken line, and are their own valid prefix.            *)
LEMMA RecordsAreValid ==
    ASSUME NEW f \in Seq(Record)
    PROVE  f \in Seq(Line) /\ Breaks(f) = {} /\ Valid(f) = f
<1>1. Len(f) \in Nat /\ f \in [1 .. Len(f) -> Record] /\ DOMAIN f = 1 .. Len(f)
  BY LenProperties
<1>2. Breaks(f) = {}
  BY <1>1, ValueAssumption DEF Breaks
<1>3. f \in Seq(Line)
  BY SeqMonotonic DEF Line
<1>. QED  BY <1>2, <1>3 DEF Valid

(* A run's last record is the one no later record of the run follows.      *)
LEMMA LastCases ==
    ASSUME NEW f \in Seq(Record), NEW r
    PROVE  \/ /\ LastOf(f, r) = NoRecord
              /\ \A i \in 1 .. Len(f) : f[i].run # r
           \/ \E i \in 1 .. Len(f) :
                /\ LastOf(f, r) = f[i] /\ f[i] \in Record /\ f[i].run = r
                /\ \A j \in i + 1 .. Len(f) : f[j].run # r
<1>1. Len(f) \in Nat /\ f \in [1 .. Len(f) -> Record] /\ DOMAIN f = 1 .. Len(f)
  BY LenProperties
<1>2. CASE Mentions(f, r) = {}
  BY <1>1, <1>2 DEF LastOf, Mentions
<1>3. CASE Mentions(f, r) # {}
  <2> DEFINE m == Max(Mentions(f, r))
  <2>1. m \in Mentions(f, r) /\ \A i \in Mentions(f, r) : i =< m
    BY <1>1, <1>3, GreatestExists DEF Mentions
  <2>2. LastOf(f, r) = f[m]
    BY <1>3 DEF LastOf
  <2> HIDE DEF m
  <2>3. m \in 1 .. Len(f) /\ f[m].run = r /\ f[m] \in Record
    BY <1>1, <2>1 DEF Mentions
  <2>4. \A j \in m + 1 .. Len(f) : f[j].run # r
    BY <1>1, <2>1, <2>3 DEF Mentions
  <2>. QED  BY <2>2, <2>3, <2>4
<1>. QED  BY <1>2, <1>3

(* ... and the record that none follows is the last one.                   *)
LEMMA LastIs ==
    ASSUME NEW f \in Seq(Record), NEW r, NEW i \in 1 .. Len(f), f[i].run = r,
           \A j \in i + 1 .. Len(f) : f[j].run # r
    PROVE  LastOf(f, r) = f[i]
<1>1. Len(f) \in Nat
  BY LenProperties
<1>2. PICK k \in 1 .. Len(f) : /\ LastOf(f, r) = f[k] /\ f[k].run = r
                               /\ \A j \in k + 1 .. Len(f) : f[j].run # r
  BY LastCases
<1>3. i = k
  BY <1>1, <1>2
<1>. QED  BY <1>2, <1>3

LEMMA LastIsNone ==
    ASSUME NEW f \in Seq(Record), NEW r, \A i \in 1 .. Len(f) : f[i].run # r
    PROVE  LastOf(f, r) = NoRecord
BY LastCases

(* What a reader sees of a run is a record of that run.                    *)
LEMMA VisibleIs ==
    ASSUME NEW f \in Seq(Line), NEW r, Visible(f, r) # NoRecord
    PROVE  Visible(f, r) \in Record /\ Visible(f, r).run = r
BY ValidIs, LastCases DEF Visible

(* An appended record is its run's last; the other runs keep theirs.       *)
LEMMA AppendShows ==
    ASSUME NEW f \in Seq(Line), Breaks(f) = {}, NEW h \in Record
    PROVE  /\ Append(f, h) \in Seq(Line) /\ Breaks(Append(f, h)) = {}
           /\ Len(Append(f, h)) = Len(f) + 1
           /\ Visible(Append(f, h), h.run) = h
           /\ \A r : r # h.run => Visible(Append(f, h), r) = Visible(f, r)
<1> DEFINE g == Append(f, h)
<1>1. f \in Seq(Record) /\ Valid(f) = f /\ Len(f) \in Nat
  BY ValidIs, LenProperties
<1>2. /\ g \in Seq(Record) /\ Len(g) = Len(f) + 1
      /\ \A i \in 1 .. Len(f) : g[i] = f[i]
      /\ g[Len(f) + 1] = h
  BY <1>1, AppendProperties
<1> HIDE DEF g
<1>3. g \in Seq(Line) /\ Breaks(g) = {} /\ Valid(g) = g
  BY <1>2, RecordsAreValid
<1>4. LastOf(g, h.run) = h
  <2>1. Len(g) \in 1 .. Len(g) /\ g[Len(g)].run = h.run
    BY <1>1, <1>2
  <2>2. \A j \in Len(g) + 1 .. Len(g) : g[j].run # h.run
    BY <1>1, <1>2
  <2>. QED  BY <1>2, <2>1, <2>2, LastIs
<1>5. ASSUME NEW r, r # h.run
      PROVE  LastOf(g, r) = LastOf(f, r)
  <2>1. CASE \A i \in 1 .. Len(f) : f[i].run # r
    <3>1. \A i \in 1 .. Len(g) : g[i].run # r
      BY <1>1, <1>2, <1>5, <2>1
    <3>. QED  BY <1>1, <1>2, <2>1, <3>1, LastIsNone
  <2>2. CASE \E i \in 1 .. Len(f) : /\ LastOf(f, r) = f[i] /\ f[i].run = r
                                    /\ \A j \in i + 1 .. Len(f) : f[j].run # r
    <3>1. PICK i \in 1 .. Len(f) : /\ LastOf(f, r) = f[i] /\ f[i].run = r
                                   /\ \A j \in i + 1 .. Len(f) : f[j].run # r
      BY <2>2
    <3>2. i \in 1 .. Len(g) /\ g[i] = f[i]
      BY <1>1, <1>2, <3>1
    <3>3. \A j \in i + 1 .. Len(g) : g[j].run # r
      <4>1. \A j \in i + 1 .. Len(g) : j \in i + 1 .. Len(f) \/ j = Len(f) + 1
        BY <1>1, <1>2
      <4>2. \A j \in i + 1 .. Len(f) : g[j].run # r
        BY <1>1, <1>2, <3>1
      <4>. QED  BY SMTT(20), <1>2, <1>5, <4>1, <4>2
    <3>4. LastOf(g, r) = g[i]
      BY <1>2, <3>1, <3>2, <3>3, LastIs
    <3>. QED  BY <3>1, <3>2, <3>4
  <2>. QED  BY <1>1, <2>1, <2>2, LastCases
<1>. QED  BY <1>1, <1>2, <1>3, <1>4, <1>5 DEF Visible, g

(* A broken line at the end of a sound file hides nothing.                 *)
LEMMA TornHidesNothing ==
    ASSUME NEW f \in Seq(Line), Breaks(f) = {}
    PROVE  /\ Append(f, Torn) \in Seq(Line) /\ Breaks(Append(f, Torn)) # {}
           /\ \A r : Visible(Append(f, Torn), r) = Visible(f, r)
<1> DEFINE g == Append(f, Torn)
<1>1. f \in Seq(Record) /\ Valid(f) = f /\ Len(f) \in Nat
  BY ValidIs, LenProperties
<1>2. /\ g \in Seq(Line) /\ Len(g) = Len(f) + 1
      /\ \A i \in 1 .. Len(f) : g[i] = f[i]
      /\ g[Len(f) + 1] = Torn
  <2>1. Torn \in Line
    BY DEF Line
  <2>. QED  BY <2>1, AppendProperties
<1> HIDE DEF g
<1>3. DOMAIN g = 1 .. Len(f) + 1
  BY <1>2, LenProperties
<1>4. Len(f) + 1 \in Breaks(g)
  BY <1>1, <1>2, <1>3 DEF Breaks
<1>5. /\ Valid(g) \in Seq(Record) /\ Len(Valid(g)) \in Nat /\ Len(Valid(g)) < Len(g)
      /\ g[Len(Valid(g)) + 1] = Torn
      /\ \A i \in 1 .. Len(Valid(g)) : Valid(g)[i] = g[i]
  BY <1>2, <1>4, ValidIs, LenProperties
<1>6. \A i \in 1 .. Len(f) : f[i] # Torn
  <2>1. \A i \in 1 .. Len(f) : f[i] \in Record
    BY <1>1, ElementOfSeq
  <2>. QED  BY <2>1, ValueAssumption
<1>7. Len(Valid(g)) = Len(f)
  BY <1>1, <1>2, <1>5, <1>6
<1>8. Valid(g) = f
  <2>1. \A i \in 1 .. Len(f) : Valid(g)[i] = f[i]
    BY <1>2, <1>5, <1>7
  <2>. QED  BY <1>1, <1>5, <1>7, <2>1, SeqEqual
<1>. QED  BY <1>1, <1>2, <1>4, <1>8 DEF Visible, g

(* Cutting a file back to its valid prefix changes nothing a reader sees.  *)
LEMMA RepairHidesNothing ==
    ASSUME NEW f \in Seq(Line)
    PROVE  /\ Valid(f) \in Seq(Line) /\ Breaks(Valid(f)) = {}
           /\ Valid(f) = f <=> Breaks(f) = {}
           /\ \A r : Visible(Valid(f), r) = Visible(f, r)
<1>1. Valid(f) \in Seq(Record)
  BY ValidIs
<1>2. Valid(f) \in Seq(Line) /\ Breaks(Valid(f)) = {} /\ Valid(Valid(f)) = Valid(f)
  BY <1>1, RecordsAreValid
<1>3. Breaks(f) = {} => Valid(f) = f
  BY ValidIs
<1>. QED  BY <1>2, <1>3 DEF Visible

(* Compaction keeps, of the records that readers see, all that do not end  *)
(* their run.                                                              *)
LEMMA RetainedIs ==
    ASSUME NEW f \in Seq(Line)
    PROVE  /\ IsFiniteSet(Retained(f)) /\ Retained(f) \subseteq Record
           /\ \A x \in Retained(f) : x.run \in Run /\ x = Visible(f, x.run)
           /\ \A r \in Run : Visible(f, r) # NoRecord /\ ~Ended(Visible(f, r))
                => Visible(f, r) \in Retained(f)
<1>1. Retained(f) \subseteq Latest(f)
  BY DEF Retained
<1>2. ASSUME NEW x \in Latest(f)
      PROVE  x \in Record /\ x.run \in Run /\ x = Visible(f, x.run)
  <2>1. PICK r \in Run : x = Visible(f, r) /\ x # NoRecord
    BY <1>2 DEF Latest
  <2>2. x \in Record /\ x.run = r
    BY <2>1, VisibleIs
  <2>. QED  BY <2>1, <2>2
<1>3. IsFiniteSet(Latest(f))
  <2> DEFINE g == Valid(f)
             I == 1 .. Len(g)
             T == {g[i] : i \in I}
  <2>1. g \in Seq(Record) /\ Len(g) \in Nat
    BY ValidIs, LenProperties
  <2>2. IsFiniteSet(I)
    BY <2>1, FS_Interval
  <2>3. [i \in I |-> g[i]] \in Surjection(I, T)
    BY DEF Surjection
  <2>4. IsFiniteSet(T)
    BY <2>2, <2>3, FS_Surjection
  <2>5. Latest(f) \subseteq T
    <3>1. ASSUME NEW r \in Run, Visible(f, r) # NoRecord PROVE Visible(f, r) \in T
      BY <2>1, <3>1, LastCases DEF Visible
    <3>. QED  BY <3>1 DEF Latest
  <2>. QED  BY <2>4, <2>5, FS_Subset
<1>4. ASSUME NEW r \in Run, Visible(f, r) # NoRecord, ~Ended(Visible(f, r))
      PROVE  Visible(f, r) \in Retained(f)
  <2>1. Visible(f, r) \in Latest(f)
    BY <1>4, Zenon DEF Latest
  <2>. QED  BY <1>4, <2>1, Zenon DEF Retained
<1>5. IsFiniteSet(Retained(f))
  <2> DEFINE R == Retained(f)
             L == Latest(f)
  <2>1. R \in SUBSET L /\ IsFiniteSet(L)
    BY <1>1, <1>3, Zenon
  <2> HIDE DEF R, L
  <2>2. IsFiniteSet(R)
    BY <2>1, FS_Subset
  <2>. QED  BY <2>2 DEF R
<1>. QED  BY <1>1, <1>2, <1>4, <1>5

(* A list of records is a file without broken lines.                       *)
LEMMA ListIsRecords ==
    ASSUME NEW S \in SUBSET Record, IsFiniteSet(S), NEW list \in InOrder(S)
    PROVE  /\ list \in Seq(Record) /\ S = {list[i] : i \in 1 .. Len(list)}
           /\ \A i \in 1 .. Len(list) : list[i] \in S
<1>1. Cardinality(S) \in Nat
  BY FS_CardinalityType
<1>2. list \in [1 .. Cardinality(S) -> S] /\ S = {list[i] : i \in DOMAIN list}
  BY DEF InOrder
<1>3. list \in Seq(Record)
  <2>1. list \in [1 .. Cardinality(S) -> Record]
    BY <1>2
  <2>2. Seq(Record) = UNION {[1 .. n -> Record] : n \in Nat}
    BY SeqDef
  <2>. QED  BY <1>1, <2>1, <2>2
<1>4. DOMAIN list = 1 .. Len(list)
  BY <1>3, LenProperties
<1>5. S = {list[i] : i \in 1 .. Len(list)}
  BY <1>2, <1>4, Zenon
<1>6. \A i \in 1 .. Len(list) : list[i] \in S
  BY <1>2, <1>4, Zenon
<1>. QED  BY <1>3, <1>5, <1>6, Zenon

(* A list of one record of each run shows those records and no other.      *)
LEMMA ListShows ==
    ASSUME NEW S \in SUBSET Record, IsFiniteSet(S),
           \A x, y \in S : x.run = y.run => x = y, NEW list \in InOrder(S)
    PROVE  /\ list \in Seq(Line) /\ Breaks(list) = {}
           /\ \A x \in S : Visible(list, x.run) = x
           /\ \A r : (\A x \in S : x.run # r) => Visible(list, r) = NoRecord
<1>1. list \in Seq(Record)
  BY ListIsRecords
<1>2. /\ S = {list[i] : i \in 1 .. Len(list)}
      /\ \A i \in 1 .. Len(list) : list[i] \in S
  BY ListIsRecords
<1>3. list \in Seq(Line) /\ Breaks(list) = {} /\ Valid(list) = list
  BY <1>1, RecordsAreValid
<1>4. ASSUME NEW x \in S PROVE LastOf(list, x.run) = x
  <2>1. PICK i \in 1 .. Len(list) : list[i] = x
    BY <1>2
  <2>2. PICK k \in 1 .. Len(list) : LastOf(list, x.run) = list[k] /\ list[k].run = x.run
    BY <1>1, <2>1, LastCases
  <2>. QED  BY <1>2, <2>2
<1>5. ASSUME NEW r, \A x \in S : x.run # r PROVE LastOf(list, r) = NoRecord
  BY <1>1, <1>2, <1>5, LastIsNone
<1>. QED  BY <1>3, <1>4, <1>5 DEF Visible

-----------------------------------------------------------------------------
(* Every variable has its type, a server that appends has a record and a   *)
(* count of the lines, and one that replaces the file a finite set.        *)
Ready(s) == pc[s] = "append" => hand[s] # NoRecord /\ cache[s] # NoCache
LedgerTyped == LedgerTypeOK /\ \A s \in Server : Ready(s) /\ IsFiniteSet(collapsed[s])

(* Initially, and after every step, the ledger is typed.                   *)
LEMMA LedgerTypedInit == LedgerInit => LedgerTyped
<1> SUFFICES ASSUME LedgerInit PROVE LedgerTyped
  OBVIOUS
<1>1. ledger \in Seq(Record \union {Torn}) /\ version \in Nat /\ operations \in Nat /\ faults \in Nat
  BY EmptySeq DEF LedgerInit
<1>2. /\ hand \in [Server -> Record \union {NoRecord}]
      /\ collapsed \in [Server -> SUBSET Record]
      /\ cache \in [Server -> Cached \union {NoCache}]
  BY DEF LedgerInit
<1>3. /\ ended \in BOOLEAN /\ holder \in Server \union {Nobody}
      /\ owner \in [Run -> Server \union {Nobody}]
      /\ put \in [Run -> Record \union {NoRecord}]
  BY DEF LedgerInit
<1>4. pc \in [Server -> LedgerPositions] /\ \A s \in Server : pc[s] = "idle"
  BY DEF LedgerInit, LedgerPositions
<1>5. \A s \in Server : IsFiniteSet(collapsed[s])
  BY FS_EmptySet DEF LedgerInit
<1>. QED  BY <1>1, <1>2, <1>3, <1>4, <1>5 DEF LedgerTyped, LedgerTypeOK, Holding, Ready

(* What is written to the file is lines.                                   *)
LEMMA WrittenIsLines ==
    ASSUME ledger \in Seq(Line), NEW line \in Line
    PROVE  Written(line) \in Seq(Line)
<1>1. CASE ended
  BY <1>1, AppendProperties DEF Written
<1>2. CASE ~ended /\ Len(ledger) \in 1 .. Len(ledger)
  <2>1. Torn \in Line
    BY DEF Line
  <2>. QED  BY <1>2, <2>1, ExceptSeq DEF Written
<1>3. CASE ~ended /\ Len(ledger) \notin 1 .. Len(ledger)
  <2>1. /\ ledger \in [1 .. Len(ledger) -> Line] /\ DOMAIN ledger = 1 .. Len(ledger)
    BY LenProperties
  <2>2. [ledger EXCEPT ![Len(ledger)] = Torn] = ledger
    BY <1>3, <2>1
  <2>. QED  BY <1>3, <2>2 DEF Written
<1>. QED  BY <1>1, <1>2, <1>3

(* A write that is cut off leaves lines, and whole records in put.         *)
LEMMA CutType ==
    ASSUME LedgerTyped, NEW s \in Server, NEW tear \in Tears, Cut(s, tear), pc[s] = "append"
    PROVE  /\ ledger' \in Seq(Record \union {Torn}) /\ ended' \in BOOLEAN /\ version' \in Nat
           /\ put' \in [Run -> Record \union {NoRecord}]
<1>1. hand[s] \in Record /\ hand[s].run \in Run
  BY DEF LedgerTyped, LedgerTypeOK, Ready, Record
<1>2. ledger \in Seq(Line) /\ Torn \in Line /\ hand[s] \in Line
  BY <1>1 DEF LedgerTyped, LedgerTypeOK, Line
<1>3. ledger' \in Seq(Line)
  BY <1>2, WrittenIsLines DEF Cut
<1>4. version' = version + 1 /\ ended' = FALSE
  BY DEF Cut
<1>5. version' \in Nat /\ ended' \in BOOLEAN
  <2>1. version \in Nat
    BY DEF LedgerTyped, LedgerTypeOK
  <2>2. ended' \in BOOLEAN
    BY <1>4, Zenon
  <2>. QED  BY <1>4, <2>1, <2>2
<1>6. put' \in [Run -> Record \union {NoRecord}]
  BY <1>1 DEF Cut, LedgerTyped, LedgerTypeOK
<1>. QED  BY <1>3, <1>5, <1>6 DEF Line

(* Changing one server's position keeps the lease where it belongs.        *)
LEMMA Moves ==
    ASSUME LedgerTyped, NEW s \in Server, NEW p \in LedgerPositions,
           pc' = [pc EXCEPT ![s] = p], holder' \in Server \union {Nobody},
           holder = s \/ holder = Nobody \/ holder' = holder,
           p \in Holding => holder' = s,
           \A q \in Server : q # s => hand'[q] = hand[q] /\ cache'[q] = cache[q],
           p = "append" => hand'[s] # NoRecord /\ cache'[s] # NoCache
    PROVE  /\ pc' \in [Server -> LedgerPositions]
           /\ \A q \in Server : pc'[q] \in Holding => holder' = q
           /\ \A q \in Server : Ready(q)'
<1>1. pc \in [Server -> LedgerPositions] /\ pc' \in [Server -> LedgerPositions]
  BY DEF LedgerTyped, LedgerTypeOK
<1>2. \A q \in Server : q # s => pc'[q] = pc[q]
  BY <1>1
<1>3. pc'[s] = p
  BY <1>1
<1>4. \A q \in Server : q # s /\ pc'[q] \in Holding => holder' = q
  BY <1>2, ValueAssumption DEF LedgerTyped, LedgerTypeOK
<1>5. \A q \in Server : q # s => Ready(q)'
  BY <1>2 DEF LedgerTyped, Ready
<1>6. Ready(s)'
  BY <1>3 DEF Ready
<1>. QED  BY <1>1, <1>3, <1>4, <1>5, <1>6

LEMMA LedgerTypedStep == LedgerTyped /\ [LedgerNext]_ledgerVars => LedgerTyped'
<1> SUFFICES ASSUME LedgerTyped, [LedgerNext]_ledgerVars PROVE LedgerTyped'
  OBVIOUS
<1> USE DEF LedgerTyped, LedgerTypeOK, disk, progress, counts
<1>1. ASSUME NEW s \in Server, NEW r \in Run, NEW status \in Statuses, Request(s, r, status),
             owner' \in [Run -> Server \union {Nobody}]
      PROVE  LedgerTyped'
  <2>1. operations' \in Nat /\ operations + 1 \in Nat
    BY <1>1 DEF Request
  <2>2. [run |-> r, status |-> status, at |-> operations + 1] \in Record
    BY <2>1 DEF Record
  <2>3. hand' \in [Server -> Record \union {NoRecord}] /\ \A q \in Server : q # s => hand'[q] = hand[q]
    BY <1>1, <2>2 DEF Request
  <2>4. "lease" \in LedgerPositions /\ "lease" \notin Holding
    BY DEF LedgerPositions, Holding
  <2>5. /\ pc' \in [Server -> LedgerPositions]
        /\ \A q \in Server : pc'[q] \in Holding => holder' = q
        /\ \A q \in Server : Ready(q)'
    BY <1>1, <2>3, <2>4, Moves DEF Request
  <2>. QED  BY <1>1, <2>1, <2>3, <2>5 DEF Request
<1>2. ASSUME NEW s \in Server, NEW r \in Run, Create(s, r)
      PROVE  LedgerTyped'
  BY <1>1, <1>2 DEF Create, Statuses
<1>3. ASSUME NEW s \in Server, NEW r \in Run, NEW status \in Statuses, Update(s, r, status)
      PROVE  LedgerTyped'
  BY <1>1, <1>3 DEF Update
<1>4. ASSUME NEW s \in Server, Prune(s)
      PROVE  LedgerTyped'
  <2>1. "lease" \in LedgerPositions /\ "lease" \notin Holding
    BY DEF LedgerPositions, Holding
  <2>2. /\ pc' \in [Server -> LedgerPositions]
        /\ \A q \in Server : pc'[q] \in Holding => holder' = q
        /\ \A q \in Server : Ready(q)'
    BY <1>4, <2>1, Moves DEF Prune
  <2>. QED  BY <1>4, <2>2 DEF Prune
<1>5. ASSUME NEW s \in Server, Take(s)
      PROVE  LedgerTyped'
  <2>1. "ensure" \in LedgerPositions /\ "ensure" # "append"
    BY DEF LedgerPositions, Holding
  <2>2. /\ pc' \in [Server -> LedgerPositions]
        /\ \A q \in Server : pc'[q] \in Holding => holder' = q
        /\ \A q \in Server : Ready(q)'
    BY <1>5, <2>1, Moves DEF Take
  <2>. QED  BY <1>5, <2>2 DEF Take
<1>6. ASSUME NEW s \in Server, Busy(s)
      PROVE  LedgerTyped'
  <2>1. "idle" \in LedgerPositions /\ "idle" \notin Holding
    BY DEF LedgerPositions, Holding
  <2>2. hand' \in [Server -> Record \union {NoRecord}] /\ \A q \in Server : q # s => hand'[q] = hand[q]
    BY <1>6 DEF Busy
  <2>3. /\ pc' \in [Server -> LedgerPositions]
        /\ \A q \in Server : pc'[q] \in Holding => holder' = q
        /\ \A q \in Server : Ready(q)'
    BY <1>6, <2>1, <2>2, Moves DEF Busy
  <2>. QED  BY <1>6, <2>2, <2>3 DEF Busy
<1>7. ASSUME NEW s \in Server, Ensure(s)
      PROVE  LedgerTyped'
  <2> DEFINE p == IF hand[s] = NoRecord THEN "collapse" ELSE "append"
  <2>1. p \in LedgerPositions /\ holder = s /\ (p = "append" => hand[s] # NoRecord)
    BY <1>7 DEF LedgerPositions, Holding, Ensure
  <2>2. pc' = [pc EXCEPT ![s] = p] /\ UNCHANGED <<holder, hand, collapsed, owner, put, counts>>
    BY <1>7 DEF Ensure
  <2> HIDE DEF p
  <2>4. /\ ledger' \in Seq(Record \union {Torn}) /\ ended' \in BOOLEAN /\ version' \in Nat
        /\ Len(ledger') \in Nat
    <3>1. ledger \in Seq(Line) /\ Valid(ledger) \in Seq(Line)
      BY RepairHidesNothing DEF Line
    <3>2. \/ UNCHANGED disk
          \/ ledger' = Valid(ledger) /\ ended' = TRUE /\ version' = version + 1
      BY <1>7 DEF Ensure
    <3>3. ledger' \in Seq(Line)
      BY <3>1, <3>2
    <3>4. ended' \in BOOLEAN
      BY <3>2, Zenon
    <3>5. version' \in Nat
      BY <3>2
    <3>. QED  BY <3>3, <3>4, <3>5, LenProperties DEF Line
  <2>5. /\ cache' \in [Server -> Cached \union {NoCache}] /\ cache'[s] # NoCache
        /\ \A q \in Server : q # s => cache'[q] = cache[q]
    <3>1. CASE Current(s)
      BY <1>7, <3>1 DEF Ensure, Current
    <3>2. CASE ~Current(s)
      <4>1. [lines |-> Len(ledger'), identity |-> version'] \in Cached
        BY <2>4 DEF Cached
      <4>. QED  BY <1>7, <3>2, <4>1, ValueAssumption DEF Ensure
    <3>. QED  BY <3>1, <3>2
  <2>3. /\ pc' \in [Server -> LedgerPositions]
        /\ \A q \in Server : pc'[q] \in Holding => holder' = q
        /\ \A q \in Server : Ready(q)'
    BY <2>1, <2>2, <2>5, Moves
  <2>. QED  BY <2>2, <2>3, <2>4, <2>5
<1>8. ASSUME NEW s \in Server, AppendLine(s)
      PROVE  LedgerTyped'
  <2>0. /\ pc[s] = "append" /\ holder = s /\ hand[s] \in Record /\ hand[s].run \in Run
        /\ cache[s] \in Cached
    BY <1>8 DEF AppendLine, Holding, Record, Ready
  <2> DEFINE p == IF cache'[s].lines > Threshold THEN "collapse" ELSE "release"
  <2>1. p \in LedgerPositions /\ p # "append"
    BY DEF LedgerPositions, Holding
  <2>2. pc' = [pc EXCEPT ![s] = p] /\ UNCHANGED <<holder, hand, collapsed, owner, counts>>
    BY <1>8 DEF AppendLine
  <2> HIDE DEF p
  <2>3. ledger' \in Seq(Record \union {Torn}) /\ ended' \in BOOLEAN /\ version' \in Nat
    <3>1. ledger \in Seq(Line) /\ hand[s] \in Line
      BY <2>0 DEF Line
    <3>2. Written(hand[s]) \in Seq(Line)
      BY <3>1, WrittenIsLines
    <3>3. ledger' = Written(hand[s]) /\ ended' = TRUE /\ version' = version + 1
      BY <1>8 DEF AppendLine
    <3>. QED  BY <3>2, <3>3 DEF Line
  <2>4. put' \in [Run -> Record \union {NoRecord}]
    BY <1>8, <2>0 DEF AppendLine
  <2>5. /\ cache' \in [Server -> Cached \union {NoCache}]
        /\ \A q \in Server : q # s => cache'[q] = cache[q]
    <3>1. cache[s].lines + 1 \in Nat
      BY <2>0 DEF Cached
    <3>2. [lines |-> cache[s].lines + 1, identity |-> version'] \in Cached
      BY <2>3, <3>1 DEF Cached
    <3>3. cache' = [cache EXCEPT ![s] = [lines |-> cache[s].lines + 1, identity |-> version']]
      BY <1>8 DEF AppendLine
    <3>. QED  BY <3>2, <3>3
  <2>6. /\ pc' \in [Server -> LedgerPositions]
        /\ \A q \in Server : pc'[q] \in Holding => holder' = q
        /\ \A q \in Server : Ready(q)'
    BY <2>0, <2>1, <2>2, <2>5, Moves
  <2>. QED  BY <2>2, <2>3, <2>4, <2>5, <2>6
<1>9. ASSUME NEW s \in Server, NEW tear \in Tears, AppendFails(s, tear)
      PROVE  LedgerTyped'
  <2>1. /\ ledger' \in Seq(Record \union {Torn}) /\ ended' \in BOOLEAN /\ version' \in Nat
        /\ put' \in [Run -> Record \union {NoRecord}]
    BY <1>9, CutType DEF AppendFails
  <2>2. "release" \in LedgerPositions /\ "release" # "append" /\ holder = s
    BY <1>9 DEF LedgerPositions, Holding, AppendFails
  <2>3. /\ hand' \in [Server -> Record \union {NoRecord}]
        /\ \A q \in Server : q # s => hand'[q] = hand[q]
    BY <1>9 DEF AppendFails
  <2>4. /\ pc' \in [Server -> LedgerPositions]
        /\ \A q \in Server : pc'[q] \in Holding => holder' = q
        /\ \A q \in Server : Ready(q)'
    BY <1>9, <2>2, <2>3, Moves DEF AppendFails
  <2>5. faults' \in Nat
    BY <1>9 DEF AppendFails
  <2>. QED  BY <1>9, <2>1, <2>3, <2>4, <2>5 DEF AppendFails
<1>10. ASSUME NEW s \in Server, Fail(s)
       PROVE  LedgerTyped'
  <2>1. "release" \in LedgerPositions /\ "release" # "append" /\ holder = s
    BY <1>10 DEF LedgerPositions, Holding, Fail
  <2>2. /\ hand' \in [Server -> Record \union {NoRecord}]
        /\ \A q \in Server : q # s => hand'[q] = hand[q]
        /\ collapsed' \in [Server -> SUBSET Record]
        /\ \A q \in Server : IsFiniteSet(collapsed'[q])
    BY <1>10, FS_EmptySet DEF Fail
  <2>3. /\ pc' \in [Server -> LedgerPositions]
        /\ \A q \in Server : pc'[q] \in Holding => holder' = q
        /\ \A q \in Server : Ready(q)'
    BY <1>10, <2>1, <2>2, Moves DEF Fail
  <2>4. faults' \in Nat
    BY <1>10 DEF Fail
  <2>. QED  BY <1>10, <2>2, <2>3, <2>4 DEF Fail
<1>11. ASSUME NEW s \in Server, ServerDies(s)
       PROVE  LedgerTyped'
  <2>1. /\ ledger' \in Seq(Record \union {Torn}) /\ ended' \in BOOLEAN /\ version' \in Nat
        /\ put' \in [Run -> Record \union {NoRecord}]
    <3>1. CASE UNCHANGED <<disk, put>>
      BY <3>1
    <3>2. CASE pc[s] = "append" /\ \E tear \in Tears : Cut(s, tear)
      BY <3>2, CutType
    <3>. QED  BY <1>11, <3>1, <3>2 DEF ServerDies
  <2>2. "dead" \in LedgerPositions /\ "dead" \notin Holding
    BY DEF LedgerPositions, Holding
  <2>3. /\ hand' \in [Server -> Record \union {NoRecord}]
        /\ collapsed' \in [Server -> SUBSET Record]
        /\ cache' \in [Server -> Cached \union {NoCache}]
        /\ \A q \in Server : q # s => hand'[q] = hand[q] /\ cache'[q] = cache[q]
        /\ holder' \in Server \union {Nobody}
        /\ holder = s \/ holder' = holder
        /\ \A q \in Server : IsFiniteSet(collapsed'[q])
    BY <1>11, FS_EmptySet DEF ServerDies, Die
  <2>4. /\ pc' \in [Server -> LedgerPositions]
        /\ \A q \in Server : pc'[q] \in Holding => holder' = q
        /\ \A q \in Server : Ready(q)'
    BY <1>11, <2>2, <2>3, Moves DEF ServerDies, Die
  <2>5. faults' \in Nat
    BY <1>11 DEF ServerDies
  <2>. QED  BY <1>11, <2>1, <2>3, <2>4, <2>5 DEF ServerDies, Die
<1>12. ASSUME NEW s \in Server, Collapse(s)
       PROVE  LedgerTyped'
  <2>1. "replace" \in LedgerPositions /\ "replace" # "append" /\ holder = s
    BY <1>12 DEF LedgerPositions, Holding, Collapse
  <2>2. Retained(ledger) \subseteq Record /\ IsFiniteSet(Retained(ledger))
    BY RetainedIs DEF Line
  <2>3. /\ collapsed' \in [Server -> SUBSET Record]
        /\ \A q \in Server : IsFiniteSet(collapsed'[q])
    BY <1>12, <2>2 DEF Collapse
  <2>4. /\ pc' \in [Server -> LedgerPositions]
        /\ \A q \in Server : pc'[q] \in Holding => holder' = q
        /\ \A q \in Server : Ready(q)'
    BY <1>12, <2>1, Moves DEF Collapse
  <2>. QED  BY <1>12, <2>3, <2>4 DEF Collapse
<1>13. ASSUME NEW s \in Server, Replace(s)
       PROVE  LedgerTyped'
  <2>1. "release" \in LedgerPositions /\ "release" # "append" /\ holder = s
    BY <1>13 DEF LedgerPositions, Holding, Replace
  <2>2. PICK list \in InOrder(collapsed[s]) : ledger' = list
    BY <1>13 DEF Replace
  <2>3. ledger' \in Seq(Record) /\ Len(ledger') \in Nat
    BY <2>2, ListIsRecords, LenProperties
  <2>4. ledger' \in Seq(Record \union {Torn})
    BY <2>3, RecordsAreValid DEF Line
  <2>5. ended' \in BOOLEAN
    BY <1>13, Zenon DEF Replace
  <2>6. version' \in Nat
    BY <1>13 DEF Replace
  <2>7. /\ collapsed' \in [Server -> SUBSET Record]
        /\ \A q \in Server : IsFiniteSet(collapsed'[q])
    BY <1>13, FS_EmptySet DEF Replace
  <2>8. /\ cache' \in [Server -> Cached \union {NoCache}]
        /\ \A q \in Server : q # s => cache'[q] = cache[q]
    <3>1. [lines |-> Len(ledger'), identity |-> version'] \in Cached
      BY <2>3, <2>6 DEF Cached
    <3>. QED  BY <1>13, <3>1 DEF Replace
  <2>9. /\ pc' \in [Server -> LedgerPositions]
        /\ \A q \in Server : pc'[q] \in Holding => holder' = q
        /\ \A q \in Server : Ready(q)'
    BY <1>13, <2>1, <2>8, Moves DEF Replace
  <2>. QED  BY <1>13, <2>4, <2>5, <2>6, <2>7, <2>8, <2>9 DEF Replace
<1>14. ASSUME NEW s \in Server, ReleaseLease(s)
       PROVE  LedgerTyped'
  <2>1. "idle" \in LedgerPositions /\ "idle" \notin Holding
    BY DEF LedgerPositions, Holding
  <2>2. /\ hand' \in [Server -> Record \union {NoRecord}]
        /\ \A q \in Server : q # s => hand'[q] = hand[q]
        /\ holder' \in Server \union {Nobody}
        /\ holder = s \/ holder' = holder
    BY <1>14 DEF ReleaseLease
  <2>3. /\ pc' \in [Server -> LedgerPositions]
        /\ \A q \in Server : pc'[q] \in Holding => holder' = q
        /\ \A q \in Server : Ready(q)'
    BY <1>14, <2>1, <2>2, Moves DEF ReleaseLease
  <2>. QED  BY <1>14, <2>2, <2>3 DEF ReleaseLease
<1>15. CASE UNCHANGED ledgerVars
  BY <1>15 DEF ledgerVars, Ready
<1>16. CASE LedgerNext
  <2>1. PICK s \in Server :
          \/ \E r \in Run : Create(s, r) \/ (\E status \in Statuses : Update(s, r, status))
          \/ Prune(s) \/ Take(s) \/ Busy(s) \/ Ensure(s)
          \/ AppendLine(s) \/ (\E tear \in Tears : AppendFails(s, tear))
          \/ Fail(s) \/ ServerDies(s)
          \/ Collapse(s) \/ Replace(s) \/ ReleaseLease(s)
    BY <1>16 DEF LedgerNext
  <2>. QED  BY <2>1, <1>2, <1>3, <1>4, <1>5, <1>6, <1>7, <1>8, <1>9, <1>10, <1>11, <1>12,
               <1>13, <1>14, Zenon
<1>. QED  BY <1>15, <1>16

(* The ledger's variables have their types, and only the lease's holder    *)
(* reads and writes under it.                                              *)
THEOREM LedgerTypeCorrect == LedgerSpec => []LedgerTypeOK
<1>1. LedgerTyped => LedgerTypeOK
  BY DEF LedgerTyped
<1>. QED  BY <1>1, LedgerTypedInit, LedgerTypedStep, PTL DEF LedgerSpec
-----------------------------------------------------------------------------
(* A write that is cut off is cut within the record.  One that is cut just *)
(* before the newline leaves a file that no server repairs and the next    *)
(* line destroys.                                                          *)
Detectable == Tears \subseteq {"partial"}

(* A cache with the identity of the file has its line count, and nothing   *)
(* in the file is broken or unfinished; whoever is past the repair has     *)
(* such a cache, and what it is to write at the end of a compaction is     *)
(* what the file holds.                                                    *)
Trusts(s) ==
    /\ cache[s] # NoCache => cache[s].identity =< version
    /\ Current(s) => cache[s].lines = Len(ledger) /\ ended = TRUE /\ Breaks(ledger) = {}
    /\ pc[s] \in {"append", "collapse", "replace"} => Current(s)
    /\ pc[s] = "replace" => collapsed[s] = Retained(ledger)

CacheInv ==
    /\ \A s \in Server : Trusts(s)
    /\ ended = TRUE \/ Breaks(ledger) # {}

(* No server has a cache at first.                                         *)
LEMMA CacheInvInit == LedgerInit => CacheInv
<1> SUFFICES ASSUME LedgerInit PROVE CacheInv
  OBVIOUS
<1>1. \A s \in Server : cache[s] = NoCache /\ pc[s] = "idle"
  BY DEF LedgerInit
<1>. QED  BY <1>1 DEF CacheInv, Trusts, Current, LedgerInit

(* A step of one server leaves the others' caches sound: it does not touch *)
(* the file, or it has the lease and gives the file a new identity.        *)
LEMMA OthersTrust ==
    ASSUME LedgerTyped, CacheInv, NEW s \in Server, NEW q \in Server, q # s,
           cache'[q] = cache[q], pc'[q] = pc[q], collapsed'[q] = collapsed[q],
           UNCHANGED disk \/ (pc[s] \in Holding /\ version' = version + 1)
    PROVE  Trusts(q)'
<1>1. /\ version \in Nat /\ cache[q] \in Cached \union {NoCache}
      /\ pc[s] \in Holding => holder = s
      /\ pc[q] \in Holding => holder = q
  BY DEF LedgerTyped, LedgerTypeOK
<1>2. CASE UNCHANGED disk
  BY <1>2 DEF disk, CacheInv, Trusts, Current
<1>3. CASE pc[s] \in Holding /\ version' = version + 1
  <2>1. pc'[q] \notin Holding
    BY <1>1, <1>3
  <2>2. cache[q] # NoCache => cache[q].identity =< version /\ cache[q].identity \in Nat
    BY <1>1 DEF CacheInv, Trusts, Cached
  <2>3. ~Current(q)'
    BY <1>1, <1>3, <2>2 DEF Current
  <2>4. cache'[q] # NoCache => cache'[q].identity =< version'
    BY <1>1, <1>3, <2>2
  <2>. QED  BY <2>1, <2>3, <2>4 DEF Trusts, Holding
<1>. QED  BY <1>2, <1>3

(* A server that is past the repair appends to a sound file.               *)
LEMMA SoundToAppend ==
    ASSUME LedgerTyped, CacheInv, NEW s \in Server, pc[s] = "append"
    PROVE  /\ ledger \in Seq(Line) /\ Breaks(ledger) = {} /\ cache[s].lines = Len(ledger)
           /\ hand[s] \in Record /\ hand[s].run \in Run /\ Len(ledger) \in Nat
           /\ \A line : Written(line) = Append(ledger, line)
<1>1. Current(s)
  BY DEF CacheInv, Trusts
<1>2. cache[s].lines = Len(ledger) /\ ended = TRUE /\ Breaks(ledger) = {}
  BY <1>1 DEF CacheInv, Trusts
<1>3. hand[s] \in Record /\ ledger \in Seq(Line)
  BY DEF LedgerTyped, LedgerTypeOK, Ready, Line
<1>4. hand[s].run \in Run
  BY <1>3 DEF Record
<1>5. Len(ledger) \in Nat
  BY <1>3, LenProperties
<1>. QED  BY <1>2, <1>3, <1>4, <1>5 DEF Written

(* A write that is cut off within the record breaks the last line and      *)
(* nothing else.                                                           *)
LEMMA CutTears ==
    ASSUME LedgerTyped, CacheInv, Detectable, NEW s \in Server, pc[s] = "append",
           NEW tear \in Tears, Cut(s, tear)
    PROVE  /\ Breaks(ledger') # {} /\ version' = version + 1 /\ put' = put
           /\ \A r : Visible(ledger', r) = Visible(ledger, r)
<1>1. tear = "partial"
  BY DEF Detectable
<1>2. ledger' = Append(ledger, Torn) /\ version' = version + 1 /\ put' = put
  BY <1>1, SoundToAppend DEF Cut
<1>. QED  BY <1>2, SoundToAppend, TornHidesNothing

(* Every step of the ledger keeps the caches sound.                        *)
LEMMA CacheInvStep ==
    ASSUME LedgerTyped, LedgerTyped', CacheInv, Detectable, [LedgerNext]_ledgerVars
    PROVE  CacheInv'
<1> USE DEF LedgerTyped, LedgerTypeOK
<1>1. ASSUME NEW s \in Server, UNCHANGED <<disk, cache, collapsed>>,
             NEW p \in {"idle", "lease", "ensure", "release"}, pc' = [pc EXCEPT ![s] = p]
      PROVE  CacheInv'
  <2>1. ASSUME NEW q \in Server PROVE Trusts(q)'
    <3>1. CASE q = s
      BY <1>1, <3>1 DEF disk, CacheInv, Trusts, Current
    <3>2. CASE q # s
      BY <1>1, <3>2, OthersTrust
    <3>. QED  BY <3>1, <3>2
  <2>. QED  BY <1>1, <2>1 DEF CacheInv, disk
<1>2. ASSUME NEW s \in Server, Ensure(s)
      PROVE  CacheInv'
  <2>1. ledger \in Seq(Line)
    BY DEF Line
  <2>2. Breaks(ledger') = {} /\ ended' = TRUE
    <3>1. CASE Current(s)
      BY <1>2, <3>1 DEF Ensure, CacheInv, Trusts, disk
    <3>2. CASE ~Current(s) /\ Valid(ledger) = ledger
      <4>1. UNCHANGED disk
        BY <1>2, <3>2 DEF Ensure
      <4>2. Breaks(ledger) = {}
        BY <2>1, <3>2, RepairHidesNothing
      <4>. QED  BY <4>1, <4>2 DEF disk, CacheInv
    <3>3. CASE ~Current(s) /\ Valid(ledger) # ledger
      <4>1. ledger' = Valid(ledger) /\ ended' = TRUE
        BY <1>2, <3>3 DEF Ensure
      <4>. QED  BY <2>1, <4>1, RepairHidesNothing
    <3>. QED  BY <3>1, <3>2, <3>3
  <2>3. UNCHANGED disk \/ version' = version + 1
    BY <1>2 DEF Ensure, disk
  <2>4. /\ cache'[s] # NoCache /\ cache'[s].lines = Len(ledger')
        /\ cache'[s].identity = version'
        /\ \A q \in Server : q # s => cache'[q] = cache[q]
    <3>1. CASE Current(s)
      BY <1>2, <3>1 DEF Ensure, CacheInv, Trusts, disk, Current
    <3>2. CASE ~Current(s)
      <4>1. [lines |-> Len(ledger'), identity |-> version'] # NoCache
        <5>1. Len(ledger') \in Nat /\ version' \in Nat
          BY LenProperties
        <5>. QED  BY <5>1, ValueAssumption DEF Cached
      <4>. QED  BY <1>2, <3>2, <4>1 DEF Ensure
    <3>. QED  BY <3>1, <3>2
  <2>5. /\ pc'[s] # "replace" /\ pc[s] \in Holding
        /\ \A q \in Server : q # s => pc'[q] = pc[q] /\ collapsed'[q] = collapsed[q]
    BY <1>2 DEF Ensure, Holding
  <2>6. Trusts(s)'
    BY <2>2, <2>4, <2>5 DEF Trusts, Current
  <2>7. ASSUME NEW q \in Server, q # s PROVE Trusts(q)'
    BY <2>3, <2>4, <2>5, <2>7, OthersTrust
  <2>. QED  BY <2>2, <2>6, <2>7 DEF CacheInv
<1>3. ASSUME NEW s \in Server, AppendLine(s)
      PROVE  CacheInv'
  <2>1. ledger' = Append(ledger, hand[s]) /\ ended' = TRUE /\ version' = version + 1
    <3>1. pc[s] = "append" /\ ledger' = Written(hand[s])
          /\ ended' = TRUE /\ version' = version + 1
      BY <1>3, Zenon DEF AppendLine
    <3>2. Written(hand[s]) = Append(ledger, hand[s])
      BY <3>1, SoundToAppend
    <3>. QED  BY <3>1, <3>2, Zenon
  <2>2. Breaks(ledger') = {} /\ Len(ledger') = Len(ledger) + 1
    <3>1. ledger \in Seq(Line) /\ Breaks(ledger) = {} /\ hand[s] \in Record
      BY <1>3, SoundToAppend DEF AppendLine
    <3>. QED  BY <2>1, <3>1, AppendShows
  <2>3. /\ cache' = [cache EXCEPT ![s] = [lines |-> cache[s].lines + 1, identity |-> version']]
        /\ cache[s].lines = Len(ledger)
    BY <1>3, SoundToAppend DEF AppendLine
  <2>4. /\ cache'[s].lines = Len(ledger') /\ cache'[s].identity = version'
        /\ \A q \in Server : q # s => cache'[q] = cache[q]
    BY <2>2, <2>3
  <2>5. cache'[s] # NoCache
    <3>1. Len(ledger) + 1 \in Nat /\ version' \in Nat
      BY <1>3, SoundToAppend DEF AppendLine
    <3>2. [lines |-> Len(ledger) + 1, identity |-> version'] # NoCache
      BY <3>1, ValueAssumption DEF Cached
    <3>. QED  BY <2>3, <3>2
  <2>6. /\ pc'[s] # "replace" /\ pc[s] \in Holding
        /\ \A q \in Server : q # s => pc'[q] = pc[q] /\ collapsed'[q] = collapsed[q]
    BY <1>3 DEF AppendLine, Holding
  <2>7. Trusts(s)'
    BY <2>1, <2>2, <2>4, <2>5, <2>6 DEF Trusts, Current
  <2>8. ASSUME NEW q \in Server, q # s PROVE Trusts(q)'
    BY <2>1, <2>4, <2>6, <2>8, OthersTrust
  <2>. QED  BY <2>1, <2>7, <2>8 DEF CacheInv
<1>4. ASSUME NEW s \in Server, NEW tear \in Tears, AppendFails(s, tear)
      PROVE  CacheInv'
  <2>1. Breaks(ledger') # {} /\ version' = version + 1
    BY <1>4, CutTears DEF AppendFails
  <2>2. /\ pc[s] \in Holding /\ pc'[s] = "release" /\ cache' = cache /\ collapsed' = collapsed
        /\ \A q \in Server : q # s => pc'[q] = pc[q]
    BY <1>4 DEF AppendFails, Holding
  <2>3. cache[s] # NoCache => cache[s].identity =< version /\ cache[s].identity \in Nat
    BY DEF CacheInv, Trusts, Cached
  <2>4. Trusts(s)'
    BY <2>1, <2>2, <2>3 DEF Trusts, Current
  <2>5. ASSUME NEW q \in Server, q # s PROVE Trusts(q)'
    BY <2>1, <2>2, <2>5, OthersTrust
  <2>. QED  BY <2>1, <2>4, <2>5 DEF CacheInv
<1>5. ASSUME NEW s \in Server, Fail(s)
      PROVE  CacheInv'
  <2>1. /\ pc'[s] = "release" /\ UNCHANGED <<disk, cache>>
        /\ \A q \in Server : q # s => pc'[q] = pc[q] /\ collapsed'[q] = collapsed[q]
    BY <1>5 DEF Fail
  <2>2. Trusts(s)'
    BY <2>1 DEF CacheInv, Trusts, Current, disk
  <2>3. ASSUME NEW q \in Server, q # s PROVE Trusts(q)'
    BY <2>1, <2>3, OthersTrust
  <2>. QED  BY <2>1, <2>2, <2>3 DEF CacheInv, disk
<1>6. ASSUME NEW s \in Server, ServerDies(s)
      PROVE  CacheInv'
  <2>1. /\ pc'[s] = "dead" /\ cache'[s] = NoCache
        /\ \A q \in Server : q # s =>
             pc'[q] = pc[q] /\ cache'[q] = cache[q] /\ collapsed'[q] = collapsed[q]
    BY <1>6 DEF ServerDies, Die
  <2>2. \/ UNCHANGED disk
        \/ pc[s] \in Holding /\ version' = version + 1 /\ Breaks(ledger') # {}
    BY <1>6, CutTears DEF ServerDies, Holding
  <2>3. Trusts(s)'
    BY <2>1 DEF Trusts, Current
  <2>4. ASSUME NEW q \in Server, q # s PROVE Trusts(q)'
    BY <2>1, <2>2, <2>4, OthersTrust
  <2>. QED  BY <2>2, <2>3, <2>4 DEF CacheInv, disk
<1>7. ASSUME NEW s \in Server, Collapse(s)
      PROVE  CacheInv'
  <2>1. /\ pc[s] = "collapse" /\ pc'[s] = "replace" /\ collapsed'[s] = Retained(ledger)
        /\ UNCHANGED <<disk, cache>>
        /\ \A q \in Server : q # s => pc'[q] = pc[q] /\ collapsed'[q] = collapsed[q]
    BY <1>7 DEF Collapse
  <2>2. Trusts(s)'
    BY <2>1 DEF CacheInv, Trusts, Current, disk, Retained, Latest
  <2>3. ASSUME NEW q \in Server, q # s PROVE Trusts(q)'
    BY <2>1, <2>3, OthersTrust
  <2>. QED  BY <2>1, <2>2, <2>3 DEF CacheInv, disk
<1>8. ASSUME NEW s \in Server, Replace(s)
      PROVE  CacheInv'
  <2>1. Breaks(ledger') = {} /\ ended' = TRUE /\ version' = version + 1
    <3>1. PICK list \in InOrder(collapsed[s]) : ledger' = list
      BY <1>8 DEF Replace
    <3>. QED  BY <1>8, <3>1, ListIsRecords, RecordsAreValid DEF Replace
  <2>2. /\ cache'[s].lines = Len(ledger') /\ cache'[s].identity = version'
        /\ \A q \in Server : q # s => cache'[q] = cache[q]
    BY <1>8 DEF Replace
  <2>3. /\ pc'[s] = "release" /\ pc[s] \in Holding
        /\ \A q \in Server : q # s => pc'[q] = pc[q] /\ collapsed'[q] = collapsed[q]
    BY <1>8 DEF Replace, Holding
  <2>4. version' =< version'
    OBVIOUS
  <2>5. Trusts(s)'
    BY <2>1, <2>2, <2>3, <2>4 DEF Trusts, Current
  <2>6. ASSUME NEW q \in Server, q # s PROVE Trusts(q)'
    BY <2>1, <2>2, <2>3, <2>6, OthersTrust
  <2>. QED  BY <2>1, <2>5, <2>6 DEF CacheInv
<1>9. CASE UNCHANGED ledgerVars
  BY <1>9 DEF ledgerVars, disk, progress, CacheInv, Trusts, Current
<1>10. ASSUME NEW s \in Server,
              \/ \E r \in Run : Create(s, r) \/ (\E status \in Statuses : Update(s, r, status))
              \/ Prune(s) \/ Take(s) \/ Busy(s) \/ ReleaseLease(s)
       PROVE  CacheInv'
  BY <1>1, <1>10 DEF Create, Update, Request, Prune, Take, Busy, ReleaseLease
<1>11. CASE LedgerNext
  <2>1. PICK s \in Server :
          \/ \E r \in Run : Create(s, r) \/ (\E status \in Statuses : Update(s, r, status))
          \/ Prune(s) \/ Take(s) \/ Busy(s) \/ Ensure(s)
          \/ AppendLine(s) \/ (\E tear \in Tears : AppendFails(s, tear))
          \/ Fail(s) \/ ServerDies(s)
          \/ Collapse(s) \/ Replace(s) \/ ReleaseLease(s)
    BY <1>11 DEF LedgerNext
  <2>. QED  BY <2>1, <1>2, <1>3, <1>4, <1>5, <1>6, <1>7, <1>8, <1>10, Zenon
<1>. QED  BY <1>9, <1>11

-----------------------------------------------------------------------------
(* What a step does to what readers see: nothing, except that a run that   *)
(* has ended may go; or it appends the record in a server's hand.          *)
Unseen ==
    /\ put' = put
    /\ \A r \in Run : \/ Visible(ledger', r) = Visible(ledger, r)
                      \/ /\ Visible(ledger', r) = NoRecord
                         /\ Visible(ledger, r) # NoRecord /\ Ended(Visible(ledger, r))

Shown(s) ==
    /\ hand[s] \in Record /\ put' = [put EXCEPT ![hand[s].run] = hand[s]]
    /\ Visible(ledger', hand[s].run) = hand[s]
    /\ \A r \in Run \ {hand[s].run} : Visible(ledger', r) = Visible(ledger, r)

(* Replacing the file loses only runs that have ended.                     *)
LEMMA Compaction ==
    ASSUME LedgerTyped, CacheInv, NEW s \in Server, Replace(s)
    PROVE  Unseen
<1>1. ledger \in Seq(Line) /\ collapsed[s] = Retained(ledger)
  BY DEF LedgerTyped, LedgerTypeOK, Line, CacheInv, Trusts, Replace
<1>2. PICK list \in InOrder(Retained(ledger)) : ledger' = list
  BY <1>1 DEF Replace
<1>3. /\ IsFiniteSet(Retained(ledger)) /\ Retained(ledger) \in SUBSET Record
      /\ \A x \in Retained(ledger) : x.run \in Run /\ x = Visible(ledger, x.run)
      /\ \A r \in Run : Visible(ledger, r) # NoRecord /\ ~Ended(Visible(ledger, r))
           => Visible(ledger, r) \in Retained(ledger)
  BY <1>1, RetainedIs
<1>4. \A x, y \in Retained(ledger) : x.run = y.run => x = y
  BY <1>3
<1>5. /\ \A x \in Retained(ledger) : Visible(ledger', x.run) = x
      /\ \A r : (\A x \in Retained(ledger) : x.run # r) => Visible(ledger', r) = NoRecord
  BY <1>2, <1>3, <1>4, ListShows
<1>6. ASSUME NEW r \in Run
      PROVE  \/ Visible(ledger', r) = Visible(ledger, r)
             \/ /\ Visible(ledger', r) = NoRecord
                /\ Visible(ledger, r) # NoRecord /\ Ended(Visible(ledger, r))
  <2>1. CASE \E x \in Retained(ledger) : x.run = r
    BY <1>3, <1>5, <2>1
  <2>2. CASE \A x \in Retained(ledger) : x.run # r
    <3>1. Visible(ledger', r) = NoRecord
      BY <1>5, <2>2
    <3>2. CASE Visible(ledger, r) = NoRecord
      BY <3>1, <3>2
    <3>3. CASE Visible(ledger, r) # NoRecord
      <4>1. Visible(ledger, r).run = r
        BY <1>1, <3>3, VisibleIs
      <4>2. Visible(ledger, r) \notin Retained(ledger)
        BY <2>2, <4>1
      <4>. QED  BY <1>3, <3>1, <3>3, <4>2
    <3>. QED  BY <3>2, <3>3
  <2>. QED  BY <2>1, <2>2
<1>7. put' = put
  BY DEF Replace
<1>. QED  BY <1>6, <1>7 DEF Unseen

(* A record that is appended is visible.                                   *)
LEMMA Appending ==
    ASSUME LedgerTyped, CacheInv, NEW s \in Server, AppendLine(s)
    PROVE  Shown(s)
<1>1. pc[s] = "append" /\ ledger' = Written(hand[s])
      /\ put' = [put EXCEPT ![hand[s].run] = hand[s]]
  BY DEF AppendLine
<1>2. ledger \in Seq(Line) /\ Breaks(ledger) = {} /\ hand[s] \in Record
      /\ ledger' = Append(ledger, hand[s])
  BY <1>1, SoundToAppend
<1>. QED  BY <1>1, <1>2, AppendShows DEF Shown

(* The steps that neither ask for a change nor append one.                 *)
Works(s) ==
    \/ Prune(s) \/ Take(s) \/ Busy(s) \/ Ensure(s)
    \/ (\E tear \in Tears : AppendFails(s, tear))
    \/ Fail(s) \/ ServerDies(s)
    \/ Collapse(s) \/ Replace(s) \/ ReleaseLease(s)

LEMMA StepKinds ==
    ASSUME LedgerNext
    PROVE  \E s \in Server :
             \/ \E r \in Run : Create(s, r) \/ (\E status \in Statuses : Update(s, r, status))
             \/ AppendLine(s) \/ Works(s)
BY Zenon DEF LedgerNext, Works

(* A step that neither asks nor appends changes nothing readers see.       *)
LEMMA WorksUnseen ==
    ASSUME LedgerTyped, CacheInv, Detectable, NEW s \in Server, Works(s)
    PROVE  Unseen
<1>1. ASSUME UNCHANGED <<ledger, put>> PROVE Unseen
  BY <1>1 DEF Unseen
<1>2. ASSUME Ensure(s) PROVE Unseen
  <2>1. ledger \in Seq(Line) /\ put' = put
    BY <1>2 DEF LedgerTyped, LedgerTypeOK, Line, Ensure
  <2>2. ledger' = ledger \/ ledger' = Valid(ledger)
    BY <1>2 DEF Ensure, disk
  <2>. QED  BY <2>1, <2>2, RepairHidesNothing DEF Unseen
<1>3. ASSUME NEW tear \in Tears, Cut(s, tear), pc[s] = "append" PROVE Unseen
  BY <1>3, CutTears DEF Unseen
<1>4. ASSUME NEW tear \in Tears, AppendFails(s, tear) PROVE Unseen
  BY <1>3, <1>4 DEF AppendFails
<1>5. ASSUME ServerDies(s) PROVE Unseen
  BY <1>1, <1>3, <1>5 DEF ServerDies, disk
<1>6. ASSUME Prune(s) \/ Take(s) \/ Busy(s) \/ Fail(s) \/ Collapse(s) \/ ReleaseLease(s)
      PROVE  Unseen
  BY <1>1, <1>6 DEF Prune, Take, Busy, Fail, Collapse, ReleaseLease, disk
<1>. QED  BY <1>2, <1>4, <1>5, <1>6, Compaction DEF Works

(* Every step leaves what readers see, or shows a record.                  *)
LEMMA Effects ==
    ASSUME LedgerTyped, CacheInv, Detectable, [LedgerNext]_ledgerVars
    PROVE  Unseen \/ \E s \in Server : Shown(s)
<1>1. CASE UNCHANGED ledgerVars
  BY <1>1 DEF ledgerVars, disk, Unseen
<1>2. ASSUME NEW s \in Server, NEW r \in Run, NEW status \in Statuses, Request(s, r, status)
      PROVE  Unseen
  BY <1>2 DEF Request, disk, Unseen
<1>3. CASE LedgerNext
  BY <1>2, <1>3, StepKinds, WorksUnseen, Appending DEF Create, Update, Statuses
<1>. QED  BY <1>1, <1>3

-----------------------------------------------------------------------------
(* A record in hand is a change by the run's creator, at or after the      *)
(* visible one, and does not end the run a second time; every visible run  *)
(* has a creator.                                                          *)
Supersedes(new, old) ==
    old # NoRecord => old.at =< new.at /\ (Ended(old) => new.status = old.status)

HandInv ==
    \A s \in Server : hand[s] # NoRecord =>
        /\ owner[hand[s].run] = s /\ hand[s].at =< operations
        /\ Supersedes(hand[s], Visible(ledger, hand[s].run))

ShownInv ==
    \A r \in Run : Visible(ledger, r) # NoRecord =>
        owner[r] # Nobody /\ Visible(ledger, r).at =< operations

LedgerInv == LedgerTyped /\ CacheInv /\ HandInv /\ ShownInv /\ Acknowledged

LEMMA LedgerInvInit == LedgerInit => LedgerInv
<1> SUFFICES ASSUME LedgerInit PROVE LedgerInv
  OBVIOUS
<1>1. LedgerTyped /\ CacheInv
  BY LedgerTypedInit, CacheInvInit
<1>2. \A s \in Server : hand[s] = NoRecord
  BY DEF LedgerInit
<1>3. \A r \in Run : Visible(ledger, r) = NoRecord /\ put[r] = NoRecord
  <2>1. ledger = <<>> /\ \A r \in Run : put[r] = NoRecord
    BY DEF LedgerInit
  <2>2. ledger \in Seq(Record) /\ Len(ledger) = 0
    BY <2>1, EmptySeq
  <2>3. \A i \in 1 .. Len(ledger) : FALSE
    BY <2>2
  <2>4. \A r : LastOf(ledger, r) = NoRecord
    BY <2>2, <2>3, LastIsNone
  <2>. QED  BY <2>1, <2>2, <2>4, RecordsAreValid DEF Visible
<1>. QED  BY <1>1, <1>2, <1>3 DEF LedgerInv, HandInv, ShownInv, Acknowledged

(* A request leaves what is visible alone.                                 *)
LEMMA Requests ==
    ASSUME LedgerInv, NEW s \in Server, NEW r \in Run, NEW status \in Statuses,
           Request(s, r, status), owner'[r] = s,
           \A q \in Run : q # r => owner'[q] = owner[q], owner[r] \in {s, Nobody},
           Visible(ledger, r) # NoRecord /\ Ended(Visible(ledger, r))
             => status = Visible(ledger, r).status
    PROVE  HandInv' /\ ShownInv'
<1> USE DEF LedgerInv, LedgerTyped, LedgerTypeOK
<1>1. ledger' = ledger /\ operations' = operations + 1 /\ operations \in Nat
  BY DEF Request, disk
<1>2. \A q \in Run : Visible(ledger, q) # NoRecord =>
        Visible(ledger, q).at \in Nat /\ Visible(ledger, q).at =< operations
  BY VisibleIs DEF ShownInv, Record, Line
<1>3. ASSUME NEW q \in Run, Visible(ledger', q) # NoRecord
      PROVE  owner'[q] # Nobody /\ Visible(ledger', q).at =< operations'
  <2>1. Visible(ledger', q).at =< operations'
    BY <1>1, <1>2, <1>3
  <2>2. owner'[q] # Nobody
    BY <1>1, <1>3, ValueAssumption DEF ShownInv
  <2>. QED  BY <2>1, <2>2
<1>4. /\ hand'[s] = [run |-> r, status |-> status, at |-> operations + 1]
      /\ \A q \in Server : q # s => hand'[q] = hand[q]
  BY DEF Request
<1>5. /\ owner'[hand'[s].run] = s /\ hand'[s].at =< operations'
      /\ Supersedes(hand'[s], Visible(ledger', hand'[s].run))
  <2>1. owner'[hand'[s].run] = s /\ hand'[s].at =< operations'
    BY <1>1, <1>4
  <2>2. Visible(ledger, r) # NoRecord => Visible(ledger, r).at =< operations + 1
    BY <1>1, <1>2
  <2>. QED  BY <1>1, <1>4, <2>1, <2>2 DEF Supersedes
<1>6. ASSUME NEW q \in Server, q # s, hand'[q] # NoRecord
      PROVE  /\ owner'[hand'[q].run] = q /\ hand'[q].at =< operations'
             /\ Supersedes(hand'[q], Visible(ledger', hand'[q].run))
  <2>1. hand[q] \in Record /\ hand[q].run \in Run /\ hand[q].at \in Nat
    BY <1>4, <1>6 DEF Record
  <2>2. /\ owner[hand[q].run] = q /\ hand[q].at =< operations
        /\ Supersedes(hand[q], Visible(ledger, hand[q].run))
    BY <1>4, <1>6 DEF HandInv
  <2>3. hand[q].run # r
    BY <1>6, <2>2, ValueAssumption
  <2>4. owner'[hand'[q].run] = q
    BY <1>4, <1>6, <2>1, <2>2, <2>3
  <2>5. hand'[q].at =< operations'
    BY <1>1, <1>4, <1>6, <2>1, <2>2
  <2>. QED  BY <1>1, <1>4, <1>6, <2>2, <2>4, <2>5
<1>. QED  BY <1>3, <1>5, <1>6 DEF HandInv, ShownInv

(* A step without a request keeps what is in hand or drops it.             *)
LEMMA HandsKept ==
    ASSUME LedgerInv, Unseen, owner' = owner, operations \in Nat,
           operations' \in Nat, operations =< operations',
           \A q \in Server : hand'[q] \in {hand[q], NoRecord}
    PROVE  HandInv' /\ ShownInv'
<1> USE DEF LedgerInv, LedgerTyped, LedgerTypeOK
<1>1. ASSUME NEW r \in Run, Visible(ledger', r) # NoRecord
      PROVE  owner'[r] # Nobody /\ Visible(ledger', r).at =< operations'
  <2>1. Visible(ledger', r) = Visible(ledger, r)
    BY <1>1 DEF Unseen
  <2>2. owner[r] # Nobody /\ Visible(ledger, r).at =< operations
    BY <1>1, <2>1 DEF ShownInv
  <2>3. Visible(ledger, r).at \in Nat
    BY <1>1, <2>1, VisibleIs DEF Record, Line
  <2>. QED  BY <2>1, <2>2, <2>3
<1>2. ASSUME NEW q \in Server, hand'[q] # NoRecord
      PROVE  /\ owner'[hand'[q].run] = q /\ hand'[q].at =< operations'
             /\ Supersedes(hand'[q], Visible(ledger', hand'[q].run))
  <2>1. hand'[q] = hand[q] /\ hand[q].run \in Run /\ hand[q].at \in Nat
    BY <1>2 DEF Record
  <2>2. /\ owner[hand[q].run] = q /\ hand[q].at =< operations
        /\ Supersedes(hand[q], Visible(ledger, hand[q].run))
    BY <1>2, <2>1 DEF HandInv
  <2>3. Supersedes(hand[q], Visible(ledger', hand[q].run))
    BY <2>1, <2>2 DEF Unseen, Supersedes
  <2>. QED  BY <2>1, <2>2, <2>3
<1>. QED  BY <1>1, <1>2 DEF HandInv, ShownInv

(* After an append the record in hand is the visible one, and no other     *)
(* server has a change of that run in hand.                                *)
LEMMA HandShown ==
    ASSUME LedgerInv, NEW s \in Server, Shown(s), UNCHANGED <<hand, owner, operations>>,
           hand[s] # NoRecord
    PROVE  HandInv' /\ ShownInv'
<1> USE DEF LedgerInv, LedgerTyped, LedgerTypeOK
<1>1. /\ hand[s].run \in Run /\ hand[s].at \in Nat
      /\ owner[hand[s].run] = s /\ hand[s].at =< operations
  BY DEF HandInv, Record
<1>2. ASSUME NEW r \in Run, Visible(ledger', r) # NoRecord
      PROVE  owner'[r] # Nobody /\ Visible(ledger', r).at =< operations'
  <2>1. CASE r = hand[s].run
    BY <1>1, <2>1, ValueAssumption DEF Shown
  <2>2. CASE r # hand[s].run
    BY <1>2, <2>2 DEF Shown, ShownInv
  <2>. QED  BY <2>1, <2>2
<1>3. ASSUME NEW q \in Server, hand'[q] # NoRecord
      PROVE  /\ owner'[hand'[q].run] = q /\ hand'[q].at =< operations'
             /\ Supersedes(hand'[q], Visible(ledger', hand'[q].run))
  <2>1. hand'[q] = hand[q] /\ hand[q].run \in Run
    BY <1>3 DEF Record
  <2>2. /\ owner[hand[q].run] = q /\ hand[q].at =< operations
        /\ Supersedes(hand[q], Visible(ledger, hand[q].run))
    BY <1>3, <2>1 DEF HandInv
  <2>3. CASE hand[q].run = hand[s].run
    <3>1. q = s
      BY <1>1, <2>2, <2>3
    <3>2. Supersedes(hand[s], hand[s])
      BY <1>1 DEF Supersedes
    <3>. QED  BY <2>1, <2>2, <3>1, <3>2 DEF Shown
  <2>4. CASE hand[q].run # hand[s].run
    BY <2>1, <2>2, <2>4 DEF Shown
  <2>. QED  BY <2>3, <2>4
<1>. QED  BY <1>2, <1>3 DEF HandInv, ShownInv

(* Every step keeps what is in hand legal.                                 *)
LEMMA HandsStep ==
    ASSUME LedgerInv, Detectable, [LedgerNext]_ledgerVars
    PROVE  HandInv' /\ ShownInv'
<1>0. LedgerTyped /\ CacheInv /\ operations \in Nat
  BY DEF LedgerInv, LedgerTyped, LedgerTypeOK
<1>1. ASSUME NEW s \in Server, NEW r \in Run, Create(s, r)
      PROVE  HandInv' /\ ShownInv'
  <2>1. owner[r] = Nobody /\ owner' = [owner EXCEPT ![r] = s] /\ Request(s, r, "queued")
    BY <1>1 DEF Create
  <2>2. owner'[r] = s /\ \A q \in Run : q # r => owner'[q] = owner[q]
    BY <1>0, <2>1 DEF LedgerTyped, LedgerTypeOK
  <2>3. Visible(ledger, r) = NoRecord
    BY <2>1 DEF LedgerInv, ShownInv
  <2>. QED  BY <2>1, <2>2, <2>3, Requests DEF Statuses
<1>2. ASSUME NEW s \in Server, NEW r \in Run, NEW status \in Statuses, Update(s, r, status)
      PROVE  HandInv' /\ ShownInv'
  <2>1. /\ owner[r] = s /\ owner' = owner /\ Request(s, r, status)
        /\ Ended(Visible(ledger, r)) => status = Visible(ledger, r).status
    BY <1>2 DEF Update
  <2>. QED  BY <2>1, Requests
<1>3. ASSUME NEW s \in Server, AppendLine(s)
      PROVE  HandInv' /\ ShownInv'
  <2>1. UNCHANGED <<hand, owner, operations>> /\ hand[s] # NoRecord
    BY <1>0, <1>3 DEF AppendLine, counts, LedgerTyped, Ready
  <2>2. Shown(s)
    BY <1>0, <1>3, Appending
  <2>. QED  BY <2>1, <2>2, HandShown
<1>4. ASSUME NEW s \in Server, Works(s)
      PROVE  HandInv' /\ ShownInv'
  <2>1. owner' = owner /\ (operations' = operations \/ operations' = operations + 1)
    BY <1>4 DEF Works, Prune, Take, Busy, Ensure, AppendFails, Fail, ServerDies, Die, Collapse,
               Replace, ReleaseLease, counts
  <2>2. \A q \in Server : hand'[q] \in {hand[q], NoRecord}
    BY <1>0, <1>4 DEF Works, Prune, Take, Busy, Ensure, AppendFails, Fail, ServerDies, Die,
               Collapse, Replace, ReleaseLease, LedgerTyped, LedgerTypeOK
  <2>3. operations' \in Nat /\ operations =< operations'
    BY <1>0, <2>1
  <2>. QED  BY <1>0, <1>4, <2>1, <2>2, <2>3, WorksUnseen, HandsKept
<1>5. CASE UNCHANGED ledgerVars
  <2>1. /\ Unseen /\ hand' = hand /\ owner' = owner /\ operations' = operations
    BY <1>5 DEF ledgerVars, disk, progress, counts, Unseen
  <2>2. operations =< operations'
    BY <1>0, <2>1
  <2>. QED  BY <1>0, <2>1, <2>2, HandsKept
<1>6. CASE LedgerNext
  BY <1>1, <1>2, <1>3, <1>4, <1>6, StepKinds
<1>. QED  BY <1>5, <1>6

(* Every step keeps the last whole write of every run.                     *)
LEMMA AcknowledgedStep ==
    ASSUME LedgerInv, Detectable, [LedgerNext]_ledgerVars
    PROVE  Acknowledged'
<1>1. ASSUME NEW r \in Run, put'[r] # NoRecord
      PROVE  \/ Visible(ledger', r) = put'[r]
             \/ Visible(ledger', r) = NoRecord /\ Ended(put'[r])
  <2>1. put[r] # NoRecord => \/ Visible(ledger, r) = put[r]
                             \/ Visible(ledger, r) = NoRecord /\ Ended(put[r])
    BY DEF LedgerInv, Acknowledged
  <2>2. CASE Unseen
    BY <1>1, <2>1, <2>2 DEF Unseen
  <2>3. ASSUME NEW s \in Server, Shown(s)
        PROVE  \/ Visible(ledger', r) = put'[r]
               \/ Visible(ledger', r) = NoRecord /\ Ended(put'[r])
    <3>1. put \in [Run -> Record \union {NoRecord}]
      BY DEF LedgerInv, LedgerTyped, LedgerTypeOK
    <3>2. CASE r = hand[s].run
      BY <2>3, <3>1, <3>2 DEF Shown
    <3>3. CASE r # hand[s].run
      <4>1. put'[r] = put[r] /\ Visible(ledger', r) = Visible(ledger, r)
        BY <2>3, <3>1, <3>3 DEF Shown
      <4>. QED  BY <1>1, <2>1, <4>1
    <3>. QED  BY <3>2, <3>3
  <2>. QED  BY <2>2, <2>3, Effects DEF LedgerInv
<1>. QED  BY <1>1 DEF Acknowledged

LEMMA LedgerInvStep == LedgerInv /\ Detectable /\ [LedgerNext]_ledgerVars => LedgerInv'
<1> SUFFICES ASSUME LedgerInv, Detectable, [LedgerNext]_ledgerVars PROVE LedgerInv'
  OBVIOUS
<1>1. LedgerTyped'
  BY LedgerTypedStep DEF LedgerInv
<1>2. CacheInv'
  BY <1>1, CacheInvStep DEF LedgerInv
<1>. QED  BY <1>1, <1>2, HandsStep, AcknowledgedStep DEF LedgerInv

LEMMA LedgerInvariant == ASSUME Detectable PROVE LedgerSpec => []LedgerInv
<1>1. LedgerInv /\ [LedgerNext]_ledgerVars => LedgerInv'
  BY LedgerInvStep
<1>. QED  BY <1>1, LedgerInvInit, PTL DEF LedgerSpec

(* A server that trusts its cache under the lease has the right count, and *)
(* appends to a file without a broken or unfinished line, whatever other   *)
(* servers wrote, cut off or replaced before.                              *)
THEOREM CachesAreSound == ASSUME Detectable PROVE LedgerSpec => []CacheSound
<1>1. LedgerInv => CacheSound
  <2> SUFFICES ASSUME LedgerInv, NEW s \in Server, pc[s] \in {"append", "collapse"}
               PROVE  Current(s) /\ cache[s].lines = Len(ledger) /\ ended /\ Valid(ledger) = ledger
    BY DEF CacheSound
  <2>1. Current(s) /\ cache[s].lines = Len(ledger) /\ ended = TRUE /\ Breaks(ledger) = {}
    BY DEF LedgerInv, CacheInv, Trusts
  <2>. QED  BY <2>1 DEF Valid
<1>. QED  BY <1>1, LedgerInvariant, PTL

(* The last whole write of a run is what every reader gets, until the run  *)
(* has ended and is pruned: no append, repair, compaction, failure or      *)
(* death of any server loses it.                                           *)
THEOREM WritesAreKept == ASSUME Detectable PROVE LedgerSpec => []Acknowledged
<1>1. LedgerInv => Acknowledged
  BY DEF LedgerInv
<1>. QED  BY <1>1, LedgerInvariant, PTL

(* No reader sees a run go back in time or end a second time.              *)
THEOREM RunsEndOnce == ASSUME Detectable PROVE LedgerSpec => OneOutcome
<1>1. ASSUME LedgerInv, [LedgerNext]_ledgerVars, NEW r \in Run,
             Visible(ledger, r) # NoRecord, Visible(ledger', r) # NoRecord
      PROVE  /\ Visible(ledger', r).at >= Visible(ledger, r).at
             /\ Ended(Visible(ledger, r)) => Visible(ledger', r).status = Visible(ledger, r).status
  <2>1. Visible(ledger, r).at \in Nat
    BY <1>1, VisibleIs DEF LedgerInv, LedgerTyped, LedgerTypeOK, Record, Line
  <2>2. CASE Visible(ledger', r) = Visible(ledger, r)
    BY <2>1, <2>2
  <2>3. ASSUME NEW s \in Server, Shown(s), r = hand[s].run
        PROVE  Visible(ledger', r) = hand[s] /\ Supersedes(hand[s], Visible(ledger, r))
    BY <1>1, <2>3, ValueAssumption DEF Shown, LedgerInv, HandInv
  <2>4. ASSUME NEW s \in Server, Shown(s), r = hand[s].run
        PROVE  /\ Visible(ledger', r).at >= Visible(ledger, r).at
               /\ Ended(Visible(ledger, r)) => Visible(ledger', r).status = Visible(ledger, r).status
    <3>1. hand[s].at \in Nat
      BY <2>4 DEF Shown, Record
    <3>. QED  BY <1>1, <2>1, <2>3, <2>4, <3>1 DEF Supersedes
  <2>5. Unseen \/ \E s \in Server : Shown(s)
    BY <1>1, Effects DEF LedgerInv
  <2>. QED  BY <1>1, <2>2, <2>4, <2>5 DEF Unseen, Shown
<1>2. LedgerInv /\ [LedgerNext]_ledgerVars =>
        [\A r \in Run : Visible(ledger, r) # NoRecord /\ Visible(ledger', r) # NoRecord =>
           /\ Visible(ledger', r).at >= Visible(ledger, r).at
           /\ Ended(Visible(ledger, r)) =>
                Visible(ledger', r).status = Visible(ledger, r).status]_ledgerVars
  BY <1>1
<1>. QED  BY <1>2, LedgerInvariant, PTL DEF LedgerSpec, OneOutcome

=============================================================================
