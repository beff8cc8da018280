--------------------------- MODULE LoopLeaseProofs ---------------------------
(***************************************************************************)
(* Theorems about LoopLease, for any number of processes and turns.  With  *)
(* no crash inside a recovery and no stall (Reliable) the lock file by     *)
(* itself is an exclusive lease; under the lifecycle lease (serialized) it *)
(* is one whatever crashes leave behind.                                   *)
(***************************************************************************)
EXTENDS LoopLease, TLAPS

Reliable == ~CrashInRecovery /\ ~StallPastGrace

(* Who lives, and who may hold a handle.                                   *)
Life ==
    /\ \A p \in Proc : p \in alive <=> at[p] # "dead"
    /\ \A p \in granted : at[p] = "idle"

(* Positions at which the lock on disk is the process's own.               *)
Locked == {"check", "withdraw", "withdrawRemove", "release", "releaseRemove"}

OwnsLock ==
    /\ \A p \in Proc : p \in granted \/ at[p] \in Locked => lock = Signed(p)
    /\ \A p \in Proc : at[p] = "write" => lock = Empty(p)

(* The marker that exists is that of the one process in recovery.          *)
OwnsMarker ==
    /\ \A p \in Proc : at[p] = "signMarker" => marker = Empty(p)
    /\ \A p \in Proc : at[p] \in InRecovery \ {"signMarker"} => marker = Signed(p)
    /\ marker # NoFile => at[marker.by] \in InRecovery /\ marker.state # "aged"
    /\ \A p \in Proc : at[p] \notin {"recoveryCompare", "recoveryRemove"}

AgedIsDead == lock # NoFile /\ lock.state = "aged" => lock.by \notin alive

(* A lock about to be removed as stale is still a dead process's.          *)
RemovesStale == \A p \in Proc : at[p] \in {"confirm", "remove"} => Stale(lock)

LeaseInv == TypeOK /\ Life /\ OwnsLock /\ OwnsMarker /\ AgedIsDead /\ RemovesStale

USE AttemptAssumption, FlagAssumption, NoFileAssumption

-----------------------------------------------------------------------------
LEMMA Files ==
    ASSUME NEW p \in Proc
    PROVE  /\ Empty(p) \in File /\ Signed(p) \in File
           /\ Empty(p) # NoFile /\ Signed(p) # NoFile
           /\ Empty(p) # Signed(p)
BY DEF File, Empty, Signed

LEMMA TypeInit == Init => TypeOK
BY DEF Init, TypeOK, Positions, InRecovery, Contents

LEMMA TypeNext == TypeOK /\ [Next]_vars => TypeOK'
<1>1. SUFFICES ASSUME TypeOK, [Next]_vars PROVE TypeOK'
    OBVIOUS
<1>0. serialized' \in BOOLEAN
    BY <1>1 DEF Next, vars, TypeOK
<1>2. CASE UNCHANGED vars
    BY <1>0, <1>1, <1>2 DEF TypeOK, vars
<1>3. ASSUME NEW p \in Proc, Finish(p) \/ Again(p)
      PROVE  /\ at' \in [Proc -> Positions]
             /\ attempt' \in [Proc -> 0 .. MaxAttempts - 1]
             /\ seen' \in [Proc -> Contents]
    BY <1>0, <1>1, <1>3 DEF TypeOK, Finish, Again, Go, Positions, InRecovery, Contents
<1>4. ASSUME NEW p \in Proc, NEW x \in Positions, On(p, x)
      PROVE  /\ at' \in [Proc -> Positions]
             /\ attempt' \in [Proc -> 0 .. MaxAttempts - 1]
             /\ seen' \in [Proc -> Contents]
    BY <1>0, <1>1, <1>4 DEF TypeOK, On, Go
<1>5. ASSUME NEW p \in Proc, NEW x \in Positions, NEW f \in File, Remember(p, f, x)
      PROVE  /\ at' \in [Proc -> Positions]
             /\ attempt' \in [Proc -> 0 .. MaxAttempts - 1]
             /\ seen' \in [Proc -> Contents]
    <2>1. Content(f) \in Contents
        BY DEF Content, Contents, File
    <2>. QED
        BY <1>0, <1>1, <1>5, <2>1 DEF TypeOK, Remember, Go
<1>6. ASSUME NEW p \in Proc, NEW f \in File \union {NoFile} PROVE Filled(f, p) \in File \union {NoFile}
    BY <1>6, Files DEF Filled
<1>7. \A x \in {"idle", "dead", "recovery", "recoveryRead", "recoveryCompare", "recoveryRemove",
                "open", "write", "check", "withdraw", "withdrawRemove", "read", "mark", "release",
                "releaseRemove", "signMarker", "compare", "confirm", "remove", "readMarker", "unmark"} :
          x \in Positions
    BY DEF Positions, InRecovery
<1>8. ASSUME NEW p \in Proc, Acquire(p) PROVE TypeOK'
    BY <1>0, <1>1, <1>4, <1>7, <1>8 DEF Acquire, TypeOK
<1>9. ASSUME NEW p \in Proc, Release(p) PROVE TypeOK'
    BY <1>0, <1>1, <1>4, <1>7, <1>9 DEF Release, TypeOK
<1>10. ASSUME NEW p \in Proc, Crash(p) PROVE TypeOK'
    BY <1>0, <1>1, <1>7, <1>10 DEF Crash, TypeOK, Go, Contents
<1>11. CASE Age
    BY <1>0, <1>1, <1>11 DEF Age, AgeLock, AgeMarker, MayAge, Aged, TypeOK, File
<1>12. ASSUME NEW p \in Proc, Continue(p) PROVE TypeOK'
    <2>1. CASE Recovery(p)
        BY <1>0, <1>1, <1>4, <1>7, <2>1 DEF Recovery, TypeOK
    <2>2. CASE RecoveryRead(p)
        BY <1>0, <1>1, <1>3, <1>5, <1>7, <2>2 DEF RecoveryRead, TypeOK, Stale
    <2>3. CASE RecoveryCompare(p) \/ RecoveryRemove(p)
        BY <1>0, <1>1, <1>3, <1>4, <1>7, <2>3 DEF RecoveryCompare, RecoveryRemove, TypeOK
    <2>4. CASE Open(p)
        BY <1>0, <1>1, <1>4, <1>7, <2>4, Files DEF Open, TypeOK
    <2>5. CASE Write(p)
        BY <1>0, <1>1, <1>4, <1>6, <1>7, <2>5 DEF Write, TypeOK
    <2>6. CASE Check(p)
        BY <1>0, <1>1, <1>3, <1>4, <1>7, <2>6 DEF Check, TypeOK
    <2>7. CASE Withdraw(p) \/ WithdrawRemove(p)
        BY <1>0, <1>1, <1>3, <1>4, <1>7, <2>7 DEF Withdraw, WithdrawRemove, TypeOK
    <2>8. CASE Read(p)
        BY <1>0, <1>1, <1>3, <1>5, <1>7, <2>8 DEF Read, TypeOK, Stale
    <2>9. CASE Mark(p)
        BY <1>0, <1>1, <1>3, <1>4, <1>7, <2>9, Files DEF Mark, TypeOK
    <2>10. CASE SignMarker(p)
        BY <1>0, <1>1, <1>4, <1>6, <1>7, <2>10 DEF SignMarker, TypeOK
    <2>11. CASE Compare(p) \/ Confirm(p) \/ Remove(p)
        BY <1>0, <1>1, <1>4, <1>7, <2>11 DEF Compare, Confirm, Remove, TypeOK
    <2>12. CASE ReadMarker(p) \/ Unmark(p)
        BY <1>0, <1>1, <1>3, <1>4, <1>7, <2>12 DEF ReadMarker, Unmark, TypeOK
    <2>13. CASE ReleaseRead(p) \/ ReleaseRemove(p)
        BY <1>0, <1>1, <1>3, <1>4, <1>7, <2>13 DEF ReleaseRead, ReleaseRemove, TypeOK
    <2>. QED
        BY <1>12, <2>1, <2>2, <2>3, <2>4, <2>5, <2>6, <2>7, <2>8, <2>9, <2>10, <2>11, <2>12, <2>13
        DEF Continue
<1>. QED
    BY <1>0, <1>1, <1>2, <1>8, <1>9, <1>10, <1>11, <1>12 DEF Next

(* Every variable keeps its type: in particular the turns of the loop are  *)
(* bounded, and what is compared is a token or an unfinished file.         *)
THEOREM TypeCorrect == Spec => []TypeOK
BY TypeInit, TypeNext, PTL DEF Spec

-----------------------------------------------------------------------------
LEMMA LeaseInit == Init => LeaseInv
BY TypeInit DEF Init, LeaseInv, TypeOK, Life, OwnsLock, OwnsMarker, AgedIsDead, RemovesStale,
    Locked, InRecovery, Positions

(* A step of p changes the position of p only.                             *)
LEMMA Elsewhere ==
    ASSUME TypeOK, NEW p \in Proc, Acquire(p) \/ Release(p) \/ Continue(p) \/ Crash(p)
    PROVE  \A q \in Proc \ {p} : at'[q] = at[q]
BY DEF TypeOK, Acquire, Release, Continue, Crash, Recovery, RecoveryRead, RecoveryCompare,
    RecoveryRemove, Open, Write, Check, Withdraw, WithdrawRemove, Read, Mark, SignMarker,
    Compare, Confirm, Remove, ReadMarker, Unmark, ReleaseRead, ReleaseRemove,
    Finish, Again, On, Remember, Go

LEMMA LifeNext == TypeOK /\ Life /\ [Next]_vars => Life'
<1>1. SUFFICES ASSUME TypeOK, Life, [Next]_vars PROVE Life'
    OBVIOUS
<1>2. CASE UNCHANGED vars
    BY <1>1, <1>2 DEF Life, vars
<1>3. CASE Age
    BY <1>1, <1>3 DEF Age, Life
<1>4. ASSUME NEW p \in Proc, Crash(p) PROVE Life'
    BY <1>1, <1>4, Elsewhere DEF Crash, Life, TypeOK, Go
<1>5. ASSUME NEW p \in Proc, Acquire(p) \/ Release(p) PROVE Life'
    BY <1>1, <1>5, Elsewhere DEF Acquire, Release, Life, TypeOK, On, Go
<1>6. ASSUME NEW p \in Proc, Continue(p) PROVE Life'
    <2>1. CASE Check(p)
        BY <1>1, <2>1, <1>6, Elsewhere DEF Check, Life, TypeOK, Finish, On, Go
    <2>2. CASE ~Check(p)
        <3>1. alive' = alive /\ granted' = granted /\ at[p] \notin {"dead", "idle"}
            BY <1>1, <1>6, <2>2 DEF Continue, Recovery, RecoveryRead, RecoveryCompare,
                RecoveryRemove, Open, Write, Withdraw, WithdrawRemove, Read, Mark, SignMarker,
                Compare, Confirm, Remove, ReadMarker, Unmark, ReleaseRead, ReleaseRemove
        <3>2. at'[p] # "dead"
            BY <1>1, <1>6, <2>2 DEF TypeOK, Continue, Recovery, RecoveryRead, RecoveryCompare,
                RecoveryRemove, Open, Write, Withdraw, WithdrawRemove, Read, Mark, SignMarker,
                Compare, Confirm, Remove, ReadMarker, Unmark, ReleaseRead, ReleaseRemove,
                Finish, Again, On, Remember, Go
        <3>. QED
            BY <1>1, <1>6, <3>1, <3>2, Elsewhere DEF Life, TypeOK
    <2>. QED
        BY <2>1, <2>2
<1>. QED
    BY <1>1, <1>2, <1>3, <1>4, <1>5, <1>6 DEF Next

(* A step that leaves the files alone has to answer for the process that   *)
(* takes it only.                                                          *)
LEMMA MoveOnly ==
    ASSUME LeaseInv, NEW p \in Proc, \A q \in Proc \ {p} : at'[q] = at[q],
           UNCHANGED <<alive, lock, marker>>, granted' \subseteq granted \union {p},
           p \in granted' \/ at'[p] \in Locked => lock = Signed(p),
           at'[p] \notin {"write", "signMarker", "recoveryCompare", "recoveryRemove"},
           at'[p] \in InRecovery => marker = Signed(p),
           marker # NoFile => marker.by # p \/ at'[p] \in InRecovery,
           at'[p] \in {"confirm", "remove"} => Stale(lock)
    PROVE  OwnsLock' /\ OwnsMarker' /\ AgedIsDead' /\ RemovesStale'
<1>1. OwnsLock'
    BY DEF LeaseInv, OwnsLock
<1>2. OwnsMarker'
    BY DEF LeaseInv, TypeOK, File, OwnsMarker, InRecovery
<1>3. AgedIsDead'
    BY DEF LeaseInv, AgedIsDead
<1>4. RemovesStale'
    BY DEF LeaseInv, RemovesStale, Stale, IsAlive
<1>. QED
    BY <1>1, <1>2, <1>3, <1>4

(* With Reliable nothing but the process itself touches what OwnsLock and  *)
(* OwnsMarker say of it.                                                   *)
LEMMA LeaseNext ==
    ASSUME Reliable, ~serialized, LeaseInv, [Next]_vars
    PROVE  OwnsLock' /\ OwnsMarker' /\ AgedIsDead' /\ RemovesStale'
<1> DEFINE Goal == OwnsLock' /\ OwnsMarker' /\ AgedIsDead' /\ RemovesStale'
<1>1. CASE UNCHANGED vars
    BY <1>1 DEF LeaseInv, OwnsLock, OwnsMarker, AgedIsDead, RemovesStale, vars, Stale, IsAlive
<1>2. CASE Age
    <2>1. AgeLock
        BY <1>2 DEF Age, AgeLock, AgeMarker, MayAge, LeaseInv, Life, OwnsMarker, Reliable, TypeOK,
            InRecovery, File
    <2>2. lock \in File /\ lock.by \notin alive /\ lock.state = "empty"
        BY <2>1 DEF AgeLock, MayAge, Reliable, LeaseInv, TypeOK
    <2>3. \A p \in Proc : lock \notin {Signed(p), Empty(p)} \/ p \notin alive
        BY <2>2 DEF Signed, Empty
    <2>. QED
        BY <1>2, <2>1, <2>2, <2>3 DEF Age, AgeLock, Aged, LeaseInv, Life, OwnsLock, OwnsMarker,
            AgedIsDead, RemovesStale, Stale, IsAlive, TypeOK, Locked, File, Signed
<1>3. ASSUME NEW p \in Proc, Acquire(p) PROVE Goal
    <2>1. at'[p] = "recovery"
        BY <1>3 DEF Acquire, On, Go, LeaseInv, TypeOK
    <2>. QED
        BY <1>3, <2>1, Elsewhere DEF Acquire, LeaseInv, TypeOK, OwnsLock, OwnsMarker, AgedIsDead,
            RemovesStale, Stale, IsAlive, Locked, InRecovery, File
<1>4. ASSUME NEW p \in Proc, Release(p) PROVE Goal
    <2>1. at'[p] = "release"
        BY <1>4 DEF Release, On, Go, LeaseInv, TypeOK
    <2>. QED
        BY <1>4, <2>1, Elsewhere DEF Release, LeaseInv, TypeOK, OwnsLock, OwnsMarker, AgedIsDead,
            RemovesStale, Stale, IsAlive, Locked, InRecovery, File
<1>5. ASSUME NEW p \in Proc, Crash(p) PROVE Goal
    <2>1. at'[p] = "dead" /\ at[p] \notin InRecovery
        BY <1>5 DEF Crash, Go, LeaseInv, TypeOK, Reliable
    <2>2. /\ UNCHANGED <<lock, marker>> /\ granted' \subseteq granted /\ alive' \subseteq alive
          /\ \A q \in Proc \ {p} : at'[q] = at[q]
        BY <1>5, Elsewhere DEF Crash, LeaseInv
    <2>3. p \notin granted'
        BY <1>5 DEF Crash
    <2>4. OwnsLock'
        BY <2>1, <2>2, <2>3 DEF LeaseInv, OwnsLock, Locked
    <2>5. OwnsMarker'
        BY <2>1, <2>2 DEF LeaseInv, TypeOK, OwnsMarker, InRecovery, File
    <2>6. AgedIsDead' /\ RemovesStale'
        BY <2>1, <2>2 DEF LeaseInv, AgedIsDead, RemovesStale, Stale, IsAlive, InRecovery
    <2>. QED
        BY <2>4, <2>5, <2>6
<1>6. ASSUME NEW p \in Proc, Continue(p) PROVE Goal
    <2> USE <1>6 DEF LeaseInv
    <2>0. /\ \A q \in Proc \ {p} : at'[q] = at[q]
          /\ p \in alive /\ p \notin granted
          /\ marker # NoFile /\ marker.by = p => at[p] \in InRecovery
        <3>1. at[p] \notin {"dead", "idle"}
            BY DEF Continue, Recovery, RecoveryRead, RecoveryCompare,
                RecoveryRemove, Open, Write, Check, Withdraw, WithdrawRemove, Read, Mark, SignMarker,
                Compare, Confirm, Remove, ReadMarker, Unmark, ReleaseRead, ReleaseRemove
        <3>. QED
            BY <3>1, Elsewhere DEF Life, OwnsMarker
    <2>1. CASE Recovery(p)
        <3>1. at'[p] \in {"recoveryRead", "open"}
            BY <2>1 DEF Recovery, On, Go, TypeOK
        <3>. QED
            BY <2>0, <2>1, <3>1, MoveOnly DEF Recovery, Locked, InRecovery
    <2>2. CASE RecoveryRead(p)
        <3>1. ~Stale(marker)
            BY DEF Stale, IsAlive, OwnsMarker, Life, TypeOK, File, InRecovery
        <3>2. at'[p] = "idle"
            BY <2>2, <3>1 DEF RecoveryRead, Finish, Go, TypeOK
        <3>. QED
            BY <2>0, <2>2, <3>2, MoveOnly DEF RecoveryRead, Locked, InRecovery
    <2>3. CASE RecoveryCompare(p) \/ RecoveryRemove(p)
        BY <2>3 DEF RecoveryCompare, RecoveryRemove, OwnsMarker
    <2>4. CASE Open(p)
        <3>1. at'[p] = (IF lock = NoFile THEN "write" ELSE "read")
            BY <2>4 DEF Open, On, Go, TypeOK
        <3>2. CASE lock = NoFile
            <4>1. lock' = Empty(p) /\ Empty(p) # NoFile /\ UNCHANGED <<alive, marker, granted>>
                BY <2>4, <3>2, Files DEF Open
            <4>2. OwnsLock'
                BY <2>0, <3>1, <3>2, <4>1, Files DEF OwnsLock, Locked
            <4>3. OwnsMarker'
                BY <2>0, <2>4, <3>1, <3>2, <4>1 DEF Open, TypeOK, File, OwnsMarker, InRecovery
            <4>4. AgedIsDead' /\ RemovesStale'
                BY <2>0, <3>1, <3>2, <4>1 DEF AgedIsDead, RemovesStale, Stale, Empty
            <4>. QED
                BY <4>2, <4>3, <4>4
        <3>3. CASE lock # NoFile
            BY <2>0, <2>4, <3>1, <3>3, MoveOnly DEF Open, Locked, InRecovery
        <3>. QED
            BY <3>2, <3>3
    <2>5. CASE Write(p)
        <3>1. at'[p] = "check" /\ lock = Empty(p) /\ lock' = Signed(p)
            BY <2>5, Files DEF Write, On, Go, TypeOK, OwnsLock, Filled, Empty
        <3>2. ~Stale(lock)
            BY <3>1 DEF Stale, IsAlive, Empty
        <3>3. \A q \in Proc \ {p} : q \notin granted /\ at[q] \notin Locked \union {"write"}
            BY <3>1 DEF OwnsLock, Empty, Signed
        <3>4. UNCHANGED <<alive, marker, granted>>
            BY <2>5 DEF Write
        <3>5. OwnsLock'
            BY <2>0, <3>1, <3>3, <3>4 DEF OwnsLock
        <3>6. OwnsMarker'
            BY <2>0, <2>5, <3>1, <3>4 DEF Write, TypeOK, File, OwnsMarker, InRecovery
        <3>7. AgedIsDead' /\ RemovesStale'
            BY <2>0, <3>1, <3>2, <3>4 DEF AgedIsDead, RemovesStale, Signed
        <3>. QED
            BY <3>5, <3>6, <3>7
    <2>6. CASE Check(p)
        <3>1. at'[p] \in {"withdraw", "idle"} /\ lock = Signed(p)
            BY <2>6 DEF Check, On, Finish, Go, TypeOK, OwnsLock, Locked
        <3>. QED
            BY <2>0, <2>6, <3>1, MoveOnly DEF Check, Locked, InRecovery
    <2>7. CASE Withdraw(p) \/ ReleaseRead(p)
        <3>1. /\ lock = Signed(p)
              /\ at'[p] \in {"withdrawRemove", "releaseRemove", "recovery", "idle"}
            BY <2>7 DEF Withdraw, ReleaseRead, On, Again, Finish, Go, TypeOK, OwnsLock, Locked
        <3>. QED
            BY <2>0, <2>7, <3>1, MoveOnly DEF Withdraw, ReleaseRead, Locked, InRecovery
    <2>8. CASE WithdrawRemove(p) \/ ReleaseRemove(p)
        <3>1. lock = Signed(p) /\ lock' = NoFile /\ at'[p] \in {"recovery", "idle"}
            BY <2>8 DEF WithdrawRemove, ReleaseRemove, Again, Finish, Go, TypeOK, OwnsLock, Locked
        <3>2. p \in alive /\ p \notin granted
            BY <2>8 DEF WithdrawRemove, ReleaseRemove, Life
        <3>3. ~Stale(lock)
            BY <3>1, <3>2 DEF Stale, IsAlive, Signed
        <3>4. \A q \in Proc \ {p} : q \notin granted /\ at[q] \notin Locked \union {"write"}
            BY <3>1 DEF OwnsLock, Empty, Signed
        <3>5. UNCHANGED <<alive, marker, granted>> /\ at[p] \notin InRecovery
            BY <2>8 DEF WithdrawRemove, ReleaseRemove, InRecovery
        <3>6. OwnsLock'
            BY <2>0, <3>1, <3>4, <3>5 DEF OwnsLock, Locked
        <3>7. OwnsMarker'
            BY <2>0, <3>1, <3>5 DEF TypeOK, File, OwnsMarker, InRecovery
        <3>8. AgedIsDead' /\ RemovesStale'
            BY <2>0, <3>1, <3>3, <3>5 DEF AgedIsDead, RemovesStale
        <3>. QED
            BY <3>6, <3>7, <3>8
    <2>9. CASE Read(p)
        <3>1. at'[p] \in {"mark", "idle"}
            BY <2>9 DEF Read, Remember, Finish, Go, TypeOK
        <3>. QED
            BY <2>0, <2>9, <3>1, MoveOnly DEF Read, Locked, InRecovery
    <2>10. CASE Mark(p)
        <3>1. CASE marker = NoFile
            <4>1. at'[p] = "signMarker" /\ marker' = Empty(p)
                BY <2>10, <3>1 DEF Mark, On, Go, TypeOK
            <4>2. UNCHANGED <<alive, lock, granted>> /\ Empty(p) # NoFile
                BY <2>10, Files DEF Mark
            <4>3. OwnsLock' /\ AgedIsDead' /\ RemovesStale'
                BY <2>0, <4>1, <4>2 DEF OwnsLock, Locked, AgedIsDead, RemovesStale, Stale, IsAlive
            <4>4. OwnsMarker'
                BY <2>0, <3>1, <4>1, <4>2, Files DEF TypeOK, OwnsMarker, InRecovery, Empty
            <4>. QED
                BY <4>3, <4>4
        <3>2. CASE marker # NoFile
            <4>1. at'[p] \in {"recovery", "idle"}
                BY <2>10, <3>2 DEF Mark, Again, Finish, Go, TypeOK
            <4>. QED
                BY <2>0, <2>10, <3>2, <4>1, MoveOnly DEF Mark, Locked, InRecovery
        <3>. QED
            BY <3>1, <3>2
    <2>11. CASE SignMarker(p)
        <3>1. at'[p] = "compare" /\ marker = Empty(p) /\ marker' = Signed(p)
            BY <2>11, Files DEF SignMarker, On, Go, TypeOK, OwnsMarker, Filled, Empty
        <3>2. \A q \in Proc \ {p} : at[q] \notin InRecovery
            BY <3>1 DEF OwnsMarker, Empty, Signed, InRecovery
        <3>3. UNCHANGED <<alive, lock, granted>> /\ Signed(p) # NoFile
            BY <2>11, Files DEF SignMarker
        <3>4. OwnsLock' /\ AgedIsDead' /\ RemovesStale'
            BY <2>0, <3>1, <3>3 DEF OwnsLock, Locked, AgedIsDead, RemovesStale, Stale, IsAlive
        <3>5. OwnsMarker'
            BY <2>0, <3>1, <3>2, <3>3 DEF TypeOK, OwnsMarker, InRecovery, Signed
        <3>. QED
            BY <3>4, <3>5
    <2>12. CASE Compare(p) \/ Confirm(p)
        <3>1. at'[p] \in {"confirm", "remove", "readMarker"} /\ (at'[p] # "readMarker" => Stale(lock))
            BY <2>12 DEF Compare, Confirm, On, Go, TypeOK, RemovesStale
        <3>2. marker = Signed(p)
            BY <2>12 DEF Compare, Confirm, OwnsMarker, InRecovery
        <3>. QED
            BY <2>0, <2>12, <3>1, <3>2, MoveOnly DEF Compare, Confirm, Locked, InRecovery
    <2>13. CASE Remove(p)
        <3>1. at'[p] = "readMarker" /\ Stale(lock) /\ lock' = NoFile /\ marker = Signed(p)
            BY <2>13 DEF Remove, On, Go, TypeOK, RemovesStale, OwnsMarker, InRecovery
        <3>2. \A q \in Proc : q \notin granted /\ at[q] \notin Locked \union {"write"}
            BY <3>1 DEF OwnsLock, Life, Stale, IsAlive, Empty, Signed, Locked
        <3>3. \A q \in Proc \ {p} : at[q] \notin InRecovery
            BY <3>1 DEF OwnsMarker, Empty, Signed, InRecovery
        <3>4. UNCHANGED <<alive, marker, granted>>
            BY <2>13 DEF Remove
        <3>5. OwnsLock'
            BY <2>0, <3>1, <3>2, <3>4 DEF OwnsLock, Locked
        <3>6. OwnsMarker'
            BY <2>0, <3>1, <3>4 DEF TypeOK, File, OwnsMarker, InRecovery, Signed
        <3>7. AgedIsDead' /\ RemovesStale'
            BY <2>0, <3>1, <3>3, <3>4 DEF AgedIsDead, RemovesStale, InRecovery
        <3>. QED
            BY <3>5, <3>6, <3>7
    <2>14. CASE ReadMarker(p)
        <3>1. marker = Signed(p)
            BY <2>14 DEF ReadMarker, OwnsMarker, InRecovery
        <3>2. Reads(marker, <<p>>)
            BY <3>1, Files DEF Reads, Content, Signed
        <3>3. at'[p] = "unmark"
            BY <2>14, <3>2 DEF ReadMarker, On, Go, TypeOK
        <3>. QED
            BY <2>0, <2>14, <3>1, <3>3, MoveOnly DEF ReadMarker, Locked, InRecovery
    <2>15. CASE Unmark(p)
        <3>1. at'[p] \in {"recovery", "idle"} /\ marker = Signed(p) /\ marker' = NoFile
            BY <2>15 DEF Unmark, Again, Finish, Go, TypeOK, OwnsMarker, InRecovery
        <3>2. \A q \in Proc \ {p} : at[q] \notin InRecovery
            BY <3>1, Files DEF OwnsMarker, Empty, Signed, InRecovery
        <3>3. UNCHANGED <<alive, lock, granted>>
            BY <2>15 DEF Unmark
        <3>4. OwnsLock' /\ AgedIsDead' /\ RemovesStale'
            BY <2>0, <3>1, <3>3 DEF OwnsLock, Locked, AgedIsDead, RemovesStale, Stale, IsAlive
        <3>5. OwnsMarker'
            BY <2>0, <3>1, <3>2 DEF OwnsMarker, InRecovery
        <3>. QED
            BY <3>4, <3>5
    <2>. QED
        BY <2>1, <2>2, <2>3, <2>4, <2>5, <2>6, <2>7, <2>8, <2>9, <2>10, <2>11, <2>12, <2>13,
            <2>14, <2>15 DEF Continue
<1>. QED
    BY <1>1, <1>2, <1>3, <1>4, <1>5, <1>6 DEF Next

-----------------------------------------------------------------------------
(* Under the lifecycle lease one process at a time is in here.             *)
Single == \A p, q \in granted \union Busy : p = q

LEMMA SingleNext ==
    ASSUME serialized, TypeOK, Life, Single, [Next]_vars
    PROVE  Single'
<1>1. CASE UNCHANGED vars
    BY <1>1 DEF Single, Busy, vars
<1>2. CASE Age
    BY <1>2 DEF Age, Single, Busy
<1>3. ASSUME NEW p \in Proc, Acquire(p) PROVE Single'
    <2>1. granted' \union Busy' \subseteq {p}
        BY <1>3, Elsewhere DEF Acquire, Busy
    <2>. QED
        BY <2>1 DEF Single
<1>4. ASSUME NEW p \in Proc, Release(p) \/ Continue(p) \/ Crash(p) PROVE Single'
    <2>1. granted' \subseteq granted \union {p}
        BY <1>4 DEF Release, Crash, Continue, Recovery, RecoveryRead, RecoveryCompare,
            RecoveryRemove, Open, Write, Check, Withdraw, WithdrawRemove, Read, Mark, SignMarker,
            Compare, Confirm, Remove, ReadMarker, Unmark, ReleaseRead, ReleaseRemove
    <2>2. CASE Crash(p)
        BY <1>4, <2>2, Elsewhere DEF Crash, Single, Busy, TypeOK, Go
    <2>3. CASE Release(p)
        BY <1>4, <2>1, <2>3, Elsewhere DEF Release, Single, Busy
    <2>4. CASE Continue(p)
        <3>1. p \in Busy
            BY <2>4 DEF Busy, Continue, Recovery, RecoveryRead, RecoveryCompare,
                RecoveryRemove, Open, Write, Check, Withdraw, WithdrawRemove, Read, Mark,
                SignMarker, Compare, Confirm, Remove, ReadMarker, Unmark, ReleaseRead, ReleaseRemove
        <3>. QED
            BY <1>4, <2>1, <3>1, Elsewhere DEF Single, Busy
    <2>. QED
        BY <1>4, <2>2, <2>3, <2>4
<1>. QED
    BY <1>1, <1>2, <1>3, <1>4 DEF Next

(* Then nobody else is there to take the lock that a process has made.      *)
LEMMA SerialOwnsLock ==
    ASSUME ~StallPastGrace, serialized, TypeOK, Life, Single, OwnsLock, [Next]_vars
    PROVE  OwnsLock'
<1> DEFINE Mine(p) == p \in granted \/ at[p] \in Locked \union {"write"}
<1>1. \A p, q \in Proc : Mine(p) /\ (q \in granted \/ q \in Busy) => p = q
    BY DEF Single, Busy, Locked
<1>2. CASE UNCHANGED vars
    BY <1>2 DEF OwnsLock, vars
<1>3. CASE Age
    <2>1. ASSUME NEW p \in Proc, Mine(p) PROVE ~AgeLock
        <3>1. p \in alive
            BY <2>1 DEF Life, Locked
        <3>. QED
            BY <2>1, <3>1, Files DEF OwnsLock, AgeLock, MayAge, Signed, Empty
    <2>. QED
        BY <1>3, <2>1 DEF Age, AgeMarker, OwnsLock
<1>4. ASSUME NEW p \in Proc, Acquire(p) PROVE OwnsLock'
    <2>1. at'[p] = "recovery"
        BY <1>4 DEF Acquire, On, Go, TypeOK
    <2>. QED
        BY <1>4, <2>1, Elsewhere DEF Acquire, OwnsLock, Locked
<1>5. ASSUME NEW p \in Proc, Release(p) PROVE OwnsLock'
    <2>1. at'[p] = "release"
        BY <1>5 DEF Release, On, Go, TypeOK
    <2>. QED
        BY <1>5, <2>1, Elsewhere DEF Release, OwnsLock, Locked
<1>6. ASSUME NEW p \in Proc, Crash(p) PROVE OwnsLock'
    <2>1. at'[p] = "dead"
        BY <1>6 DEF Crash, Go, TypeOK
    <2>. QED
        BY <1>6, <2>1, Elsewhere DEF Crash, OwnsLock, Locked
<1>7. ASSUME NEW p \in Proc, Continue(p) PROVE OwnsLock'
    <2>1. /\ p \in Busy /\ p \notin granted
          /\ \A q \in Proc \ {p} : at'[q] = at[q]
        BY <1>7, Elsewhere DEF Life, Busy, Continue, Recovery, RecoveryRead, RecoveryCompare,
            RecoveryRemove, Open, Write, Check, Withdraw, WithdrawRemove, Read, Mark, SignMarker,
            Compare, Confirm, Remove, ReadMarker, Unmark, ReleaseRead, ReleaseRemove
    <2>2. \A q \in Proc \ {p} : ~Mine(q)
        BY <1>1, <2>1
    <2>3. ASSUME granted' \subseteq granted \union {p},
                 p \in granted' \/ at'[p] \in Locked => lock' = Signed(p),
                 at'[p] = "write" => lock' = Empty(p)
          PROVE  OwnsLock'
        BY <2>1, <2>2, <2>3 DEF OwnsLock
    <2>4. CASE Open(p)
        <3>1. at'[p] \in {"write", "read"} /\ (at'[p] = "write" => lock' = Empty(p))
            BY <2>4 DEF Open, On, Go, TypeOK
        <3>. QED
            BY <2>1, <2>3, <2>4, <3>1 DEF Open, Locked
    <2>5. CASE Write(p)
        <3>1. at'[p] = "check" /\ lock' = Signed(p)
            BY <2>5, Files DEF Write, On, Go, TypeOK, OwnsLock, Filled, Empty
        <3>. QED
            BY <2>3, <2>5, <3>1 DEF Write
    <2>6. CASE Check(p)
        <3>1. lock' = Signed(p) /\ at'[p] \in {"withdraw", "idle"} /\ granted' \subseteq granted \union {p}
            BY <2>6 DEF Check, Finish, On, Go, TypeOK, OwnsLock, Locked
        <3>. QED
            BY <2>3, <3>1
    <2>7. CASE Withdraw(p) \/ ReleaseRead(p)
        <3>1. /\ lock' = Signed(p) /\ granted' = granted
              /\ at'[p] \in {"withdrawRemove", "releaseRemove", "recovery", "idle"}
            BY <2>7 DEF Withdraw, ReleaseRead, On, Again, Finish, Go, TypeOK, OwnsLock, Locked
        <3>. QED
            BY <2>3, <3>1
    <2>8. CASE ~(Open(p) \/ Write(p) \/ Check(p) \/ Withdraw(p) \/ ReleaseRead(p))
        <3>1. at'[p] \notin Locked \union {"write"} /\ granted' = granted
            BY <1>7, <2>8 DEF TypeOK, Continue, Recovery, RecoveryRead, RecoveryCompare,
                RecoveryRemove, WithdrawRemove, Read, Mark, SignMarker, Compare, Confirm, Remove,
                ReadMarker, Unmark, ReleaseRemove, Finish, Again, On, Remember, Go, Locked
        <3>. QED
            BY <2>1, <2>3, <3>1
    <2>. QED
        BY <2>4, <2>5, <2>6, <2>7, <2>8
<1>. QED
    BY <1>2, <1>3, <1>4, <1>5, <1>6, <1>7 DEF Next

Inv ==
    /\ TypeOK /\ Life /\ OwnsLock
    /\ IF serialized THEN Single ELSE OwnsMarker /\ AgedIsDead /\ RemovesStale

LEMMA Invariant == Reliable /\ Spec => []Inv
<1>1. Init => Inv
    BY LeaseInit DEF Init, LeaseInv, Inv, Single, Busy
<1>2. ASSUME Reliable, Inv, [Next]_vars PROVE Inv'
    <2>1. serialized' = serialized /\ TypeOK' /\ Life'
        BY <1>2, TypeNext, LifeNext DEF Inv, Next, vars
    <2>2. CASE serialized
        BY <1>2, <2>1, <2>2, SingleNext, SerialOwnsLock DEF Inv, Reliable
    <2>3. CASE ~serialized
        BY <1>2, <2>1, <2>3, LeaseNext DEF Inv, LeaseInv
    <2>. QED
        BY <2>2, <2>3
<1>3. CASE Reliable
    <2>1. Inv /\ [Next]_vars => Inv'
        BY <1>2, <1>3
    <2>. QED
        BY <1>1, <2>1, PTL DEF Spec
<1>. QED
    BY <1>3

(* A granted lease can be seen: isLoopLeaseActive finds its signed file.   *)
THEOREM GrantedIsVisible == Reliable => (Spec => []Visible)
<1>1. Inv => Visible
    BY DEF Inv, TypeOK, OwnsLock, Visible
<1>. QED
    BY <1>1, Invariant, PTL

-----------------------------------------------------------------------------
LEMMA MapsInit == Init => AbstractLease!Init
BY DEF Init, AbstractLease!Init

(* A handle is given out by Check alone; while nobody else has one that is *)
(* the abstract Acquire.                                                   *)
LEMMA MapsNext ==
    ASSUME TypeOK, Life, [Next]_vars,
           \A p \in Proc : at[p] = "check" => granted \subseteq {p}
    PROVE  [AbstractLease!Next]_AbstractLease!vars
<1> DEFINE owns == [p \in Proc |-> IF p \in granted THEN {Loop} ELSE {}]
<1> USE DEF AbstractLease!vars, AbstractLease!Names, AbstractLease!Next
<1>1. CASE UNCHANGED <<alive, granted>>
    BY <1>1
<1>2. ASSUME NEW p \in Proc, Check(p), granted' = granted \union {p} PROVE AbstractLease!Acquire(p, Loop)
    <2>1. p \in alive /\ granted = {}
        BY <1>2 DEF Check, Life, TypeOK
    <2>2. AbstractLease!Free(p, Loop)
        BY <2>1 DEF AbstractLease!Free, AbstractLease!Others
    <2>3. owns' = [owns EXCEPT ![p] = @ \union {Loop}]
        BY <1>2, <2>1
    <2>4. UNCHANGED alive
        BY <1>2 DEF Check
    <2>. QED
        BY <2>1, <2>2, <2>3, <2>4 DEF AbstractLease!Acquire
<1>3. ASSUME NEW p \in Proc, Release(p) PROVE AbstractLease!Release(p, Loop)
    BY <1>3 DEF Release, AbstractLease!Release
<1>4. ASSUME NEW p \in Proc, Crash(p) PROVE AbstractLease!Die(p)
    BY <1>4 DEF Crash, AbstractLease!Die
<1>5. ASSUME NEW p \in Proc, Continue(p), ~(Check(p) /\ granted' = granted \union {p})
      PROVE  UNCHANGED <<alive, granted>>
    BY <1>5 DEF Continue, Recovery, RecoveryRead, RecoveryCompare, RecoveryRemove, Open, Write,
        Check, Withdraw, WithdrawRemove, Read, Mark, SignMarker, Compare, Confirm, Remove,
        ReadMarker, Unmark, ReleaseRead, ReleaseRemove
<1>6. ASSUME NEW p \in Proc, Acquire(p) PROVE UNCHANGED <<alive, granted>>
    BY <1>6 DEF Acquire
<1>7. CASE Age
    BY <1>1, <1>7 DEF Age
<1>. QED
    BY <1>1, <1>2, <1>3, <1>4, <1>5, <1>6, <1>7 DEF Next, vars

(* The lock file by itself is an exclusive lease, as long as no process    *)
(* dies in the middle of a recovery.                                       *)
THEOREM Refinement == Reliable => (Spec => ImplementsLease)
<1>1. Inv => TypeOK /\ Life /\ \A p \in Proc : at[p] = "check" => granted \subseteq {p}
    BY Files DEF Inv, TypeOK, OwnsLock, Locked, Signed
<1>2. Inv /\ [Next]_vars => [AbstractLease!Next]_AbstractLease!vars
    BY <1>1, MapsNext
<1>. QED
    BY <1>2, MapsInit, Invariant, PTL DEF Spec, ImplementsLease, AbstractLease!Spec

(* With the lifecycle lease around it, which every caller in the           *)
(* repository holds, it is one whatever a crash or a stall leaves behind.  *)
THEOREM SerializedRefinement == serialized /\ Spec => ImplementsLease
<1> DEFINE SerialInv == serialized /\ TypeOK /\ Life /\ Single
<1>1. serialized /\ Init => SerialInv
    BY LeaseInit DEF Init, LeaseInv, Single, Busy
<1>2. SerialInv /\ [Next]_vars => SerialInv'
    <2>1. [Next]_vars => serialized' = serialized
        BY DEF Next, vars
    <2>. QED
        BY <2>1, TypeNext, LifeNext, SingleNext
<1>3. SerialInv => \A p \in Proc : at[p] = "check" => granted \subseteq {p}
    BY DEF Single, Busy
<1>4. SerialInv /\ [Next]_vars => [AbstractLease!Next]_AbstractLease!vars
    BY <1>3, MapsNext
<1>. QED
    BY <1>1, <1>2, <1>4, MapsInit, PTL DEF Spec, ImplementsLease, AbstractLease!Spec

-----------------------------------------------------------------------------
(* What one acquisition under the lifecycle lease knows, whoever died      *)
(* before it and wherever: nobody else touches the files.                  *)
Left(f) == IF f = NoFile THEN 0 ELSE 1

Alone(p) ==
    /\ p \in granted \/ at[p] \in Locked => lock = Signed(p)
    /\ at[p] = "write" => lock # NoFile /\ lock.by = p
    /\ at[p] = "signMarker" => marker # NoFile /\ marker.by = p
    /\ at[p] \in InRecovery \ {"signMarker"} => marker = Signed(p)
    /\ at[p] \in {"recoveryRead", "recoveryRemove"} => marker # NoFile
    /\ at[p] = "recoveryCompare" => Reads(marker, seen[p])
    /\ at[p] \in {"open", "write", "check", "read", "mark"} => marker = NoFile
    /\ at[p] = "read" => lock # NoFile
    /\ at[p] \in {"mark", "signMarker", "compare", "confirm"} => Stale(lock) /\ Reads(lock, seen[p])
    /\ at[p] \in {"readMarker", "unmark"} => lock = NoFile
    /\ at[p] \notin {"withdraw", "withdrawRemove"}

(* A turn is spent on the marker and one on the lock that a crash left.    *)
Turns(p) ==
    /\ at[p] = "idle" => attempt[p] = 0
    /\ at[p] \in {"recovery", "recoveryRead", "recoveryCompare", "recoveryRemove"} =>
          attempt[p] + Left(marker) + Left(lock) <= 2
    /\ at[p] \in {"open", "read"} => attempt[p] + Left(lock) <= 2
    /\ at[p] \in InRecovery \union {"mark"} => attempt[p] <= 1

(* A process that lives has left no file that it does not use.             *)
Remains ==
    /\ lock # NoFile /\ lock.state = "signed" /\ lock.by \in alive =>
          lock.by \in granted \/ at[lock.by] \in Locked
    /\ marker # NoFile /\ marker.by \in alive => at[marker.by] \in InRecovery

Serial == TypeOK /\ Life /\ Single /\ Remains /\ \A p \in Proc : Alone(p) /\ Turns(p)

LEMMA SerialInit == Init => Serial
<1>1. Init => Life /\ Single /\ TypeOK
    BY LeaseInit DEF Init, LeaseInv, Single, Busy
<1>2. Init => Remains /\ \A p \in Proc : Alone(p) /\ Turns(p)
    BY DEF Init, Remains, Alone, Turns, Locked, InRecovery
<1>. QED
    BY <1>1, <1>2 DEF Serial

(* The others are not in here: what holds of them is not disturbed.        *)
LEMMA OthersAlone ==
    ASSUME TypeOK, \A q \in Proc : Turns(q), NEW p \in Proc,
           \A q \in Proc \ {p} : /\ at[q] \in {"idle", "dead"} /\ q \notin granted'
                                 /\ at'[q] = at[q] /\ attempt'[q] = attempt[q],
           Alone(p)', Turns(p)'
    PROVE  \A q \in Proc : Alone(q)' /\ Turns(q)'
<1>1. ASSUME NEW q \in Proc \ {p} PROVE Alone(q)' /\ Turns(q)'
    <2>1. at'[q] \in {"idle", "dead"} /\ q \notin granted' /\ (at'[q] = "idle" => attempt'[q] = 0)
        BY <1>1 DEF Turns
    <2>2. Alone(q)'
        BY <2>1 DEF Alone, Locked, InRecovery
    <2>. QED
        BY <2>1, <2>2 DEF Turns, InRecovery
<1>. QED
    BY <1>1

(* One call of the operation, from the position p is at to the next.       *)
LEMMA SerialContinue ==
    ASSUME Serial, serialized, MaxAttempts >= 3, NEW p \in Proc, Continue(p)
    PROVE  Remains' /\ Alone(p)' /\ Turns(p)'
<1> DEFINE a == attempt[p]
           Goal == Remains' /\ Alone(p)' /\ Turns(p)'
<1>1. /\ p \in alive /\ p \notin granted /\ at[p] \in Positions \ {"idle", "dead"}
      /\ Alone(p) /\ Turns(p) /\ Remains /\ TypeOK /\ a \in Nat
      /\ \A q \in Proc \ {p} : /\ at[q] \in {"idle", "dead"} /\ q \notin granted
                               /\ at'[q] = at[q]
    <2>1. at[p] \in Positions \ {"idle", "dead"}
        BY DEF Serial, TypeOK, Continue, Recovery, RecoveryRead, RecoveryCompare,
            RecoveryRemove, Open, Write, Check, Withdraw, WithdrawRemove, Read, Mark, SignMarker,
            Compare, Confirm, Remove, ReadMarker, Unmark, ReleaseRead, ReleaseRemove
    <2>2. p \in Busy
        BY <2>1 DEF Busy
    <2>. QED
        BY <2>1, <2>2, Elsewhere DEF Serial, Life, Single, Busy, TypeOK
(* Nobody who lives has signed either file, unless p has.                  *)
<1>2. /\ lock # NoFile /\ lock.state = "signed" /\ lock.by \in alive => lock.by = p /\ at[p] \in Locked
      /\ marker # NoFile /\ marker.by \in alive => marker.by = p /\ at[p] \in InRecovery
    BY <1>1 DEF Remains, TypeOK, File, Locked, InRecovery
(* A step that leaves the lock alone, or removes it, outside Locked.       *)
<1>3. ASSUME UNCHANGED <<alive, granted>>, lock' \in {lock, NoFile}, marker' \in {marker, NoFile},
             at[p] \notin Locked,
             marker' # NoFile /\ at[p] \in InRecovery => at'[p] \in InRecovery
      PROVE  Remains'
    BY <1>1, <1>2, <1>3 DEF Remains, Locked, InRecovery
<1>4. CASE Recovery(p)
    <2>1. /\ UNCHANGED <<alive, lock, marker, granted, attempt>> /\ at[p] = "recovery"
          /\ at'[p] = (IF marker # NoFile THEN "recoveryRead" ELSE "open")
        BY <1>1, <1>4 DEF Recovery, On, Go, TypeOK
    <2>2. Alone(p)' /\ Turns(p)'
        BY <1>1, <2>1 DEF Alone, Turns, Left, Locked, InRecovery
    <2>. QED
        BY <1>3, <2>1, <2>2 DEF Locked, InRecovery
<1>5. CASE RecoveryRead(p)
    <2>1. /\ UNCHANGED <<alive, lock, marker, granted>> /\ at[p] = "recoveryRead"
          /\ marker # NoFile
          /\ \/ at'[p] = "recoveryCompare" /\ attempt' = attempt /\ seen'[p] = Content(marker)
             \/ at'[p] = "idle" /\ attempt'[p] = 0
        BY <1>1, <1>5 DEF RecoveryRead, Remember, Finish, Go, TypeOK, Alone
    <2>2. Alone(p)' /\ Turns(p)'
        BY <1>1, <2>1 DEF Alone, Turns, Left, Locked, InRecovery, Reads
    <2>. QED
        BY <1>3, <2>1, <2>2 DEF Locked, InRecovery
<1>6. CASE RecoveryCompare(p)
    <2>1. /\ UNCHANGED <<alive, lock, marker, granted, attempt>> /\ at[p] = "recoveryCompare"
          /\ marker # NoFile /\ at'[p] = "recoveryRemove"
        BY <1>1, <1>6 DEF RecoveryCompare, On, Go, TypeOK, Alone, Reads
    <2>2. Alone(p)' /\ Turns(p)'
        BY <1>1, <2>1 DEF Alone, Turns, Left, Locked, InRecovery
    <2>. QED
        BY <1>3, <2>1, <2>2 DEF Locked, InRecovery
<1>7. CASE RecoveryRemove(p)
    <2>1. a + 1 + Left(lock) <= 2 /\ at[p] = "recoveryRemove"
        BY <1>1, <1>7 DEF RecoveryRemove, Alone, Turns, Left
    <2>2. /\ UNCHANGED <<alive, lock, granted>> /\ marker' = NoFile
          /\ at'[p] = "recovery" /\ attempt'[p] = a + 1
        BY <1>1, <1>7, <2>1 DEF RecoveryRemove, Again, Go, TypeOK, Left
    <2>3. Alone(p)' /\ Turns(p)'
        BY <1>1, <2>1, <2>2 DEF Alone, Turns, Left, Locked, InRecovery
    <2>. QED
        BY <1>3, <2>1, <2>2, <2>3 DEF Locked, InRecovery
<1>8. CASE Open(p)
    <2>1. /\ UNCHANGED <<alive, marker, granted, attempt>> /\ at[p] = "open" /\ marker = NoFile
          /\ \/ lock = NoFile /\ lock' = Empty(p) /\ at'[p] = "write"
             \/ lock # NoFile /\ lock' = lock /\ at'[p] = "read"
        BY <1>1, <1>8 DEF Open, On, Go, TypeOK, Alone
    <2>2. Alone(p)' /\ Turns(p)'
        BY <1>1, <2>1, Files DEF Alone, Turns, Left, Locked, InRecovery, Empty
    <2>3. Remains'
        BY <1>1, <1>2, <2>1 DEF Remains, Locked, Empty
    <2>. QED
        BY <2>2, <2>3
<1>9. CASE Write(p)
    <2>1. /\ UNCHANGED <<alive, marker, granted>> /\ marker = NoFile
          /\ lock' = Signed(p) /\ at'[p] = "check"
        BY <1>1, <1>9 DEF Write, Filled, On, Go, TypeOK, Alone
    <2>2. Alone(p)' /\ Turns(p)'
        BY <1>1, <2>1 DEF Alone, Turns, Locked, InRecovery
    <2>3. Remains'
        BY <2>1 DEF Remains, Locked, Signed
    <2>. QED
        BY <2>2, <2>3
<1>10. CASE Check(p)
    <2>1. /\ UNCHANGED <<alive, lock, marker>> /\ marker = NoFile /\ lock = Signed(p)
          /\ granted' = granted \union {p} /\ at'[p] = "idle" /\ attempt'[p] = 0
        BY <1>1, <1>10 DEF Check, Finish, Go, TypeOK, Alone, Locked
    <2>2. Alone(p)' /\ Turns(p)'
        BY <1>1, <2>1 DEF Alone, Turns, Locked, InRecovery
    <2>3. Remains'
        BY <2>1 DEF Remains, Locked, Signed
    <2>. QED
        BY <2>2, <2>3
<1>11. CASE Read(p)
    <2>1. /\ UNCHANGED <<alive, lock, marker, granted>> /\ at[p] = "read" /\ marker = NoFile
          /\ lock # NoFile /\ a <= 1
          /\ \/ /\ at'[p] = "mark" /\ attempt' = attempt
                /\ Stale(lock) /\ seen'[p] = Content(lock)
             \/ at'[p] = "idle" /\ attempt'[p] = 0
        BY <1>1, <1>11 DEF Read, Remember, Finish, Go, TypeOK, Alone, Turns, Left
    <2>2. Alone(p)' /\ Turns(p)'
        BY <1>1, <2>1 DEF Alone, Turns, Locked, InRecovery, Reads, Stale, IsAlive
    <2>. QED
        BY <1>3, <2>1, <2>2 DEF Locked, InRecovery
<1>12. CASE Mark(p)
    <2>1. /\ UNCHANGED <<alive, lock, granted, attempt, seen>> /\ at[p] = "mark" /\ a <= 1
          /\ marker' = Empty(p) /\ at'[p] = "signMarker"
          /\ Stale(lock) /\ Reads(lock, seen[p])
        BY <1>1, <1>12 DEF Mark, On, Go, TypeOK, Alone, Turns
    <2>2. Alone(p)' /\ Turns(p)'
        BY <1>1, <2>1, Files DEF Alone, Turns, Locked, InRecovery, Reads, Stale, IsAlive, Empty
    <2>3. Remains'
        BY <1>1, <1>2, <2>1 DEF Remains, Locked, InRecovery, Empty
    <2>. QED
        BY <2>2, <2>3
<1>13. CASE SignMarker(p)
    <2>1. /\ UNCHANGED <<alive, lock, granted, attempt, seen>> /\ at[p] = "signMarker" /\ a <= 1
          /\ marker' = Signed(p) /\ at'[p] = "compare"
          /\ Stale(lock) /\ Reads(lock, seen[p])
        BY <1>1, <1>13 DEF SignMarker, Filled, On, Go, TypeOK, Alone, Turns, InRecovery
    <2>2. Alone(p)' /\ Turns(p)'
        BY <1>1, <2>1 DEF Alone, Turns, Locked, InRecovery, Reads, Stale, IsAlive
    <2>3. Remains'
        BY <1>1, <1>2, <2>1 DEF Remains, Locked, InRecovery, Signed
    <2>. QED
        BY <2>2, <2>3
<1>14. CASE Compare(p) \/ Confirm(p)
    <2>1. /\ UNCHANGED <<alive, lock, marker, granted, attempt, seen>>
          /\ at[p] \in {"compare", "confirm"} /\ a <= 1 /\ marker = Signed(p)
          /\ at'[p] = (IF at[p] = "compare" THEN "confirm" ELSE "remove")
          /\ Stale(lock) /\ Reads(lock, seen[p])
        BY <1>1, <1>14 DEF Compare, Confirm, On, Go, TypeOK, Alone, Turns, InRecovery
    <2>2. Alone(p)' /\ Turns(p)'
        BY <1>1, <2>1 DEF Alone, Turns, Locked, InRecovery, Reads, Stale, IsAlive
    <2>. QED
        BY <1>3, <2>1, <2>2 DEF Locked, InRecovery
<1>15. CASE Remove(p)
    <2>1. /\ UNCHANGED <<alive, marker, granted, attempt>> /\ at[p] = "remove" /\ a <= 1
          /\ marker = Signed(p) /\ lock' = NoFile /\ at'[p] = "readMarker"
        BY <1>1, <1>15 DEF Remove, On, Go, TypeOK, Alone, Turns, InRecovery
    <2>2. Alone(p)' /\ Turns(p)'
        BY <1>1, <2>1 DEF Alone, Turns, Locked, InRecovery
    <2>. QED
        BY <1>3, <2>1, <2>2 DEF Locked, InRecovery
<1>16. CASE ReadMarker(p)
    <2>1. Reads(marker, <<p>>) /\ marker = Signed(p) /\ at[p] = "readMarker" /\ a <= 1 /\ lock = NoFile
        BY <1>1, <1>16, Files DEF ReadMarker, Alone, Turns, InRecovery, Reads, Content, Signed
    <2>2. UNCHANGED <<alive, lock, marker, granted, attempt>> /\ at'[p] = "unmark"
        BY <1>1, <1>16, <2>1 DEF ReadMarker, On, Go, TypeOK
    <2>3. Alone(p)' /\ Turns(p)'
        BY <1>1, <2>1, <2>2 DEF Alone, Turns, Locked, InRecovery
    <2>. QED
        BY <1>3, <2>1, <2>2, <2>3 DEF Locked, InRecovery
<1>17. CASE Unmark(p)
    <2>1. at[p] = "unmark" /\ a <= 1 /\ lock = NoFile
        BY <1>1, <1>17 DEF Unmark, Alone, Turns, InRecovery
    <2>2. /\ UNCHANGED <<alive, lock, granted>> /\ marker' = NoFile
          /\ at'[p] = "recovery" /\ attempt'[p] = a + 1
        BY <1>1, <1>17, <2>1 DEF Unmark, Again, Go, TypeOK
    <2>3. Alone(p)' /\ Turns(p)'
        BY <1>1, <2>1, <2>2 DEF Alone, Turns, Left, Locked, InRecovery
    <2>. QED
        BY <1>3, <2>1, <2>2, <2>3 DEF Locked, InRecovery
<1>18. CASE ReleaseRead(p)
    <2>1. Reads(lock, <<p>>) /\ lock = Signed(p) /\ at[p] = "release"
        BY <1>1, <1>18, Files DEF ReleaseRead, Alone, Locked, Reads, Content, Signed
    <2>2. UNCHANGED <<alive, lock, marker, granted, attempt>> /\ at'[p] = "releaseRemove"
        BY <1>1, <1>18, <2>1 DEF ReleaseRead, On, Go, TypeOK
    <2>3. Alone(p)' /\ Turns(p)'
        BY <1>1, <2>1, <2>2 DEF Alone, Turns, Locked, InRecovery
    <2>4. Remains'
        BY <1>1, <1>2, <2>1, <2>2 DEF Remains, Locked, InRecovery
    <2>. QED
        BY <2>3, <2>4
<1>19. CASE ReleaseRemove(p)
    <2>1. /\ UNCHANGED <<alive, marker, granted>> /\ lock' = NoFile /\ at[p] = "releaseRemove"
          /\ at'[p] = "idle" /\ attempt'[p] = 0
        BY <1>1, <1>19 DEF ReleaseRemove, Finish, Go, TypeOK
    <2>2. Alone(p)' /\ Turns(p)'
        BY <1>1, <2>1 DEF Alone, Turns, Locked, InRecovery
    <2>3. Remains'
        BY <1>1, <1>2, <2>1 DEF Remains, Locked, InRecovery
    <2>. QED
        BY <2>2, <2>3
<1>20. ~Withdraw(p) /\ ~WithdrawRemove(p)
    BY <1>1 DEF Withdraw, WithdrawRemove, Alone
<1>. QED
    BY <1>4, <1>5, <1>6, <1>7, <1>8, <1>9, <1>10, <1>11, <1>12, <1>13, <1>14, <1>15, <1>16,
       <1>17, <1>18, <1>19, <1>20 DEF Continue

(* A file that grows old reads the same, and is no less stale.             *)
LEMMA SerialAge ==
    ASSUME Serial, Age
    PROVE  Remains' /\ \A p \in Proc : Alone(p)' /\ Turns(p)'
<1>1. /\ UNCHANGED <<alive, granted, at, attempt, seen>> /\ TypeOK
      /\ \/ /\ lock \in File /\ lock.state = "empty" /\ lock' = Aged(lock) /\ marker' = marker
         \/ /\ marker \in File /\ marker.state = "empty" /\ marker' = Aged(marker) /\ lock' = lock
    BY DEF Serial, TypeOK, Age, AgeLock, AgeMarker, MayAge
<1>2. \A f \in File : /\ Aged(f) \in File /\ Aged(f).by = f.by /\ Aged(f).state = "aged"
                      /\ f # NoFile /\ Aged(f) # NoFile
                      /\ (f.state = "empty" => Content(Aged(f)) = Content(f))
    BY DEF File, Aged, Content
<1>3. /\ Left(lock)' = Left(lock) /\ Left(marker)' = Left(marker)
      /\ (lock' = NoFile <=> lock = NoFile) /\ (marker' = NoFile <=> marker = NoFile)
    BY <1>1, <1>2 DEF Left
<1>4. /\ \A p \in Proc : lock = Signed(p) => lock' = lock
      /\ \A p \in Proc : marker = Signed(p) => marker' = marker
      /\ lock # NoFile => lock'.by = lock.by
      /\ marker # NoFile => marker'.by = marker.by
    BY <1>1, <1>2 DEF Signed
<1>5. /\ \A c : Reads(lock, c) => Reads(lock', c)
      /\ \A c : Reads(marker, c) => Reads(marker', c)
      /\ Stale(lock) => Stale(lock)'
    BY <1>1, <1>2 DEF Reads, Stale, IsAlive
<1>6. Remains'
    BY <1>1, <1>2 DEF Serial, Remains
<1>7. ASSUME NEW p \in Proc PROVE Alone(p)' /\ Turns(p)'
    <2>1. Alone(p) /\ Turns(p)
        BY <1>7 DEF Serial
    <2>2. Alone(p)'
        BY <1>1, <1>3, <1>4, <1>5, <2>1 DEF Alone
    <2>3. Turns(p)'
        BY <1>1, <1>3, <2>1 DEF Turns
    <2>. QED
        BY <2>2, <2>3
<1>. QED
    BY <1>6, <1>7

LEMMA SerialNext ==
    ASSUME Serial, serialized, MaxAttempts >= 3, [Next]_vars
    PROVE  Serial'
<1>1. TypeOK' /\ Life' /\ Single'
    BY TypeNext, LifeNext, SingleNext DEF Serial
<1>2. CASE UNCHANGED vars
    BY <1>1, <1>2 DEF Serial, Remains, Alone, Turns, vars, Stale, IsAlive, Reads
<1>3. CASE Age
    BY <1>1, <1>3, SerialAge DEF Serial
<1>4. ASSUME NEW p \in Proc, Acquire(p) PROVE Serial'
    <2>1. /\ UNCHANGED <<alive, lock, marker, granted, attempt>> /\ at[p] = "idle" /\ at'[p] = "recovery"
          /\ granted = {} /\ attempt[p] = 0 /\ p \in Proc
          /\ \A q \in Proc \ {p} : at[q] \in {"idle", "dead"} /\ at'[q] = at[q] /\ attempt'[q] = attempt[q]
        BY <1>4, Elsewhere DEF Acquire, On, Go, Busy, Serial, TypeOK, Turns
    <2>2. Alone(p)' /\ Turns(p)'
        BY <2>1 DEF Alone, Turns, Left, Locked, InRecovery
    <2>3. Remains'
        BY <2>1 DEF Serial, Remains, Locked, InRecovery, TypeOK, File
    <2>4. \A q \in Proc : Alone(q)' /\ Turns(q)'
        BY <2>1, <2>2, OthersAlone DEF Serial
    <2>. QED
        BY <1>1, <2>3, <2>4 DEF Serial
<1>5. ASSUME NEW p \in Proc, Release(p) PROVE Serial'
    <2>1. /\ UNCHANGED <<alive, lock, marker, attempt>> /\ at[p] = "idle" /\ at'[p] = "release"
          /\ granted' = granted \ {p} /\ p \in granted /\ lock = Signed(p)
          /\ \A q \in Proc \ {p} : /\ at[q] \in {"idle", "dead"} /\ q \notin granted'
                                   /\ at'[q] = at[q] /\ attempt'[q] = attempt[q]
        BY <1>5, Elsewhere DEF Release, On, Go, Single, Busy, Serial, TypeOK, Alone
    <2>2. Alone(p)' /\ Turns(p)'
        BY <2>1 DEF Alone, Turns, Locked, InRecovery
    <2>3. Remains'
        BY <2>1 DEF Serial, Remains, Locked, InRecovery, TypeOK, File, Signed
    <2>4. \A q \in Proc : Alone(q)' /\ Turns(q)'
        BY <2>1, <2>2, OthersAlone DEF Serial
    <2>. QED
        BY <1>1, <2>3, <2>4 DEF Serial
<1>6. ASSUME NEW p \in Proc, Crash(p) PROVE Serial'
    <2>1. /\ UNCHANGED <<lock, marker>> /\ alive' = alive \ {p} /\ granted' = granted \ {p}
          /\ at'[p] = "dead"
          /\ \A q \in Proc \ {p} : at'[q] = at[q] /\ attempt'[q] = attempt[q] /\ seen'[q] = seen[q]
        BY <1>6, Elsewhere DEF Crash, Go, Serial, TypeOK
    <2>2. Remains'
        BY <2>1 DEF Serial, Remains, TypeOK, File
    <2>3. ASSUME NEW q \in Proc PROVE Alone(q)' /\ Turns(q)'
        <3>1. CASE q = p
            BY <2>1, <3>1 DEF Alone, Turns, Locked, InRecovery
        <3>2. CASE q # p
            <4>1. Alone(q) /\ Turns(q) /\ at'[q] = at[q] /\ seen'[q] = seen[q] /\ attempt'[q] = attempt[q]
                BY <2>1, <3>2 DEF Serial
            <4>2. Stale(lock) => Stale(lock)'
                BY <2>1 DEF Stale, IsAlive
            <4>3. Alone(q)'
                BY <2>1, <4>1, <4>2 DEF Alone, Reads
            <4>. QED
                BY <2>1, <4>1, <4>3 DEF Turns
        <3>. QED
            BY <3>1, <3>2
    <2>. QED
        BY <1>1, <2>2, <2>3 DEF Serial
<1>7. ASSUME NEW p \in Proc, Continue(p) PROVE Serial'
    <2>1. Remains' /\ Alone(p)' /\ Turns(p)'
        BY <1>7, SerialContinue
    <2>2. granted' \subseteq granted \union {p}
        BY <1>7 DEF Busy, Continue, Recovery, RecoveryRead, RecoveryCompare,
            RecoveryRemove, Open, Write, Check, Withdraw, WithdrawRemove, Read, Mark, SignMarker,
            Compare, Confirm, Remove, ReadMarker, Unmark, ReleaseRead, ReleaseRemove
    <2>3. p \in Busy
        BY <1>7 DEF Busy, Continue, Recovery, RecoveryRead, RecoveryCompare,
            RecoveryRemove, Open, Write, Check, Withdraw, WithdrawRemove, Read, Mark, SignMarker,
            Compare, Confirm, Remove, ReadMarker, Unmark, ReleaseRead, ReleaseRemove
    <2>4. \A q \in Proc \ {p} : attempt'[q] = attempt[q]
        BY <1>7 DEF Serial, TypeOK, Continue, Recovery, RecoveryRead, RecoveryCompare,
            RecoveryRemove, Open, Write, Check, Withdraw, WithdrawRemove, Read, Mark, SignMarker,
            Compare, Confirm, Remove, ReadMarker, Unmark, ReleaseRead, ReleaseRemove,
            Finish, Again, On, Remember
    <2>5. \A q \in Proc \ {p} : at[q] \in {"idle", "dead"} /\ q \notin granted' /\ at'[q] = at[q]
        BY <1>7, <2>2, <2>3, Elsewhere DEF Serial, Single, Busy
    <2>6. \A q \in Proc : Alone(q)' /\ Turns(q)'
        BY <2>1, <2>4, <2>5, OthersAlone DEF Serial
    <2>. QED
        BY <1>1, <2>1, <2>6 DEF Serial
<1>. QED
    BY <1>2, <1>3, <1>4, <1>5, <1>6, <1>7 DEF Next

(* A call that returns without a handle has met a file that its maker left *)
(* unfinished: a marker it finds is removed in its first turn, a stale     *)
(* lock in its next, so the third one makes the lock.                      *)
THEOREM OnlyUnfinishedRefuses == ASSUME MaxAttempts >= 3 PROVE Spec => NotRefused
<1>1. ASSUME Serial, serialized, Next, NEW p \in alive,
             at[p] \notin {"idle", "release", "releaseRemove"}, at'[p] = "idle", p \notin granted'
      PROVE  \E f \in {lock, marker} \ {NoFile} : f.state = "empty"
    <2>1. p \in Proc /\ Continue(p) /\ Alone(p) /\ Turns(p) /\ Remains /\ TypeOK
          /\ p \notin granted
          /\ (\A q \in Proc \ {p} : at[q] \in {"idle", "dead"} /\ q \notin granted)
        <3>1. p \in Proc /\ TypeOK /\ p \in Busy
            BY <1>1 DEF Serial, Life, TypeOK, Busy
        <3>2. Continue(p)
            <4>1. PICK q \in Proc : Acquire(q) \/ Release(q) \/ Continue(q) \/ Crash(q)
                BY <1>1, <3>1 DEF Next, Age
            <4>2. q = p
                BY <1>1, <3>1, <4>1, Elsewhere
            <4>. QED
                BY <1>1, <3>1, <4>1, <4>2 DEF Acquire, Release, Crash, On, Go, TypeOK
        <3>. QED
            BY <1>1, <3>1, <3>2 DEF Serial, Life, Single, Busy
    <2>2. CASE RecoveryRead(p)
        <3>1. marker # NoFile /\ ~Stale(marker)
            BY <1>1, <2>1, <2>2 DEF RecoveryRead, Remember, Go, Alone, TypeOK
        <3>2. marker.by \notin alive
            BY <2>1, <2>2, <3>1 DEF RecoveryRead, Remains, InRecovery, TypeOK, File
        <3>. QED
            BY <3>1, <3>2 DEF Stale, IsAlive
    <2>3. CASE Read(p)
        <3>1. lock # NoFile /\ ~Stale(lock)
            BY <1>1, <2>1, <2>3 DEF Read, Remember, Go, Alone, TypeOK
        <3>2. ~(lock.state = "signed" /\ lock.by \in alive)
            BY <2>1, <2>3, <3>1 DEF Read, Remains, Locked, TypeOK, File
        <3>. QED
            BY <3>1, <3>2 DEF Stale, IsAlive
    <2>4. Turns(p)' /\ attempt[p] \in Nat
        BY <1>1, <2>1, SerialContinue DEF TypeOK
    <2>5. ~RecoveryRemove(p)
        BY <1>1, <2>1, <2>4 DEF RecoveryRemove, Again, Go, Turns, Alone, Left, TypeOK
    <2>6. ~Unmark(p)
        BY <1>1, <2>1, <2>4 DEF Unmark, Again, Go, Turns, InRecovery, TypeOK
    <2>7. ~RecoveryCompare(p) /\ ~Mark(p) /\ ~ReadMarker(p)
        BY <1>1, <2>1, Files DEF RecoveryCompare, Mark, ReadMarker, On, Go, Alone, InRecovery, Reads,
            Content, Signed, TypeOK
    <2>8. ~(Recovery(p) \/ Open(p) \/ Write(p) \/ SignMarker(p) \/ Compare(p) \/ Confirm(p) \/ Remove(p))
        BY <1>1, <2>1 DEF Recovery, Open, Write, SignMarker, Compare, Confirm, Remove, On, Go, TypeOK
    <2>9. ~Check(p) /\ ~Withdraw(p) /\ ~WithdrawRemove(p) /\ ~ReleaseRead(p) /\ ~ReleaseRemove(p)
        BY <1>1, <2>1 DEF Check, Withdraw, WithdrawRemove, ReleaseRead, ReleaseRemove, Alone
    <2>. QED
        BY <2>1, <2>2, <2>3, <2>5, <2>6, <2>7, <2>8, <2>9 DEF Continue
<1>2. DEFINE Kept == serialized => Serial
<1>3. Init => Kept
    BY SerialInit
<1>4. Kept /\ [Next]_vars => Kept'
    <2>1. [Next]_vars => serialized' = serialized
        BY DEF Next, vars
    <2>. QED
        BY <2>1, SerialNext
<1>5. Kept /\ [Next]_vars =>
        [serialized => \A p \in alive :
            at[p] \notin {"idle", "release", "releaseRemove"} /\ at'[p] = "idle" /\ p \notin granted'
               => \E f \in {lock, marker} \ {NoFile} : f.state = "empty"]_vars
    BY <1>1
<1>. QED
    BY <1>3, <1>4, <1>5, PTL DEF Spec, NotRefused
=============================================================================
