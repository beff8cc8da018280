------------------------------ MODULE LoopLease ------------------------------
(***************************************************************************)
(* The run lease of one Loop, packages/core/src/agent/loop-lease.ts: a     *)
(* lock file made with O_EXCL and then filled with its owner's token, and  *)
(* a recovery marker, a second such file, that serialises the removal of a *)
(* dead owner's lock.  It differs from SessionLease in what it compares    *)
(* (the content of a file, and all unfinished files are alike), in looking *)
(* at the marker again once the lock is made, and in its callers, which    *)
(* hold the Loop's lifecycle lease (a session lease) around it.            *)
(*                                                                         *)
(* One action is one system call with the synchronous code up to the next; *)
(* a process that restarts is a new process.                               *)
(***************************************************************************)
EXTENDS Naturals, FiniteSets

CONSTANTS
    Proc,            \* processes over the life of the Loop
    Loop,            \* the Loop's id
    NoFile,          \* the file does not exist
    MaxAttempts,     \* turns of the acquisition loop (6 in the code)
    MayCrash,        \* the processes that may die
    CrashInRecovery, \* without the lifecycle lease, may a process die while
                     \* its marker exists?
    StallPastGrace   \* may a live process stall 30 s between open and write?

ASSUME AttemptAssumption == MaxAttempts \in Nat \ {0}
ASSUME FlagAssumption ==
    CrashInRecovery \in BOOLEAN /\ StallPastGrace \in BOOLEAN

(* A file: who made it, and whether the owner is written in it (signed) or *)
(* it is still empty, and then whether it is older than                    *)
(* MALFORMED_LOCK_GRACE_MS (aged).                                         *)
File == [by : Proc, state : {"empty", "aged", "signed"}]

ASSUME NoFileAssumption == NoFile \notin File

VARIABLES
    alive,    \* the processes that run
    lock,     \* .<loop>.lock
    marker,   \* .<loop>.lock.recovery
    granted,  \* the processes whose caller has a handle
    at,       \* the system call each process is about to make
    attempt,  \* the turn of the acquisition loop
    seen,     \* the content read before: a token, or unfinished
    serialized  \* do callers hold the Loop's lifecycle lease?

vars == <<alive, lock, marker, granted, at, attempt, seen, serialized>>

-----------------------------------------------------------------------------
(* Positions at which the recovery marker of the operation exists.         *)
InRecovery == {"signMarker", "compare", "confirm", "remove", "readMarker", "unmark"}

Positions == InRecovery \union
    {"idle", "dead", "recovery", "recoveryRead", "recoveryCompare", "recoveryRemove",
     "open", "write", "check", "withdraw", "withdrawRemove", "read", "mark",
     "release", "releaseRemove"}

(* What readLockSnapshot calls content: a token names its process, and     *)
(* every file that was not finished reads the same.                        *)
Unfinished == <<"unfinished">>
Content(f) == IF f.state = "signed" THEN <<f.by>> ELSE Unfinished
Contents == {<<p>> : p \in Proc} \union {Unfinished}

Empty(p) == [by |-> p, state |-> "empty"]
Signed(p) == [by |-> p, state |-> "signed"]

IsAlive(f) == IF f.state = "signed" THEN f.by \in alive ELSE f.state = "empty"
Stale(f) == f # NoFile /\ ~IsAlive(f)
Reads(f, content) == f # NoFile /\ Content(f) = content

Go(p, position) == at' = [at EXCEPT ![p] = position]

(* The operation returns, or throws with activeLeases.delete.              *)
Finish(p) ==
    /\ Go(p, "idle")
    /\ attempt' = [attempt EXCEPT ![p] = 0]
    /\ seen' = [seen EXCEPT ![p] = Unfinished]

(* Mutant: the last turn is left out.                                      *)
AgainButLast(p) ==
    IF attempt[p] + 2 < MaxAttempts
    THEN Go(p, "recovery") /\ attempt' = [attempt EXCEPT ![p] = @ + 1] /\ UNCHANGED seen
    ELSE Finish(p)

(* continue: the next turn, or "Could not acquire loop lease".             *)
Again(p) ==
    IF attempt[p] + 1 < MaxAttempts
    THEN Go(p, "recovery") /\ attempt' = [attempt EXCEPT ![p] = @ + 1] /\ UNCHANGED seen
    ELSE Finish(p)

On(p, position) == Go(p, position) /\ UNCHANGED <<attempt, seen>>
Remember(p, f, position) ==
    Go(p, position) /\ seen' = [seen EXCEPT ![p] = Content(f)] /\ UNCHANGED attempt

Busy == {p \in Proc : at[p] \notin {"idle", "dead"}}

-----------------------------------------------------------------------------
Init ==
    /\ alive = Proc
    /\ lock = NoFile
    /\ marker = NoFile
    /\ granted = {}
    /\ at = [p \in Proc |-> "idle"]
    /\ attempt = [p \in Proc |-> 0]
    /\ seen = [p \in Proc |-> Unfinished]
    /\ serialized \in BOOLEAN

(* acquireLoopLease, up to existsSync(recoveryTarget).  activeLeases lets  *)
(* a process have it once; the lifecycle lease, one process at a time.     *)
Acquire(p) ==
    /\ at[p] = "idle" /\ p \notin granted
    /\ serialized => granted \union Busy = {}
    /\ On(p, "recovery")
    /\ UNCHANGED <<alive, lock, marker, granted>>

Recovery(p) ==
    /\ at[p] = "recovery"
    /\ On(p, IF marker # NoFile THEN "recoveryRead" ELSE "open")
    /\ UNCHANGED <<alive, lock, marker, granted>>

(* readLockSnapshot(recoveryTarget); it throws if the marker has gone, and *)
(* the operation if its owner lives.                                       *)
RecoveryRead(p) ==
    /\ at[p] = "recoveryRead"
    /\ IF Stale(marker) THEN Remember(p, marker, "recoveryCompare") ELSE Finish(p)
    /\ UNCHANGED <<alive, lock, marker, granted>>

(* removeStaleLock(recoveryTarget): the content is compared, then whatever *)
(* is there is removed.                                                    *)
RecoveryCompare(p) ==
    /\ at[p] = "recoveryCompare"
    /\ IF Reads(marker, seen[p]) THEN On(p, "recoveryRemove") ELSE Again(p)
    /\ UNCHANGED <<alive, lock, marker, granted>>

RecoveryRemove(p) ==
    /\ at[p] = "recoveryRemove"
    /\ marker' = NoFile
    /\ Again(p)
    /\ UNCHANGED <<alive, lock, granted>>

(* openSync(target, "wx").                                                 *)
Open(p) ==
    /\ at[p] = "open"
    /\ IF lock = NoFile THEN lock' = Empty(p) /\ On(p, "write")
       ELSE UNCHANGED lock /\ On(p, "read")
    /\ UNCHANGED <<alive, marker, granted>>

(* writeFileSync(fd): a file that was removed meanwhile is written all the *)
(* same, where nobody sees it.                                             *)
Filled(f, p) == IF f # NoFile /\ f.by = p THEN Signed(p) ELSE f

Write(p) ==
    /\ at[p] = "write"
    /\ lock' = Filled(lock, p)
    /\ On(p, "check")
    /\ UNCHANGED <<alive, marker, granted>>

(* existsSync(recoveryTarget): a candidate made during a recovery is       *)
(* withdrawn.                                                              *)
Check(p) ==
    /\ at[p] = "check"
    /\ IF marker # NoFile THEN On(p, "withdraw") /\ UNCHANGED granted
       ELSE granted' = granted \union {p} /\ Finish(p)
    /\ UNCHANGED <<alive, lock, marker>>

Withdraw(p) ==
    /\ at[p] = "withdraw"
    /\ IF Reads(lock, <<p>>) THEN On(p, "withdrawRemove") ELSE Again(p)
    /\ UNCHANGED <<alive, lock, marker, granted>>

WithdrawRemove(p) ==
    /\ at[p] = "withdrawRemove"
    /\ lock' = NoFile
    /\ Again(p)
    /\ UNCHANGED <<alive, marker, granted>>

-----------------------------------------------------------------------------
(* Mutant: a stale lock is removed without a recovery marker.              *)
ReadUnmarked(p) ==
    /\ at[p] = "read"
    /\ IF Stale(lock) THEN Remember(p, lock, "remove") ELSE Finish(p)
    /\ UNCHANGED <<alive, lock, marker, granted>>

(* EEXIST, readLockSnapshot(target): "Loop is already running" if its      *)
(* owner lives, an exception if it has gone.                               *)
Read(p) ==
    /\ at[p] = "read"
    /\ IF Stale(lock) THEN Remember(p, lock, "mark") ELSE Finish(p)
    /\ UNCHANGED <<alive, lock, marker, granted>>

(* openSync(recoveryTarget, "wx").                                         *)
Mark(p) ==
    /\ at[p] = "mark"
    /\ IF marker = NoFile THEN marker' = Empty(p) /\ On(p, "signMarker")
       ELSE UNCHANGED marker /\ Again(p)
    /\ UNCHANGED <<alive, lock, granted>>

SignMarker(p) ==
    /\ at[p] = "signMarker"
    /\ marker' = Filled(marker, p)
    /\ On(p, "compare")
    /\ UNCHANGED <<alive, lock, granted>>

(* Mutant: under the marker only the content is compared.                  *)
CompareContent(p) ==
    /\ at[p] = "compare"
    /\ On(p, IF Reads(lock, seen[p]) THEN "confirm" ELSE "readMarker")
    /\ UNCHANGED <<alive, lock, marker, granted>>

(* readLockSnapshot(target) under the marker: dead, and what it was.       *)
Compare(p) ==
    /\ at[p] = "compare"
    /\ On(p, IF Stale(lock) /\ Reads(lock, seen[p]) THEN "confirm" ELSE "readMarker")
    /\ UNCHANGED <<alive, lock, marker, granted>>

(* removeStaleLock(target).                                                *)
Confirm(p) ==
    /\ at[p] = "confirm"
    /\ On(p, IF Reads(lock, seen[p]) THEN "remove" ELSE "readMarker")
    /\ UNCHANGED <<alive, lock, marker, granted>>

Remove(p) ==
    /\ at[p] = "remove"
    /\ lock' = NoFile
    /\ On(p, "readMarker")
    /\ UNCHANGED <<alive, marker, granted>>

(* The finally clause, then the next turn.                                 *)
ReadMarker(p) ==
    /\ at[p] = "readMarker"
    /\ IF Reads(marker, <<p>>) THEN On(p, "unmark") ELSE Again(p)
    /\ UNCHANGED <<alive, lock, marker, granted>>

Unmark(p) ==
    /\ at[p] = "unmark"
    /\ marker' = NoFile
    /\ Again(p)
    /\ UNCHANGED <<alive, lock, granted>>

-----------------------------------------------------------------------------
(* release(): activeLeases.delete, then the file goes if its token is ours.*)
Release(p) ==
    /\ at[p] = "idle" /\ p \in granted
    /\ granted' = granted \ {p}
    /\ On(p, "release")
    /\ UNCHANGED <<alive, lock, marker>>

ReleaseRead(p) ==
    /\ at[p] = "release"
    /\ IF Reads(lock, <<p>>) THEN On(p, "releaseRemove") ELSE Finish(p)
    /\ UNCHANGED <<alive, lock, marker, granted>>

ReleaseRemove(p) ==
    /\ at[p] = "releaseRemove"
    /\ lock' = NoFile
    /\ Finish(p)
    /\ UNCHANGED <<alive, marker, granted>>

(* The process dies between two system calls.                              *)
Crash(p) ==
    /\ p \in alive \intersect MayCrash
    /\ at[p] \in InRecovery => serialized \/ CrashInRecovery
    /\ alive' = alive \ {p}
    /\ granted' = granted \ {p}
    /\ Go(p, "dead")
    /\ attempt' = [attempt EXCEPT ![p] = 0]
    /\ seen' = [seen EXCEPT ![p] = Unfinished]
    /\ UNCHANGED <<lock, marker>>

(* Thirty seconds pass over an unfinished file.                            *)
MayAge(f) == f # NoFile /\ f.state = "empty" /\ (f.by \in alive => StallPastGrace)
Aged(f) == [by |-> f.by, state |-> "aged"]

AgeLock == MayAge(lock) /\ lock' = Aged(lock) /\ UNCHANGED marker
AgeMarker == MayAge(marker) /\ marker' = Aged(marker) /\ UNCHANGED lock

Age ==
    /\ AgeLock \/ AgeMarker
    /\ UNCHANGED <<alive, granted, at, attempt, seen>>

Continue(p) ==
    \/ Recovery(p) \/ RecoveryRead(p) \/ RecoveryCompare(p) \/ RecoveryRemove(p)
    \/ Open(p) \/ Write(p) \/ Check(p) \/ Withdraw(p) \/ WithdrawRemove(p)
    \/ Read(p) \/ Mark(p) \/ SignMarker(p) \/ Compare(p) \/ Confirm(p) \/ Remove(p)
    \/ ReadMarker(p) \/ Unmark(p) \/ ReleaseRead(p) \/ ReleaseRemove(p)

Next ==
    /\ \/ \E p \in Proc : Acquire(p) \/ Release(p) \/ Continue(p) \/ Crash(p)
       \/ Age
    /\ UNCHANGED serialized

Spec == Init /\ [][Next]_vars

-----------------------------------------------------------------------------
(* Every variable has its type. *)
TypeOK ==
    /\ alive \subseteq Proc
    /\ lock \in File \union {NoFile}
    /\ marker \in File \union {NoFile}
    /\ granted \subseteq Proc
    /\ at \in [Proc -> Positions]
    /\ attempt \in [Proc -> 0 .. MaxAttempts - 1]
    /\ seen \in [Proc -> Contents]
    /\ serialized \in BOOLEAN

(* isLoopLeaseActive and hasActiveLoopLease, on which the coordinator and  *)
(* the removal of worktrees rely, read the lock file only: while a process *)
(* has the lease, its signed file is there.                                *)
Visible == \A p \in granted : lock = Signed(p)

(* The lease of the file system is the abstract lease: a handle is given   *)
(* out only while no other process that lives has one; without the         *)
(* lifecycle lease as long as nobody dies inside a recovery, under it      *)
(* whatever a crash leaves.                                                *)
AbstractLease == INSTANCE ExclusiveLease WITH
    Sessions <- {Loop}, Guard <- NoFile, running <- alive,
    owns <- [p \in Proc |-> IF p \in granted THEN {Loop} ELSE {}]

ImplementsLease == AbstractLease!Spec

(* Under the lifecycle lease a run is refused only for a file that a       *)
(* process left unfinished less than 30 s ago: whatever else a crash       *)
(* leaves, stale marker and stale lock together, the turns of the loop are *)
(* enough to clear it away.                                                *)
NotRefused ==
    [][serialized => \A p \in alive :
          at[p] \notin {"idle", "release", "releaseRemove"} /\ at'[p] = "idle" /\ p \notin granted'
             => \E f \in {lock, marker} \ {NoFile} : f.state = "empty"]_vars
=============================================================================
