---------------------------- MODULE SessionLease ----------------------------
(***************************************************************************)
(* The cross-process session lease and the workspace guard of              *)
(* packages/core/src/agent/session-lease.ts.                               *)
(*                                                                         *)
(* A lease is a directory made with mkdir and then signed by writing       *)
(* owner.json in it; a second directory, the recovery marker, serialises   *)
(* the removal of a lease whose owner died.  Every system call is a step   *)
(* of its own, so that any number of processes interleave between them.    *)
(* Inside one process the code is synchronous: a process runs one          *)
(* operation at a time, and a process that restarts is a new process (it   *)
(* has a new pid and start identity), so a dead one stays dead.            *)
(***************************************************************************)
EXTENDS Naturals, FiniteSets

CONSTANTS
    Proc,            \* processes over the life of the workspace
    Sessions,        \* persisted session ids
    Guard,           \* WORKSPACE_GUARD_ID, outside the session id grammar
    NoDir,           \* the directory does not exist
    MaxAttempts,     \* turns of the acquisition loop (5 in the code)
    MayCrash,        \* the processes that may die
    CrashInRecovery, \* may a process die while its recovery marker exists?
    StallPastGrace   \* may a live process stall 30 s between mkdir and sign?

ASSUME GuardAssumption == Guard \notin Sessions
ASSUME AttemptAssumption == MaxAttempts \in Nat \ {0}
ASSUME FlagAssumption == CrashInRecovery \in BOOLEAN /\ StallPastGrace \in BOOLEAN
ASSUME NoDirAssumption ==
    NoDir \notin [by : Proc, state : {"fresh", "aged", "signed"},
                  yields : {"no", "may", "asked"}]

Names == Sessions \union {Guard}

(* A directory: who made it; whether owner.json is in it (signed) or not,  *)
(* and then whether it has outlived MALFORMED_LEASE_GRACE_MS (aged); and   *)
(* whether the owner may be preempted, or preempt.request is in it.        *)
Dir == [by : Proc, state : {"fresh", "aged", "signed"}, yields : {"no", "may", "asked"}]

VARIABLES
    alive,    \* the processes that run
    target,   \* [Names -> Dir or NoDir]: <name>.lock
    marker,   \* [Names -> Dir or NoDir]: <name>.lock.recovery
    held,     \* [Proc -> SUBSET Names]: localLeases of each process
    granted,  \* [Proc -> SUBSET Names]: the leases callers were given
    at,       \* the system call each process is about to make
    args,     \* the arguments of the operation each process runs
    phase,    \* the part of the operation it is in
    file,     \* the lease it looks at
    attempt,  \* the turn of the acquisition loop
    seen,     \* the snapshot in hand
    todo      \* the names the guard's scan has yet to look at

locals == <<args, phase, file, attempt, seen, todo>>
vars == <<alive, target, marker, held, granted, at, locals>>

-----------------------------------------------------------------------------
(* Positions inside removeStaleLease at which the recovery marker of the   *)
(* operation exists.                                                       *)
InRecovery == {"signMarker", "compare", "confirm", "remove", "readMarker", "unmark"}

Positions == InRecovery \union
    {"idle", "dead", "recovery", "recoveryRead", "recoveryCompare", "recoveryRemove",
     "recoveryGone", "mkdir", "sign", "read", "mark", "list", "scan",
     "active", "inactive", "giveUp", "askGuard"}

(* take: the acquisition loop.  The others call isSessionRunActive: pre    *)
(* and post look at the guard before and after a session lease is made,    *)
(* scan looks at the sessions after the guard is made, look is a call from *)
(* outside this file.                                                      *)
Phases == {"pre", "take", "post", "scan", "look"}

Args == [goal : Names,            \* the lease to acquire
         capability : BOOLEAN,    \* the caller passes its own guard
         except : SUBSET Names,   \* names the guard's scan leaves out
         preemptible : BOOLEAN]

NoArgs == [goal |-> Guard, capability |-> FALSE, except |-> {}, preemptible |-> FALSE]

Nothing == <<"nothing">>
Signatures == (Proc \X {"fresh", "aged", "signed"}) \union {Nothing}

Fresh(p) == [by |-> p, state |-> "fresh", yields |-> "no"]
Signed(p, yields) == [by |-> p, state |-> "signed", yields |-> yields]

(* Mutant: a directory without an owner.json is taken for abandoned.       *)
IsAliveNoGrace(d) == d.state = "signed" /\ d.by \in alive

(* snapshot().alive: a signed directory lives as long as its process, an   *)
(* unsigned one for the grace period.                                      *)
IsAlive(d) == IF d.state = "signed" THEN d.by \in alive ELSE d.state = "fresh"

SignatureOf(d) == <<d.by, d.state>>

(* sameSnapshot(): preempt.request is not part of the signature.           *)
Same(d, signature) == d # NoDir /\ SignatureOf(d) = signature

Unsigned(d) == d # NoDir /\ d.state # "signed"
SignedBy(d, p) == d # NoDir /\ d.state = "signed" /\ d.by = p

Go(p, position) == at' = [at EXCEPT ![p] = position]

(* An exception leaves the operation.  It undoes nothing: what the process *)
(* had made before stays.                                                  *)
Forget(p) ==
    /\ args' = [args EXCEPT ![p] = NoArgs]
    /\ phase' = [phase EXCEPT ![p] = "pre"]
    /\ file' = [file EXCEPT ![p] = Guard]
    /\ attempt' = [attempt EXCEPT ![p] = 0]
    /\ seen' = [seen EXCEPT ![p] = Nothing]
    /\ todo' = [todo EXCEPT ![p] = {}]

Throw(p) == Go(p, "idle") /\ Forget(p)

(* An ENOENT: isSessionRunActive takes it for "not active", the acquisition *)
(* loop throws it.                                                         *)
Missing(p) ==
    IF phase[p] = "take" THEN Throw(p) ELSE Go(p, "inactive") /\ UNCHANGED locals

-----------------------------------------------------------------------------
Init ==
    /\ alive = Proc
    /\ target = [n \in Names |-> NoDir]
    /\ marker = [n \in Names |-> NoDir]
    /\ held = [p \in Proc |-> {}]
    /\ granted = [p \in Proc |-> {}]
    /\ at = [p \in Proc |-> "idle"]
    /\ args = [p \in Proc |-> NoArgs]
    /\ phase = [p \in Proc |-> "pre"]
    /\ file = [p \in Proc |-> Guard]
    /\ attempt = [p \in Proc |-> 0]
    /\ seen = [p \in Proc |-> Nothing]
    /\ todo = [p \in Proc |-> {}]

(* Mutant: the capability is not asserted to be a lease the caller owns.   *)
AcquireSessionForged(p, n, capability) ==
    /\ at[p] = "idle"
    /\ n \in Sessions \ held[p]
    /\ Go(p, "recovery")
    /\ args' = [args EXCEPT ![p] = [goal |-> n, capability |-> capability,
                                    except |-> {}, preemptible |-> FALSE]]
    /\ phase' = [phase EXCEPT ![p] = IF capability THEN "take" ELSE "pre"]
    /\ file' = [file EXCEPT ![p] = IF capability THEN n ELSE Guard]
    /\ UNCHANGED <<alive, target, marker, held, granted, attempt, seen, todo>>

(* acquireSessionLease: with the guard as a capability the looks at the    *)
(* guard are skipped.                                                      *)
AcquireSession(p, n, capability) ==
    /\ at[p] = "idle"
    /\ n \in Sessions \ held[p]
    /\ capability => Guard \in granted[p]
    /\ Go(p, "recovery")
    /\ args' = [args EXCEPT ![p] = [goal |-> n, capability |-> capability,
                                    except |-> {}, preemptible |-> FALSE]]
    /\ phase' = [phase EXCEPT ![p] = IF capability THEN "take" ELSE "pre"]
    /\ file' = [file EXCEPT ![p] = IF capability THEN n ELSE Guard]
    /\ UNCHANGED <<alive, target, marker, held, granted, attempt, seen, todo>>

(* acquireWorkspaceSessionGuard (except = {}) and                          *)
(* acquireWorkspaceSessionGuardForLease (except = one lease the caller     *)
(* proves it owns).                                                        *)
AcquireGuard(p, except, preemptible) ==
    /\ at[p] = "idle"
    /\ Guard \notin held[p]
    /\ except \subseteq granted[p] /\ Cardinality(except) <= 1
    /\ preemptible => except # {}
    /\ Go(p, "recovery")
    /\ args' = [args EXCEPT ![p] = [goal |-> Guard, capability |-> FALSE,
                                    except |-> except, preemptible |-> preemptible]]
    /\ phase' = [phase EXCEPT ![p] = "take"]
    /\ file' = [file EXCEPT ![p] = Guard]
    /\ UNCHANGED <<alive, target, marker, held, granted, attempt, seen, todo>>

(* isSessionRunActive by itself; hasActiveSessionRuns is a series of them. *)
Look(p, n) ==
    /\ at[p] = "idle"
    /\ Go(p, "recovery")
    /\ phase' = [phase EXCEPT ![p] = "look"]
    /\ file' = [file EXCEPT ![p] = n]
    /\ UNCHANGED <<alive, target, marker, held, granted, args, attempt, seen, todo>>

(* localLeases.has(...), then removeStaleRecovery: existsSync(recovery).   *)
Recovery(p) ==
    /\ at[p] = "recovery"
    /\ Go(p, IF phase[p] # "take" /\ file[p] \in held[p] THEN "active"
             ELSE IF marker[file[p]] # NoDir THEN "recoveryRead"
             ELSE IF phase[p] = "take" THEN "mkdir" ELSE "read")
    /\ UNCHANGED <<alive, target, marker, held, granted, locals>>

(* snapshot(recovery); it throws when the marker has gone meanwhile.       *)
RecoveryRead(p) ==
    LET m == marker[file[p]] IN
    /\ at[p] = "recoveryRead"
    /\ \/ m = NoDir /\ Throw(p)
       \/ m # NoDir /\ IsAlive(m) /\ Go(p, "active") /\ UNCHANGED locals
       \/ /\ m # NoDir /\ ~IsAlive(m)
          /\ Go(p, "recoveryCompare")
          /\ seen' = [seen EXCEPT ![p] = SignatureOf(m)]
          /\ UNCHANGED <<args, phase, file, attempt, todo>>
    /\ UNCHANGED <<alive, target, marker, held, granted>>

RecoveryCompare(p) ==
    /\ at[p] = "recoveryCompare"
    /\ Go(p, IF Same(marker[file[p]], seen[p]) THEN "recoveryRemove" ELSE "recoveryGone")
    /\ UNCHANGED <<alive, target, marker, held, granted, locals>>

(* rmSync(recovery) removes whatever is there by now.                      *)
RecoveryRemove(p) ==
    /\ at[p] = "recoveryRemove"
    /\ marker' = [marker EXCEPT ![file[p]] = NoDir]
    /\ Go(p, "recoveryGone")
    /\ UNCHANGED <<alive, target, held, granted, locals>>

RecoveryGone(p) ==
    /\ at[p] = "recoveryGone"
    /\ Go(p, IF marker[file[p]] # NoDir THEN "active"
             ELSE IF phase[p] = "take" THEN "mkdir" ELSE "read")
    /\ UNCHANGED <<alive, target, marker, held, granted, locals>>

(* mkdirSync(target); EEXIST leads to a look at what is there.             *)
Mkdir(p) ==
    LET n == file[p] IN
    /\ at[p] = "mkdir"
    /\ IF target[n] = NoDir
       THEN target' = [target EXCEPT ![n] = Fresh(p)] /\ Go(p, "sign")
       ELSE Go(p, "read") /\ UNCHANGED target
    /\ UNCHANGED <<alive, marker, held, granted, locals>>

(* writeOwner(target) and localLeases.set; then the guard looks at the     *)
(* sessions, and a session at the guard unless its caller has it.          *)
Sign(p) ==
    LET n == args[p].goal IN
    /\ at[p] = "sign"
    /\ Unsigned(target[n])
    /\ target' = [target EXCEPT ![n] =
                    Signed(p, IF args[p].preemptible THEN "may" ELSE "no")]
    /\ held' = [held EXCEPT ![p] = @ \union {n}]
    /\ IF args[p].capability
       THEN granted' = [granted EXCEPT ![p] = @ \union {n}] /\ Throw(p)
       ELSE /\ phase' = [phase EXCEPT ![p] = IF n = Guard THEN "scan" ELSE "post"]
            /\ file' = [file EXCEPT ![p] = Guard]
            /\ Go(p, IF n = Guard THEN "list" ELSE "recovery")
            /\ UNCHANGED <<granted, args, attempt, seen, todo>>
    /\ UNCHANGED <<alive, marker>>

(* owner.json is made with wx.  If somebody signed the directory first     *)
(* (EEXIST) or removed it (ENOENT), the error path removes whatever is     *)
(* there; the loop looks again after an EEXIST and throws the other.       *)
SignFails(p) ==
    LET n == args[p].goal IN
    /\ at[p] = "sign"
    /\ ~Unsigned(target[n])
    /\ target' = [target EXCEPT ![n] = NoDir]
    /\ IF target[n] = NoDir THEN Throw(p) ELSE Go(p, "read") /\ UNCHANGED locals
    /\ UNCHANGED <<alive, marker, held, granted>>

(* Mutant: a stale lease is removed without the recovery marker.           *)
ReadUnmarked(p) ==
    LET d == target[file[p]] IN
    /\ at[p] = "read"
    /\ Go(p, IF d # NoDir /\ ~IsAlive(d) THEN "remove"
             ELSE IF d # NoDir THEN "active" ELSE "inactive")
    /\ UNCHANGED <<alive, target, marker, held, granted, locals>>

(* snapshot(target) after EEXIST, or in isSessionRunActive.                *)
Read(p) ==
    LET d == target[file[p]] IN
    /\ at[p] = "read"
    /\ \/ d = NoDir /\ Missing(p)
       \/ d # NoDir /\ IsAlive(d) /\ Go(p, "active") /\ UNCHANGED locals
       \/ /\ d # NoDir /\ ~IsAlive(d)
          /\ Go(p, "mark")
          /\ seen' = [seen EXCEPT ![p] = SignatureOf(d)]
          /\ UNCHANGED <<args, phase, file, attempt, todo>>
    /\ UNCHANGED <<alive, target, marker, held, granted>>

-----------------------------------------------------------------------------
(* removeStaleLease.  Whatever it returns, the loop goes on to its next    *)
(* attempt, and isSessionRunActive to "not active".                        *)
Afterwards(p) ==
    LET again == phase[p] = "take" /\ attempt[p] + 1 < MaxAttempts IN
    /\ Go(p, IF phase[p] # "take" THEN "inactive" ELSE IF again THEN "recovery" ELSE "active")
    /\ attempt' = IF again THEN [attempt EXCEPT ![p] = @ + 1] ELSE attempt
    /\ UNCHANGED <<args, phase, file, seen, todo>>

(* mkdirSync(recovery): only one process at a time recovers a name.        *)
Mark(p) ==
    LET n == file[p] IN
    /\ at[p] = "mark"
    /\ IF marker[n] = NoDir
       THEN /\ marker' = [marker EXCEPT ![n] = Fresh(p)]
            /\ Go(p, "signMarker")
            /\ UNCHANGED locals
       ELSE Afterwards(p) /\ UNCHANGED marker
    /\ UNCHANGED <<alive, target, held, granted>>

(* writeOwner(recovery).                                                   *)
SignMarker(p) ==
    LET n == file[p] IN
    /\ at[p] = "signMarker"
    /\ Unsigned(marker[n])
    /\ marker' = [marker EXCEPT ![n] = Signed(p, "no")]
    /\ Go(p, "compare")
    /\ UNCHANGED <<alive, target, held, granted, locals>>

(* Its error path removes whatever is there; an EEXIST is then taken for   *)
(* the marker's own, an ENOENT leaves removeStaleLease.                    *)
SignMarkerFails(p) ==
    LET n == file[p] IN
    /\ at[p] = "signMarker"
    /\ ~Unsigned(marker[n])
    /\ marker' = [marker EXCEPT ![n] = NoDir]
    /\ IF marker[n] = NoDir THEN Missing(p) ELSE Afterwards(p)
    /\ UNCHANGED <<alive, target, held, granted>>

(* sameSnapshot(target, expected).                                         *)
Compare(p) ==
    /\ at[p] = "compare"
    /\ Go(p, IF Same(target[file[p]], seen[p]) THEN "confirm" ELSE "readMarker")
    /\ UNCHANGED <<alive, target, marker, held, granted, locals>>

(* snapshot(target) once more.  If the directory has gone the exception    *)
(* passes through the finally clause; seen = Nothing stands for it.        *)
Confirm(p) ==
    LET d == target[file[p]] IN
    /\ at[p] = "confirm"
    /\ Go(p, IF d # NoDir /\ ~IsAlive(d) THEN "remove" ELSE "readMarker")
    /\ seen' = IF d = NoDir THEN [seen EXCEPT ![p] = Nothing] ELSE seen
    /\ UNCHANGED <<alive, target, marker, held, granted, args, phase, file, attempt, todo>>

(* rmSync(target) removes whatever is there by now.                        *)
Remove(p) ==
    /\ at[p] = "remove"
    /\ target' = [target EXCEPT ![file[p]] = NoDir]
    /\ Go(p, "readMarker")
    /\ UNCHANGED <<alive, marker, held, granted, locals>>

(* The finally clause: remove the marker if its token is still ours.       *)
Leave(p) == IF seen[p] = Nothing THEN Missing(p) ELSE Afterwards(p)

ReadMarker(p) ==
    /\ at[p] = "readMarker"
    /\ IF SignedBy(marker[file[p]], p) THEN Go(p, "unmark") /\ UNCHANGED locals
       ELSE Leave(p)
    /\ UNCHANGED <<alive, target, marker, held, granted>>

Unmark(p) ==
    /\ at[p] = "unmark"
    /\ marker' = [marker EXCEPT ![file[p]] = NoDir]
    /\ Leave(p)
    /\ UNCHANGED <<alive, target, held, granted>>

-----------------------------------------------------------------------------
(* Mutant: the guard looks only at the leases of its own process.          *)
ListOwn(p) ==
    /\ at[p] = "list"
    /\ Go(p, IF held[p] \ ({Guard} \union args[p].except) # {} THEN "active" ELSE "scan")
    /\ UNCHANGED <<alive, target, marker, held, granted, locals>>

(* hasActiveSessionRunsExcept: its own leases first, then a listing of the *)
(* lease root.                                                             *)
List(p) ==
    LET except == args[p].except IN
    /\ at[p] = "list"
    /\ IF held[p] \ ({Guard} \union except) # {}
       THEN Go(p, "active") /\ UNCHANGED todo
       ELSE /\ Go(p, "scan")
            /\ todo' = [todo EXCEPT ![p] =
                 {n \in Sessions \ except : target[n] # NoDir \/ marker[n] # NoDir}]
    /\ UNCHANGED <<alive, target, marker, held, granted, args, phase, file, attempt, seen>>

(* isSessionRunActive of the next name of the listing.                     *)
ScanNext(p, n) ==
    /\ at[p] = "scan"
    /\ n \in todo[p]
    /\ Go(p, "recovery")
    /\ file' = [file EXCEPT ![p] = n]
    /\ todo' = [todo EXCEPT ![p] = @ \ {n}]
    /\ UNCHANGED <<alive, target, marker, held, granted, args, phase, attempt, seen>>

ScanDone(p) ==
    /\ at[p] = "scan"
    /\ todo[p] = {}
    /\ granted' = [granted EXCEPT ![p] = @ \union {Guard}]
    /\ Throw(p)
    /\ UNCHANGED <<alive, target, marker, held>>

(* Mutant: a busy lease is waited for in the loop.                         *)
ActiveWaits(p) ==
    /\ at[p] = "active"
    /\ Go(p, IF phase[p] \in {"take", "look"} THEN "recovery"
             ELSE IF phase[p] = "pre" THEN "askGuard" ELSE "giveUp")
    /\ UNCHANGED <<alive, target, marker, held, granted, locals>>

(* isSessionRunActive returned true, or the loop found the lease busy:     *)
(* SessionBusyError, after releasing what was made.                        *)
Active(p) ==
    /\ at[p] = "active"
    /\ IF phase[p] \in {"take", "look"} THEN Throw(p)
       ELSE Go(p, IF phase[p] = "pre" THEN "askGuard" ELSE "giveUp") /\ UNCHANGED locals
    /\ UNCHANGED <<alive, target, marker, held, granted>>

(* isSessionRunActive returned false: on to the loop, to the caller, or to *)
(* the next name.                                                          *)
Inactive(p) ==
    /\ at[p] = "inactive"
    /\ \/ /\ phase[p] = "pre"
          /\ Go(p, "recovery")
          /\ phase' = [phase EXCEPT ![p] = "take"]
          /\ file' = [file EXCEPT ![p] = args[p].goal]
          /\ UNCHANGED <<granted, args, attempt, seen, todo>>
       \/ /\ phase[p] = "post"
          /\ granted' = [granted EXCEPT ![p] = @ \union {args[p].goal}]
          /\ Throw(p)
       \/ phase[p] = "scan" /\ Go(p, "scan") /\ UNCHANGED <<granted, locals>>
       \/ phase[p] = "look" /\ Throw(p) /\ UNCHANGED granted
    /\ UNCHANGED <<alive, target, marker, held>>

(* release(): the directory goes if our token is in it; if it is unsigned  *)
(* the lease stays in localLeases for a later retry.                       *)
ReleaseFiles(p, n) ==
    /\ target' = IF SignedBy(target[n], p) THEN [target EXCEPT ![n] = NoDir] ELSE target
    /\ held' = IF Unsigned(target[n]) THEN held ELSE [held EXCEPT ![p] = @ \ {n}]

GiveUp(p) ==
    /\ at[p] = "giveUp"
    /\ ReleaseFiles(p, args[p].goal)
    /\ IF phase[p] = "post" THEN Go(p, "askGuard") /\ UNCHANGED locals ELSE Throw(p)
    /\ UNCHANGED <<alive, marker, granted>>

(* requestGuardPreemption: preempt.request goes into a preemptible guard.  *)
AskGuard(p) ==
    LET d == target[Guard] IN
    /\ at[p] = "askGuard"
    /\ target' = IF d # NoDir /\ d.state = "signed" /\ d.yields = "may"
                 THEN [target EXCEPT ![Guard] = Signed(d.by, "asked")] ELSE target
    /\ Throw(p)
    /\ UNCHANGED <<alive, marker, held, granted>>

Release(p, n) ==
    /\ at[p] = "idle"
    /\ n \in granted[p]
    /\ ReleaseFiles(p, n)
    /\ granted' = [granted EXCEPT ![p] = @ \ {n}]
    /\ UNCHANGED <<alive, marker, at, locals>>

-----------------------------------------------------------------------------
(* The process dies between two system calls.                              *)
Crash(p) ==
    /\ p \in alive \intersect MayCrash
    /\ at[p] \in InRecovery => CrashInRecovery
    /\ alive' = alive \ {p}
    /\ held' = [held EXCEPT ![p] = {}]
    /\ granted' = [granted EXCEPT ![p] = {}]
    /\ Go(p, "dead")
    /\ Forget(p)
    /\ UNCHANGED <<target, marker>>

(* Thirty seconds pass over an unsigned directory.                         *)
MayAge(d) == d # NoDir /\ d.state = "fresh" /\ (d.by \in alive => StallPastGrace)
Aged(d) == [by |-> d.by, state |-> "aged", yields |-> d.yields]

Age(n) ==
    \/ /\ MayAge(target[n])
       /\ target' = [target EXCEPT ![n] = Aged(@)]
       /\ UNCHANGED <<alive, marker, held, granted, at, locals>>
    \/ /\ MayAge(marker[n])
       /\ marker' = [marker EXCEPT ![n] = Aged(@)]
       /\ UNCHANGED <<alive, target, held, granted, at, locals>>

Continue(p) ==
    \/ Recovery(p) \/ RecoveryRead(p) \/ RecoveryCompare(p) \/ RecoveryRemove(p)
    \/ RecoveryGone(p) \/ Mkdir(p) \/ Sign(p) \/ SignFails(p) \/ Read(p)
    \/ Mark(p) \/ SignMarker(p) \/ SignMarkerFails(p) \/ Compare(p) \/ Confirm(p) \/ Remove(p)
    \/ ReadMarker(p) \/ Unmark(p)
    \/ List(p) \/ (\E n \in Names : ScanNext(p, n)) \/ ScanDone(p)
    \/ Active(p) \/ Inactive(p) \/ GiveUp(p) \/ AskGuard(p)

Next ==
    \/ \E p \in Proc :
         \/ \E n \in Sessions, capability \in BOOLEAN : AcquireSession(p, n, capability)
         \/ \E except \in SUBSET Sessions, preemptible \in BOOLEAN :
              AcquireGuard(p, except, preemptible)
         \/ \E n \in Names : Look(p, n)
         \/ Continue(p)
         \/ \E n \in Names : Release(p, n)
         \/ Crash(p)
    \/ \E n \in Names : Age(n)

Spec == Init /\ [][Next]_vars

(* An operation is synchronous code: a process that runs finishes it.      *)
FairSpec == Spec /\ \A p \in Proc : WF_vars(Continue(p))

-----------------------------------------------------------------------------
(* Every variable has its type. *)
TypeOK ==
    /\ alive \subseteq Proc
    /\ target \in [Names -> Dir \union {NoDir}]
    /\ marker \in [Names -> Dir \union {NoDir}]
    /\ held \in [Proc -> SUBSET Names]
    /\ granted \in [Proc -> SUBSET Names]
    /\ at \in [Proc -> Positions]
    /\ args \in [Proc -> Args]
    /\ phase \in [Proc -> Phases]
    /\ file \in [Proc -> Names]
    /\ attempt \in [Proc -> 0 .. MaxAttempts]
    /\ seen \in [Proc -> Signatures]
    /\ todo \in [Proc -> SUBSET Names]

(* acquireSessionLease is "an exclusive, cross-process lease": no two live *)
(* processes have been granted the same name.                              *)
Exclusive ==
    \A p, q \in Proc : granted[p] \intersect granted[q] # {} => p = q

(* The guard "blocks new session runs in a workspace while a destructive   *)
(* maintenance operation verifies that no existing runs remain": while one *)
(* process has the guard no other has any session.                         *)
GuardExclusion ==
    \A p, q \in Proc : Guard \in granted[p] /\ granted[q] # {} => p = q

(* A directory signed by a live process is removed only by that process:   *)
(* recovery never takes a lease whose owner lives.                         *)
OnlyOwnerRemoves ==
    [][\A n \in Names, p \in alive :
          SignedBy(target[n], p) /\ target'[n] = NoDir => at[p] \in {"idle", "giveUp"}
             /\ held'[p] = held[p] \ {n}]_vars

(* No acquisition blocks or loops for ever: each one returns, throws, or   *)
(* dies with its process.                                                  *)
OperationsEnd ==
    \A p \in Proc : at[p] # "idle" ~> at[p] \in {"idle", "dead"}

(* The protocol on the file system implements the abstract lease: a grant  *)
(* of the one is an Acquire of the other, everything else a stutter.       *)
AbstractLease == INSTANCE ExclusiveLease WITH running <- alive, owns <- granted

ImplementsLease == AbstractLease!Spec
=============================================================================
