---------------------------- MODULE TreeMigration ----------------------------
(***************************************************************************)
(* The migration of a root Graph and the checkpoints of its subgraphs as   *)
(* one transaction (graph-migration.ts, applyEngineeringGraphTreeMigration *)
(* and recoverEngineeringGraphTreeMigration), by processes that may throw  *)
(* or die between any two writes, beside what else changes a checkpoint: a *)
(* run of the Graph (graph-engineering.ts) and a new priority              *)
(* (graph-state.ts).  The lease of a Graph is taken and dropped in one     *)
(* step (module SessionLease); it does not wait, and it ends with its      *)
(* process.  Every checkpoint of the tree exists from the start, and every *)
(* definition has every Graph.                                             *)
(***************************************************************************)
EXTENDS Naturals

CONSTANTS
    Process,     \* processes that migrate
    Graph,       \* the root and the subgraphs that have a checkpoint
    Root,
    Turn,        \* [Graph -> Nat]: as they commit, deepest first, the root last
    Key,         \* [Graph -> Nat]: by workspace and id, compareByCodePoints(key)
    Target,      \* definitions of the whole tree
    First,       \* the target the tree is at to begin with
    Part,        \* [Target -> [Graph -> Nat]]: the definition each gives a Graph
    Out,         \* a Graph that takes no part
    Nobody, Run, \* who may hold a lease beside the processes
    MaxApplies,  \* bound: calls of applyEngineeringGraphTreeMigration
    MaxFailures, \* bound: calls and runs that throw or die on their way, or
                 \* leave files that they should remove
    MaxTouches   \* bound: saves by others, each in the place of two such calls

ASSUME TreeAssumption ==
    /\ Root \in Graph /\ First \in Target /\ Part \in [Target -> [Graph -> Nat]]
    /\ \A d, e \in Target : Part[d][Root] = Part[e][Root] => d = e
ASSUME OrderAssumption ==
    /\ Turn \in [Graph -> Nat] /\ Key \in [Graph -> Nat]
    /\ \A g, h \in Graph : Turn[g] = Turn[h] \/ Key[g] = Key[h] => g = h
    /\ \A g \in Graph : Turn[g] <= Turn[Root]
ASSUME HolderAssumption == Run # Nobody /\ Process \intersect {Nobody, Run} = {}
ASSUME BoundAssumption == {MaxApplies, MaxFailures, MaxTouches} \subseteq Nat

VARIABLES
    checkpoint, \* [Graph -> Checkpoints]
    journal,    \* the file <root>.tree-migration.json
    prepared,   \* prepared files: the transaction and the Graph
    lease,      \* [Graph -> Process \union {Nobody, Run}]
    pc,         \* [Process -> Positions]
    mode,       \* [Process -> {"recover", "apply"}]: which of the two it is in
    goal,       \* [Process -> Target]: the definition to apply
    unread,     \* [Process -> SUBSET Graph]: what collectTreeTargets has still to read
    copy,       \* [Process -> Journals]: the plan, then the journal it works on
    memory,     \* [Graph -> Nat]: the checkpoint a run of the root saved first, or 0
    made,       \* checkpoints made so far, which names them
    outdated,   \* history: a transaction began whose plan was out of date by then
    applies, failures, touches

locals == <<pc, mode, goal, unread, copy>>
files == <<checkpoint, journal, prepared>>
counts == <<applies, failures, touches>>
vars == <<files, lease, locals, memory, made, outdated, counts>>

Positions == {"idle", "load", "plan", "collect", "lock", "check", "undo", "build",
              "prepare", "commit", "clean"}
Phases == {"none", "planned", "preparing", "prepared", "committed"}

(* A checkpoint: id stands for engineeringGraphStateHash; base, which is    *)
(* history, is the checkpoint that its writer read.                        *)
Checkpoints == [def : Nat, id : Nat, base : Nat, running : BOOLEAN]

(* A journal gives each Graph that takes part the checkpoint it was at and  *)
(* the one that replaces it; participants are in the order of Turn.         *)
Participant == [source : Checkpoints, target : Checkpoints]
ASSUME OutAssumption == Out \notin Participant

Journals == [phase : Phases, transaction : Nat, participants : [Graph -> Participant \union {Out}]]
None == [phase |-> "none", transaction |-> 0, participants |-> [g \in Graph |-> Out]]

-----------------------------------------------------------------------------
Members(j) == {g \in Graph : j.participants[g] # Out}

(* parseTreeJournal: the last participant is the root.                     *)
Readable(j) == j.phase = "none" \/ Root \in Members(j)
Resolved(j) == j.phase \in {"none", "committed"}
Planned(g) == [source |-> checkpoint[g], target |-> checkpoint[g]]
Files(j) == {j.transaction} \X Members(j)
Held(p) == {g \in Graph : lease[g] = p}

(* The definition the root's checkpoint gives to a subgraph.               *)
Owned(g) == Part[CHOOSE d \in Target : Part[d][Root] = checkpoint[Root].def][g]

Goto(p, l) == pc' = [pc EXCEPT ![p] = l]
Freed(holder) == [g \in Graph |-> IF lease[g] = holder THEN Nobody ELSE lease[g]]

Init ==
    /\ checkpoint = [g \in Graph |-> [def |-> Part[First][g], id |-> 0, base |-> 0, running |-> FALSE]]
    /\ journal = None /\ prepared = {}
    /\ lease = [g \in Graph |-> Nobody]
    /\ pc = [p \in Process |-> "idle"] /\ mode = [p \in Process |-> "apply"]
    /\ goal = [p \in Process |-> First] /\ copy = [p \in Process |-> None]
    /\ unread = [p \in Process |-> {}]
    /\ memory = [g \in Graph |-> 0] /\ outdated = FALSE
    /\ made = 0 /\ applies = 0 /\ failures = 0 /\ touches = 0

(* The call ends, by itself or by an error; its leases end with it.        *)
Leave(p) ==
    /\ Goto(p, "idle")
    /\ mode' = [mode EXCEPT ![p] = "apply"]
    /\ goal' = [goal EXCEPT ![p] = First]
    /\ unread' = [unread EXCEPT ![p] = {}]
    /\ copy' = [copy EXCEPT ![p] = None]
    /\ lease' = Freed(p)

(* It has the root's checkpoint; there is nothing to do when that is at the *)
(* target.                                                                 *)
Knows(p) ==
    IF checkpoint[Root].def = Part[goal[p]][Root] THEN Leave(p)
    ELSE /\ Goto(p, "plan")
         /\ mode' = [mode EXCEPT ![p] = "apply"]
         /\ copy' = [copy EXCEPT ![p] = [None EXCEPT !.participants =
                [g \in Graph |-> IF g = Root THEN Planned(g) ELSE Out]]]
         /\ lease' = Freed(p)
         /\ UNCHANGED <<goal, unread>>

(* The call ends; a recovery gives it the root's checkpoint, which it read *)
(* or wrote under the root's lease, and it goes on.                        *)
Finish(p) == IF mode[p] = "apply" THEN Leave(p) ELSE Knows(p)

-----------------------------------------------------------------------------
(* removePreparedTreeFile: a file that cannot be removed stays.            *)
Remove(set) ==
    \/ prepared' = prepared \ set /\ UNCHANGED failures
    \/ /\ failures < MaxFailures /\ failures' = failures + 1
       /\ \E removed \in SUBSET set : prepared' = prepared \ removed

(* recoverEngineeringGraphTreeMigration reads the journal, and throws when  *)
(* it cannot.                                                              *)
Apply(p, d) ==
    /\ pc[p] = "idle" /\ applies < MaxApplies - 2 * touches /\ Readable(journal)
    /\ applies' = applies + 1
    /\ goal' = [goal EXCEPT ![p] = d]
    /\ IF Resolved(journal)
       THEN /\ Goto(p, "load")
            /\ Remove(Files(journal))
            /\ UNCHANGED <<mode, copy>>
       ELSE /\ Goto(p, "lock")
            /\ mode' = [mode EXCEPT ![p] = "recover"]
            /\ copy' = [copy EXCEPT ![p] = journal]
            /\ UNCHANGED <<prepared, failures>>
    /\ UNCHANGED <<checkpoint, journal, lease, unread, memory, made, outdated, touches>>

Load(p) ==
    /\ pc[p] = "load" /\ Knows(p)
    /\ UNCHANGED <<files, memory, made, outdated, counts>>

(* planEngineeringGraphTreeMigration, over the states that                 *)
(* listEngineeringGraphTreeStates gives.  That one reads the whole tree    *)
(* twice, once for either definition, and throws when a state is not the   *)
(* same both times: what it gives was there at one moment, between the two *)
(* readings.                                                               *)
Blocked(p) ==
    \/ checkpoint[Root].def # copy[p].participants[Root].source.def
    \/ \E g \in Graph : checkpoint[g].running \/ checkpoint[g].def # Owned(g)

(* Blocked, or a state was not the same both times.                        *)
PlanRefused(p) ==
    /\ pc[p] = "plan"
    /\ Leave(p)
    /\ UNCHANGED <<files, memory, made, outdated, counts>>

Plan(p) ==
    /\ pc[p] = "plan" /\ ~Blocked(p)
    /\ Goto(p, "collect")
    /\ unread' = [unread EXCEPT ![p] = Graph]
    /\ copy' = [copy EXCEPT ![p] = [None EXCEPT !.phase = "planned"]]
    /\ UNCHANGED <<files, lease, mode, goal, memory, made, outdated, counts>>

(* collectTreeTargets reads the checkpoints again, one by one and the root *)
(* first; the Graphs that are not at the target by then take part.         *)
Changed(p, g) == checkpoint[g].def # Part[goal[p]][g]

Collected(p, g) ==
    [copy[p] EXCEPT !.participants[g] = IF Changed(p, g) THEN Planned(g) ELSE Out]

Collect(p, g) ==
    /\ pc[p] = "collect" /\ g \in unread[p]
    /\ Root \in unread[p] => g = Root
    /\ IF unread[p] = {g} /\ Members(Collected(p, g)) = {} THEN Leave(p)
       ELSE /\ unread' = [unread EXCEPT ![p] = @ \ {g}]
            /\ copy' = [copy EXCEPT ![p] = Collected(p, g)]
            /\ IF unread[p] = {g} THEN Goto(p, "lock") ELSE UNCHANGED pc
            /\ UNCHANGED <<lease, mode, goal>>
    /\ UNCHANGED <<files, memory, made, outdated, counts>>

-----------------------------------------------------------------------------
(* acquireTreeLeases, one lease at a time, in the order of their keys.     *)
Wanted(p) == Members(copy[p]) \ Held(p)
Foremost(p, g) == g \in Wanted(p) /\ \A h \in Wanted(p) : Key[g] <= Key[h]

Lock(p, g) ==
    /\ pc[p] = "lock" /\ Foremost(p, g)
    /\ lease[g] = Nobody
    /\ lease' = [lease EXCEPT ![g] = p]
    /\ IF Wanted(p) = {g} THEN Goto(p, "check") ELSE UNCHANGED pc
    /\ UNCHANGED <<files, mode, goal, unread, copy, memory, made, outdated, counts>>

LockBusyHeld(p, g) ==                      \* mutant: the leases it has are kept
    /\ pc[p] = "lock" /\ Foremost(p, g)
    /\ lease[g] # Nobody
    /\ Goto(p, "idle")
    /\ UNCHANGED <<files, lease, mode, goal, unread, copy, memory, made, outdated, counts>>

LockBusy(p, g) ==
    /\ pc[p] = "lock" /\ Foremost(p, g)
    /\ lease[g] # Nobody
    /\ Leave(p)
    /\ UNCHANGED <<files, memory, made, outdated, counts>>

(* The journal is still the one that was read before the leases.           *)
RecoverStale(p) ==
    /\ pc[p] = "check" /\ mode[p] = "recover" /\ journal # copy[p]
    /\ Leave(p)
    /\ UNCHANGED <<files, memory, made, outdated, counts>>

RecoverAny(p) ==                           \* mutant: a prepared one is undone too
    /\ pc[p] = "check" /\ mode[p] = "recover" /\ journal = copy[p]
    /\ Goto(p, "undo")
    /\ UNCHANGED <<files, lease, mode, goal, unread, copy, memory, made, outdated, counts>>

Recover(p) ==
    /\ pc[p] = "check" /\ mode[p] = "recover" /\ journal = copy[p]
    /\ Goto(p, IF copy[p].phase = "preparing" THEN "undo" ELSE "commit")
    /\ UNCHANGED <<files, lease, mode, goal, unread, copy, memory, made, outdated, counts>>

(* A transaction that was not prepared is undone; the journal that is      *)
(* removed is the one that is there by then.                               *)
Discard(p) ==
    /\ pc[p] = "undo"
    /\ Remove(Files(copy[p]))
    /\ journal' = None \/ (failures' > failures /\ journal' = journal)
    /\ Finish(p)
    /\ UNCHANGED <<checkpoint, memory, made, outdated, applies, touches>>

(* Under the leases the journal is read first,                             *)
CheckRefused(p) ==
    /\ pc[p] = "check" /\ mode[p] = "apply" /\ ~(Resolved(journal) /\ Readable(journal))
    /\ Leave(p)
    /\ UNCHANGED <<files, memory, made, outdated, counts>>

Check(p) ==
    /\ pc[p] = "check" /\ mode[p] = "apply" /\ Resolved(journal) /\ Readable(journal)
    /\ Goto(p, "build")
    /\ UNCHANGED <<files, lease, mode, goal, unread, copy, memory, made, outdated, counts>>

(* and then each checkpoint that takes part.                               *)
Fits(p) ==
    \A g \in Members(copy[p]) :
        ~checkpoint[g].running /\ checkpoint[g].def = copy[p].participants[g].source.def

BuildRefused(p) ==
    /\ pc[p] = "build" /\ ~Fits(p)
    /\ Leave(p)
    /\ UNCHANGED <<files, memory, made, outdated, counts>>

(* buildTreeMigrationState for every participant, and the journal.         *)
Built(p, g) == [def |-> Part[goal[p]][g], id |-> made + 1, base |-> checkpoint[g].id, running |-> FALSE]

Begin(p) ==
    /\ pc[p] = "build" /\ Fits(p)
    /\ journal' = [phase |-> "preparing", transaction |-> made + 1,
          participants |-> [g \in Graph |->
              IF g \in Members(copy[p]) THEN [source |-> checkpoint[g], target |-> Built(p, g)]
                                        ELSE Out]]
    /\ copy' = [copy EXCEPT ![p] = journal']
    /\ made' = made + 1
    /\ outdated' = (outdated \/ Members(copy[p]) # {g \in Graph : Changed(p, g)})
    /\ Goto(p, "prepare")
    /\ UNCHANGED <<checkpoint, prepared, lease, mode, goal, unread, memory, counts>>

(* A prepared file for every participant, one after the other.             *)
Prepare(p) ==
    /\ pc[p] = "prepare"
    /\ \E g \in Members(copy[p]) :
          LET file(h) == <<copy[p].transaction, h>>
          IN  /\ file(g) \notin prepared
              /\ \A h \in Members(copy[p]) : Turn[h] < Turn[g] => file(h) \in prepared
              /\ prepared' = prepared \union {file(g)}
    /\ UNCHANGED <<checkpoint, journal, lease, locals, memory, made, outdated, counts>>

Prepared(p) ==
    /\ pc[p] = "prepare" /\ Files(copy[p]) \subseteq prepared
    /\ journal' = [copy[p] EXCEPT !.phase = "prepared"]
    /\ copy' = [copy EXCEPT ![p] = journal']
    /\ Goto(p, "commit")
    /\ UNCHANGED <<checkpoint, prepared, lease, mode, goal, unread, memory, made, outdated, counts>>

-----------------------------------------------------------------------------
Arrived(p, g) == checkpoint[g] = copy[p].participants[g].target

AwaitsAny(p, g) ==                         \* mutant: in any order
    pc[p] = "commit" /\ ~Arrived(p, g)

(* commitTreeJournal: the first participant that is not at its target.     *)
Awaits(p, g) ==
    /\ pc[p] = "commit" /\ ~Arrived(p, g)
    /\ \A h \in Members(copy[p]) : Turn[h] < Turn[g] => Arrived(p, h)

LoadsDefinition(p, g) ==                   \* mutant: only the definitions are compared
    /\ checkpoint[g].def = copy[p].participants[g].source.def
    /\ <<copy[p].transaction, g>> \in prepared

(* It is at its source, and its prepared file is there.                    *)
Loads(p, g) ==
    /\ checkpoint[g] = copy[p].participants[g].source
    /\ <<copy[p].transaction, g>> \in prepared

Commit(p, g) ==
    /\ Awaits(p, g) /\ Loads(p, g)
    /\ checkpoint' = [checkpoint EXCEPT ![g] = copy[p].participants[g].target]
    /\ UNCHANGED <<journal, prepared, lease, locals, memory, made, outdated, counts>>

CommitRefused(p, g) ==
    /\ Awaits(p, g) /\ ~Loads(p, g)
    /\ Leave(p)
    /\ UNCHANGED <<files, memory, made, outdated, counts>>

Committed(p) ==
    /\ pc[p] = "commit"
    /\ \A g \in Members(copy[p]) : Arrived(p, g)
    /\ journal' = [copy[p] EXCEPT !.phase = "committed"]
    /\ Goto(p, "clean")
    /\ UNCHANGED <<checkpoint, prepared, lease, mode, goal, unread, copy, memory, made, outdated, counts>>

Clean(p) ==
    /\ pc[p] = "clean"
    /\ Remove(Files(copy[p]))
    /\ Finish(p)
    /\ UNCHANGED <<checkpoint, journal, memory, made, outdated, applies, touches>>

(* An error of a read or a write, or the death of the process.             *)
Fail(p) ==
    /\ pc[p] # "idle" /\ failures < MaxFailures
    /\ failures' = failures + 1
    /\ Leave(p)
    /\ UNCHANGED <<files, memory, made, outdated, applies, touches>>

-----------------------------------------------------------------------------
(* What else saves a checkpoint.                                           *)
Save(g, from, running) ==
    /\ checkpoint' = [checkpoint EXCEPT ![g] =
          [@ EXCEPT !.id = made + 1, !.base = from, !.running = running]]
    /\ made' = made + 1

MayTouch == touches < MaxTouches /\ applies < MaxApplies - 2 * touches - 1

(* setEngineeringGraphPriority.                                            *)
SetPriority(g) ==
    /\ MayTouch /\ touches' = touches + 1
    /\ lease[g] = Nobody
    /\ Save(g, checkpoint[g].id, checkpoint[g].running)
    /\ UNCHANGED <<journal, prepared, lease, locals, memory, outdated, applies, failures>>

(* runEngineeringGraph resumes the root by the definition in its own        *)
(* checkpoint; that of every subgraph has to match before it saves.  A run *)
(* of the root resumes a subgraph once.                                    *)
Resume(g) ==
    /\ lease[g] = Nobody
    /\ IF g = Root
       THEN /\ MayTouch /\ touches' = touches + 1
            /\ \A c \in Graph : checkpoint[c].def = Owned(c)
       ELSE /\ lease[Root] = Run /\ memory[g] = 0
            /\ checkpoint[g].def = Owned(g)
            /\ UNCHANGED touches
    /\ lease' = [lease EXCEPT ![g] = Run]
    /\ Save(g, checkpoint[g].id, TRUE)
    /\ memory' = [memory EXCEPT ![g] = made + 1]
    /\ UNCHANGED <<journal, prepared, locals, outdated, applies, failures>>

(* It ends with the checkpoint it has in memory, the root after the rest.  *)
Settle(g) ==
    /\ lease[g] = Run
    /\ g = Root => \A c \in Graph \ {Root} : lease[c] # Run
    /\ lease' = [lease EXCEPT ![g] = Nobody]
    /\ Save(g, memory[g], FALSE)
    /\ memory' = IF g = Root THEN [c \in Graph |-> 0] ELSE memory
    /\ UNCHANGED <<journal, prepared, locals, outdated, counts>>

Die ==
    /\ failures < MaxFailures /\ failures' = failures + 1
    /\ \E g \in Graph : lease[g] = Run
    /\ lease' = Freed(Run)
    /\ memory' = [g \in Graph |-> 0]
    /\ UNCHANGED <<files, locals, made, outdated, applies, touches>>

-----------------------------------------------------------------------------
Migrates(p) ==
    \/ \E d \in Target : Apply(p, d)
    \/ Load(p) \/ Plan(p) \/ PlanRefused(p)
    \/ \E g \in unread[p] : Collect(p, g)
    \/ \E g \in Members(copy[p]) :
          Lock(p, g) \/ LockBusy(p, g) \/ Commit(p, g) \/ CommitRefused(p, g)
    \/ RecoverStale(p) \/ Recover(p) \/ Discard(p)
    \/ CheckRefused(p) \/ Check(p) \/ BuildRefused(p) \/ Begin(p)
    \/ Prepare(p) \/ Prepared(p) \/ Committed(p) \/ Clean(p) \/ Fail(p)

Next ==
    \/ \E p \in Process : Migrates(p)
    \/ \E g \in Graph : SetPriority(g) \/ Resume(g) \/ Settle(g)
    \/ Die

Spec == Init /\ [][Next]_vars

-----------------------------------------------------------------------------
(* The type invariant; a call that is past its leases holds them all, and  *)
(* no other call has any (acquireTreeLeases).                              *)
TypeOK ==
    /\ checkpoint \in [Graph -> Checkpoints]
    /\ journal \in Journals /\ journal.phase # "planned"
    /\ \A file \in prepared : file[1] \in Nat /\ file[2] \in Graph
    /\ lease \in [Graph -> Process \union {Nobody, Run}]
    /\ pc \in [Process -> Positions] /\ mode \in [Process -> {"recover", "apply"}]
    /\ goal \in [Process -> Target] /\ copy \in [Process -> Journals]
    /\ unread \in [Process -> SUBSET Graph]
    /\ \A p \in Process :
          /\ pc[p] \in {"check", "undo", "build", "prepare", "commit", "clean"} =>
                Held(p) = Members(copy[p])
          /\ pc[p] = "lock" => Held(p) \subseteq Members(copy[p])
          /\ pc[p] \in {"idle", "load", "plan", "collect"} => Held(p) = {}
    /\ memory \in [Graph -> Nat] /\ made \in Nat /\ outdated \in BOOLEAN
    /\ applies \in 0..MaxApplies /\ failures \in 0..MaxFailures /\ touches \in 0..MaxTouches

(* Nothing is overwritten: whatever saves a checkpoint, a commit or a      *)
(* recovery long after the plan too, has read the one that it replaces     *)
(* (graph-migration.ts:925, boundary-checklist.md:3841).                   *)
NothingOverwritten ==
    [][\A g \in Graph : checkpoint'[g] = checkpoint[g] \/ checkpoint'[g].base = checkpoint[g].id]_vars

(* The root activates the tree: while a subgraph is not at the definition  *)
(* that the root gives it, whatever died, a prepared journal says which    *)
(* target the tree goes to, and the root takes part and is not at it yet   *)
(* (graph-engineering.md:317, graph-migration.ts:922).                     *)
Activates ==
    (\E g \in Graph : checkpoint[g].def # Owned(g)) =>
        /\ journal.phase = "prepared"
        /\ Root \in Members(journal)
        /\ checkpoint[Root].def # journal.participants[Root].target.def

(* So it is while what a transaction takes along is what its target        *)
(* changes; a plan may be out of date by then, for it is read without the  *)
(* leases and only its members are read again under them                   *)
(* (graph-migration.ts:1038).                                              *)
Together == outdated \/ Activates

(* When a transaction is committed, the tree is at one definition and not  *)
(* partially migrated, whether its plan was out of date or not             *)
(* (graph-engineering.md:317).  Three calls show that the code does not    *)
(* keep this when the plan was.                                            *)
Whole == journal.phase = "committed" => \A g \in Graph : checkpoint[g].def = Owned(g)

(* A prepared transaction can go on: what it still has to commit is in its *)
(* prepared file, whoever cleans up beside it (graph-migration.ts:928).    *)
CanRollForward ==
    journal.phase = "prepared" =>
        \A g \in Members(journal) :
            checkpoint[g] = journal.participants[g].source => <<journal.transaction, g>> \in prepared
=============================================================================
