------------------------- MODULE TreeMigrationProofs -------------------------
(***************************************************************************)
(* Proofs about TreeMigration, for any tree, any definitions and any       *)
(* number of processes, calls, failures and other saves.                   *)
(***************************************************************************)
EXTENDS TreeMigration, TLAPS

USE DEF Goto

-----------------------------------------------------------------------------
(* A call that is past its leases.                                          *)
Working == {"check", "undo", "build", "prepare", "commit", "clean"}

Owns(p) ==
    /\ pc[p] \in Working => Held(p) = Members(copy[p])
    /\ pc[p] = "lock" => Held(p) \subseteq Members(copy[p])
    /\ pc[p] \in {"idle", "load", "plan", "collect"} => Held(p) = {}

(* TypeOK in three parts.                                                   *)
LocalsTyped ==
    /\ lease \in [Graph -> Process \union {Nobody, Run}]
    /\ pc \in [Process -> Positions] /\ mode \in [Process -> {"recover", "apply"}]
    /\ goal \in [Process -> Target] /\ copy \in [Process -> Journals]
    /\ unread \in [Process -> SUBSET Graph]
    /\ \A p \in Process : Owns(p)
DiskTyped ==
    /\ checkpoint \in [Graph -> Checkpoints]
    /\ journal \in Journals /\ journal.phase # "planned"
    /\ \A file \in prepared : file[1] \in Nat /\ file[2] \in Graph
CountsTyped ==
    /\ memory \in [Graph -> Nat] /\ made \in Nat /\ outdated \in BOOLEAN
    /\ applies \in 0..MaxApplies /\ failures \in 0..MaxFailures /\ touches \in 0..MaxTouches

LEMMA Parts == TypeOK <=> LocalsTyped /\ DiskTyped /\ CountsTyped
  BY DEF TypeOK, LocalsTyped, DiskTyped, CountsTyped, Owns, Working

LEMMA PartsNext == TypeOK' <=> LocalsTyped' /\ DiskTyped' /\ CountsTyped'
  BY DEF TypeOK, LocalsTyped, DiskTyped, CountsTyped, Owns, Working

LEMMA NoneTyped == None \in Journals /\ Members(None) = {}
  BY DEF None, Journals, Members, Phases

LEMMA FilesTyped ==
    ASSUME NEW j \in Journals
    PROVE  \A file \in Files(j) : file[1] \in Nat /\ file[2] \in Graph
  BY DEF Files, Members, Journals

LEMMA RemoveTyped ==
    ASSUME CountsTyped, DiskTyped, NEW set, Remove(set)
    PROVE  prepared' \subseteq prepared /\ failures' \in 0..MaxFailures
  BY BoundAssumption DEF Remove, CountsTyped, DiskTyped

(* A call that ends has no leases, and the others keep theirs.              *)
LEMMA LeaveTyped ==
    ASSUME LocalsTyped, NEW p \in Process, Leave(p)
    PROVE  LocalsTyped'
  <1>1. /\ lease' \in [Graph -> Process \union {Nobody, Run}]
        /\ pc' \in [Process -> Positions] /\ mode' \in [Process -> {"recover", "apply"}]
        /\ goal' \in [Process -> Target] /\ copy' \in [Process -> Journals]
        /\ unread' \in [Process -> SUBSET Graph]
    BY TreeAssumption, NoneTyped DEF LocalsTyped, Leave, Freed, Positions
  <1>2. ASSUME NEW q \in Process PROVE Owns(q)'
    <2>1. CASE q = p
      BY <2>1, HolderAssumption DEF LocalsTyped, Leave, Freed, Owns, Held, Working
    <2>2. CASE q # p
      <3>1. pc'[q] = pc[q] /\ copy'[q] = copy[q] /\ Held(q)' = Held(q)
        BY <2>2, HolderAssumption DEF LocalsTyped, Leave, Freed, Held
      <3> QED BY <3>1 DEF LocalsTyped, Owns, Members
    <2> QED BY <2>1, <2>2
  <1> QED BY <1>1, <1>2 DEF LocalsTyped

LEMMA PlannedTyped ==
    ASSUME DiskTyped
    PROVE  \A g \in Graph : Planned(g) \in Participant
  BY DEF DiskTyped, Planned, Participant

(* What a call knows of the tree when it has read the root's checkpoint.    *)
RootPlanned == [None EXCEPT !.participants = [g \in Graph |-> IF g = Root THEN Planned(g) ELSE Out]]

LEMMA RootPlannedTyped ==
    ASSUME DiskTyped
    PROVE  RootPlanned \in Journals /\ RootPlanned.phase = "none"
  BY PlannedTyped DEF RootPlanned, None, Journals, Phases

LEMMA KnowsTyped ==
    ASSUME LocalsTyped, DiskTyped, NEW p \in Process, Knows(p)
    PROVE  LocalsTyped'
  <1>1. CASE checkpoint[Root].def = Part[goal[p]][Root]
    BY <1>1, LeaveTyped DEF Knows
  <1>2. CASE checkpoint[Root].def # Part[goal[p]][Root]
    <2>1. /\ pc' = [pc EXCEPT ![p] = "plan"] /\ mode' = [mode EXCEPT ![p] = "apply"]
          /\ copy' = [copy EXCEPT ![p] = RootPlanned] /\ lease' = Freed(p)
          /\ UNCHANGED <<goal, unread>>
      BY <1>2 DEF Knows, RootPlanned
    <2>2. /\ lease' \in [Graph -> Process \union {Nobody, Run}]
          /\ pc' \in [Process -> Positions] /\ mode' \in [Process -> {"recover", "apply"}]
          /\ goal' \in [Process -> Target] /\ copy' \in [Process -> Journals]
          /\ unread' \in [Process -> SUBSET Graph]
      BY <2>1, RootPlannedTyped DEF LocalsTyped, Freed, Positions
    <2>3. ASSUME NEW q \in Process PROVE Owns(q)'
      <3>1. CASE q = p
        BY <2>1, <3>1, HolderAssumption DEF LocalsTyped, Freed, Owns, Held, Working
      <3>2. CASE q # p
        <4>1. pc'[q] = pc[q] /\ copy'[q] = copy[q] /\ Held(q)' = Held(q)
          BY <2>1, <3>2, HolderAssumption DEF LocalsTyped, Freed, Held
        <4> QED BY <4>1 DEF LocalsTyped, Owns, Members
      <3> QED BY <3>1, <3>2
    <2> QED BY <2>2, <2>3 DEF LocalsTyped
  <1> QED BY <1>1, <1>2

LEMMA FinishTyped ==
    ASSUME LocalsTyped, DiskTyped, NEW p \in Process, Finish(p)
    PROVE  LocalsTyped'
  BY LeaveTyped, KnowsTyped DEF Finish

(* A step of one call that changes neither leases nor what it needs.        *)
LEMMA MovesTyped ==
    ASSUME LocalsTyped, NEW p \in Process, lease' = lease,
           pc' \in [Process -> Positions], mode' \in [Process -> {"recover", "apply"}],
           goal' \in [Process -> Target], copy' \in [Process -> Journals],
           unread' \in [Process -> SUBSET Graph],
           \A q \in Process \ {p} : pc'[q] = pc[q] /\ copy'[q] = copy[q],
           Owns(p)'
    PROVE  LocalsTyped'
  <1>1. ASSUME NEW q \in Process \ {p} PROVE Owns(q)'
    BY <1>1 DEF LocalsTyped, Owns, Held, Members
  <1> QED BY <1>1 DEF LocalsTyped

-----------------------------------------------------------------------------
LEMMA InitTyped == Init => TypeOK
  <1> SUFFICES ASSUME Init PROVE TypeOK
    OBVIOUS
  <1>1. LocalsTyped
    BY TreeAssumption, HolderAssumption, NoneTyped
    DEF Init, LocalsTyped, Positions, Owns, Held, Working
  <1>2. DiskTyped
    BY TreeAssumption, NoneTyped DEF Init, DiskTyped, Checkpoints, None
  <1>3. CountsTyped
    <2>1. outdated \in BOOLEAN
      BY DEF Init
    <2> QED BY <2>1, BoundAssumption DEF Init, CountsTyped
  <1> QED BY <1>1, <1>2, <1>3, Parts

LEMMA ApplyTyped ==
    ASSUME TypeOK, NEW p \in Process, NEW d \in Target, Apply(p, d)
    PROVE  TypeOK'
  <1> USE Parts, PartsNext
  <1>1. CASE Resolved(journal)
    <2>1. prepared' \subseteq prepared /\ failures' \in 0..MaxFailures
      BY <1>1, RemoveTyped DEF Apply
    <2>2. LocalsTyped'
      <3>1. Owns(p)'
        BY <1>1 DEF Apply, LocalsTyped, Owns, Held, Working
      <3> QED BY <1>1, <3>1, MovesTyped DEF Apply, LocalsTyped, Positions
    <2> QED BY <1>1, <2>1, <2>2, BoundAssumption DEF Apply, DiskTyped, CountsTyped
  <1>2. CASE ~Resolved(journal)
    <2>1. Owns(p)'
      BY <1>2 DEF Apply, LocalsTyped, Owns, Held, Working
    <2>2. LocalsTyped'
      BY <1>2, <2>1, MovesTyped DEF Apply, LocalsTyped, DiskTyped, Positions
    <2> QED BY <1>2, <2>2, BoundAssumption DEF Apply, DiskTyped, CountsTyped
  <1> QED BY <1>1, <1>2

LEMMA LoadTyped ==
    ASSUME TypeOK, NEW p \in Process, Load(p)
    PROVE  TypeOK'
  <1> USE Parts, PartsNext
  <1>1. LocalsTyped'
    BY KnowsTyped DEF Load
  <1> QED BY <1>1 DEF Load, DiskTyped, CountsTyped, files, counts

LEMMA PlanTyped ==
    ASSUME TypeOK, NEW p \in Process, Plan(p)
    PROVE  TypeOK'
  <1> USE Parts, PartsNext
  <1>1. copy' \in [Process -> Journals]
    BY NoneTyped DEF Plan, LocalsTyped, Journals, Phases
  <1>2. Owns(p)'
    BY DEF Plan, LocalsTyped, Owns, Held, Working
  <1>3. LocalsTyped'
    BY <1>1, <1>2, MovesTyped DEF Plan, LocalsTyped, Positions
  <1> QED BY <1>3 DEF Plan, DiskTyped, CountsTyped, files, counts

LEMMA CollectedTyped ==
    ASSUME TypeOK, NEW p \in Process, NEW g \in Graph
    PROVE  /\ Collected(p, g) \in Journals /\ Collected(p, g).phase = copy[p].phase
           /\ Collected(p, g).transaction = copy[p].transaction
  <1> DEFINE entry == IF Changed(p, g) THEN Planned(g) ELSE Out
  <1>1. entry \in Participant \union {Out} /\ copy[p] \in Journals
    BY PlannedTyped, Parts DEF LocalsTyped
  <1>2. Collected(p, g) = [copy[p] EXCEPT !.participants[g] = entry]
    BY DEF Collected
  <1> HIDE DEF entry
  <1> QED BY <1>1, <1>2 DEF Journals

LEMMA CollectTyped ==
    ASSUME TypeOK, NEW p \in Process, NEW g \in Graph, Collect(p, g)
    PROVE  TypeOK'
  <1> USE Parts, PartsNext
  <1>1. LocalsTyped'
    <2>1. CASE unread[p] = {g} /\ Members(Collected(p, g)) = {}
      BY <2>1, LeaveTyped DEF Collect
    <2>2. CASE ~(unread[p] = {g} /\ Members(Collected(p, g)) = {})
      <3>1. copy' \in [Process -> Journals] /\ unread' \in [Process -> SUBSET Graph]
        BY <2>2, CollectedTyped DEF Collect, LocalsTyped
      <3>2. Held(p) = {} /\ pc'[p] \in {"collect", "lock"} /\ pc' \in [Process -> Positions]
        BY <2>2 DEF Collect, LocalsTyped, Owns, Positions
      <3>3. Owns(p)'
        BY <2>2, <3>2 DEF Collect, Owns, Held, Working
      <3> QED BY <2>2, <3>1, <3>2, <3>3, MovesTyped DEF Collect, LocalsTyped
    <2> QED BY <2>1, <2>2
  <1> QED BY <1>1 DEF Collect, DiskTyped, CountsTyped, files, counts

LEMMA LockTyped ==
    ASSUME TypeOK, NEW p \in Process, NEW g \in Graph, Lock(p, g)
    PROVE  TypeOK'
  <1> USE Parts, PartsNext
  <1>1. g \in Members(copy[p]) /\ Held(p)' = Held(p) \union {g}
    BY DEF Lock, Foremost, Wanted, LocalsTyped, Held
  <1>2. Owns(p)'
    BY <1>1 DEF Lock, LocalsTyped, Owns, Members, Wanted, Working
  <1>3. ASSUME NEW q \in Process \ {p} PROVE Owns(q)'
    <2>1. Held(q)' = Held(q) /\ pc'[q] = pc[q]
      BY <1>3, HolderAssumption DEF Lock, LocalsTyped, Held
    <2> QED BY <2>1 DEF Lock, LocalsTyped, Owns, Members
  <1>4. LocalsTyped'
    BY <1>2, <1>3 DEF Lock, LocalsTyped, Positions
  <1> QED BY <1>4 DEF Lock, DiskTyped, CountsTyped, files, counts

LEMMA BuiltTyped ==
    ASSUME TypeOK, NEW p \in Process, NEW g \in Graph
    PROVE  [source |-> checkpoint[g], target |-> Built(p, g)] \in Participant
  BY TreeAssumption, Parts
  DEF Built, LocalsTyped, DiskTyped, CountsTyped, Checkpoints, Participant

LEMMA BeginTyped ==
    ASSUME TypeOK, NEW p \in Process, Begin(p)
    PROVE  TypeOK'
  <1> USE Parts, PartsNext
  <1>1. \A g \in Graph : [source |-> checkpoint[g], target |-> Built(p, g)] \in Participant
    BY BuiltTyped
  <1>2. journal' \in Journals /\ journal'.phase # "planned"
    BY <1>1 DEF Begin, Journals, Phases, CountsTyped
  <1>3. Members(journal') = Members(copy[p])
    BY <1>1, OutAssumption DEF Begin, Members
  <1>4. Owns(p)'
    BY <1>3 DEF Begin, LocalsTyped, Owns, Held, Members, Working
  <1>5. LocalsTyped'
    BY <1>2, <1>4, MovesTyped DEF Begin, LocalsTyped, Positions
  <1> QED BY <1>2, <1>5 DEF Begin, DiskTyped, CountsTyped, counts

LEMMA PrepareTyped ==
    ASSUME TypeOK, NEW p \in Process, Prepare(p)
    PROVE  TypeOK'
  <1> USE Parts, PartsNext
  <1>1. PICK g \in Members(copy[p]) : prepared' = prepared \union {<<copy[p].transaction, g>>}
    BY DEF Prepare
  <1>2. copy[p].transaction \in Nat /\ g \in Graph
    BY DEF LocalsTyped, Journals, Members
  <1>3. \A file \in prepared' : file[1] \in Nat /\ file[2] \in Graph
    BY <1>1, <1>2 DEF DiskTyped
  <1>4. LocalsTyped'
    BY DEF Prepare, LocalsTyped, locals, Owns, Held, Members
  <1> QED BY <1>3, <1>4 DEF Prepare, DiskTyped, CountsTyped, counts

LEMMA PreparedTyped ==
    ASSUME TypeOK, NEW p \in Process, Prepared(p)
    PROVE  TypeOK'
  <1> USE Parts, PartsNext
  <1>1. journal' \in Journals /\ journal'.phase # "planned"
    BY DEF Prepared, LocalsTyped, Journals, Phases
  <1>2. Members(journal') = Members(copy[p])
    BY DEF Prepared, LocalsTyped, Journals, Members
  <1>3. Owns(p)'
    BY <1>2 DEF Prepared, LocalsTyped, Owns, Held, Members, Working
  <1>4. LocalsTyped'
    BY <1>1, <1>3, MovesTyped DEF Prepared, LocalsTyped, Positions
  <1> QED BY <1>1, <1>4 DEF Prepared, DiskTyped, CountsTyped, counts

LEMMA CommitTyped ==
    ASSUME TypeOK, NEW p \in Process, NEW g \in Members(copy[p]), Commit(p, g)
    PROVE  TypeOK'
  <1> USE Parts, PartsNext
  <1>1. copy[p].participants[g] \in Participant /\ g \in Graph
    BY DEF LocalsTyped, Journals, Members
  <1>2. checkpoint' \in [Graph -> Checkpoints]
    BY <1>1 DEF Commit, DiskTyped, Participant
  <1>3. LocalsTyped'
    BY DEF Commit, LocalsTyped, locals, Owns, Held, Members
  <1> QED BY <1>2, <1>3 DEF Commit, DiskTyped, CountsTyped, counts

LEMMA CommittedTyped ==
    ASSUME TypeOK, NEW p \in Process, Committed(p)
    PROVE  TypeOK'
  <1> USE Parts, PartsNext
  <1>1. journal' \in Journals /\ journal'.phase # "planned"
    BY DEF Committed, LocalsTyped, Journals, Phases
  <1>2. Owns(p)'
    BY DEF Committed, LocalsTyped, Owns, Held, Members, Working
  <1>3. LocalsTyped'
    BY <1>2, MovesTyped DEF Committed, LocalsTyped, Positions
  <1> QED BY <1>1, <1>3 DEF Committed, DiskTyped, CountsTyped, counts

LEMMA ChecksTyped ==
    ASSUME TypeOK, NEW p \in Process, Recover(p) \/ Check(p)
    PROVE  TypeOK'
  <1> USE Parts, PartsNext
  <1>1. /\ pc[p] = "check" /\ UNCHANGED <<files, lease, mode, goal, unread, copy, memory, made, outdated, counts>>
        /\ \E l \in {"undo", "commit", "build"} : pc' = [pc EXCEPT ![p] = l]
    BY DEF Recover, Check
  <1>2. Owns(p)'
    BY <1>1 DEF LocalsTyped, Owns, Held, Members, Working
  <1>3. LocalsTyped'
    BY <1>1, <1>2, MovesTyped DEF LocalsTyped, Positions
  <1> QED BY <1>1, <1>3 DEF DiskTyped, CountsTyped, files, counts

LEMMA DiscardTyped ==
    ASSUME TypeOK, NEW p \in Process, Discard(p)
    PROVE  TypeOK'
  <1> USE Parts, PartsNext
  <1>1. prepared' \subseteq prepared /\ failures' \in 0..MaxFailures
    BY RemoveTyped DEF Discard
  <1>2. journal' \in Journals /\ journal'.phase # "planned"
    BY NoneTyped DEF Discard, DiskTyped, None
  <1>3. LocalsTyped'
    BY FinishTyped DEF Discard
  <1> QED BY <1>1, <1>2, <1>3 DEF Discard, DiskTyped, CountsTyped

LEMMA CleanTyped ==
    ASSUME TypeOK, NEW p \in Process, Clean(p)
    PROVE  TypeOK'
  <1> USE Parts, PartsNext
  <1>1. prepared' \subseteq prepared /\ failures' \in 0..MaxFailures
    BY RemoveTyped DEF Clean
  <1>2. LocalsTyped'
    BY FinishTyped DEF Clean
  <1> QED BY <1>1, <1>2 DEF Clean, DiskTyped, CountsTyped

(* The ways in which a call ends early.                                     *)
Ends(p) ==
    \/ PlanRefused(p) \/ RecoverStale(p) \/ CheckRefused(p) \/ BuildRefused(p) \/ Fail(p)
    \/ \E g \in Members(copy[p]) : LockBusy(p, g) \/ CommitRefused(p, g)

LEMMA EndsLeave ==
    ASSUME NEW p \in Process, Ends(p)
    PROVE  /\ Leave(p)
           /\ UNCHANGED <<checkpoint, journal, prepared, memory, made, outdated, applies, touches>>
           /\ \/ failures' = failures
              \/ failures < MaxFailures /\ failures' = failures + 1
  BY DEF Ends, PlanRefused, RecoverStale, CheckRefused, BuildRefused, Fail, LockBusy, CommitRefused, files, counts

LEMMA EndsTyped ==
    ASSUME TypeOK, NEW p \in Process, Ends(p)
    PROVE  TypeOK'
  <1>1. LocalsTyped'
    BY EndsLeave, LeaveTyped, Parts
  <1>2. DiskTyped' /\ CountsTyped'
    BY EndsLeave, Parts, BoundAssumption DEF DiskTyped, CountsTyped
  <1> QED BY <1>1, <1>2, PartsNext

-----------------------------------------------------------------------------
(* The saves of others.                                                     *)
Others(g) == SetPriority(g) \/ Resume(g) \/ Settle(g)

LEMMA SaveTyped ==
    ASSUME DiskTyped, CountsTyped, NEW g \in Graph, NEW from \in Nat, NEW running \in BOOLEAN,
           Save(g, from, running)
    PROVE  checkpoint' \in [Graph -> Checkpoints] /\ made' \in Nat
  <1>1. made' = made + 1 /\ made' \in Nat
    BY DEF Save, CountsTyped
  <1>2. checkpoint[g] \in Checkpoints
    BY DEF DiskTyped
  <1>3. [checkpoint[g] EXCEPT !.id = made + 1, !.base = from, !.running = running] \in Checkpoints
    BY <1>1, <1>2 DEF Checkpoints
  <1>4. checkpoint' \in [Graph -> Checkpoints]
    BY <1>3 DEF Save, DiskTyped
  <1> QED BY <1>1, <1>4

(* Only a run's own leases change.                                          *)
LEMMA OthersTyped ==
    ASSUME TypeOK, NEW g \in Graph, Others(g)
    PROVE  TypeOK'
  <1> USE Parts, PartsNext
  <1>1. checkpoint' \in [Graph -> Checkpoints] /\ made' \in Nat
    <2>1. checkpoint[g].id \in Nat /\ checkpoint[g].running \in BOOLEAN /\ memory[g] \in Nat
      BY DEF DiskTyped, CountsTyped, Checkpoints
    <2> QED BY <2>1, SaveTyped DEF Others, SetPriority, Resume, Settle
  <1>2. /\ UNCHANGED <<journal, prepared, locals, outdated, applies, failures>>
        /\ touches' \in 0..MaxTouches
    <2>1. touches' = touches \/ (touches < MaxTouches /\ touches' = touches + 1)
      <3>1. CASE SetPriority(g)
        BY <3>1 DEF SetPriority, MayTouch
      <3>2. CASE Resume(g) /\ g = Root
        BY <3>2 DEF Resume, MayTouch
      <3>3. CASE Resume(g) /\ g # Root
        BY <3>3 DEF Resume
      <3>4. CASE Settle(g)
        BY <3>4 DEF Settle, counts
      <3> QED BY <3>1, <3>2, <3>3, <3>4 DEF Others
    <2>2. touches' \in 0..MaxTouches
      BY <2>1, BoundAssumption DEF CountsTyped
    <2> QED BY <2>2 DEF Others, SetPriority, Resume, Settle, counts
  <1>3. memory' \in [Graph -> Nat]
    <2>1. made + 1 \in Nat /\ memory \in [Graph -> Nat]
      BY DEF CountsTyped
    <2>2. [memory EXCEPT ![g] = made + 1] \in [Graph -> Nat] /\ [c \in Graph |-> 0] \in [Graph -> Nat]
      BY <2>1
    <2> QED BY <2>1, <2>2 DEF Others, SetPriority, Resume, Settle
  <1>4. /\ lease' \in [Graph -> Process \union {Nobody, Run}]
        /\ \A q \in Process : Held(q)' = Held(q)
    BY ZenonT(40), HolderAssumption DEF Others, SetPriority, Resume, Settle, LocalsTyped, Held
  <1>5. LocalsTyped'
    BY <1>2, <1>4 DEF LocalsTyped, Owns, Members, locals
  <1> QED BY <1>1, <1>2, <1>3, <1>5 DEF DiskTyped, CountsTyped

LEMMA DieTyped ==
    ASSUME TypeOK, Die
    PROVE  TypeOK'
  <1> USE Parts, PartsNext
  <1>1. /\ lease' \in [Graph -> Process \union {Nobody, Run}]
        /\ \A q \in Process : Held(q)' = Held(q)
    BY HolderAssumption DEF Die, Freed, LocalsTyped, Held
  <1>2. LocalsTyped'
    BY <1>1 DEF Die, LocalsTyped, Owns, Members, locals
  <1> QED BY <1>2, BoundAssumption DEF Die, DiskTyped, CountsTyped, files

-----------------------------------------------------------------------------
(* The first inductive invariant: what the journals, on disk and at hand,   *)
(* say of each other, of the checkpoints and of the prepared files.  It     *)
(* holds whether the plans are out of date or not.                          *)
InPlay(j) == j.phase \in {"preparing", "prepared", "committed"}

(* A transaction is named by the checkpoint that its begin would have made; *)
(* what it replaces is older.                                               *)
Numbered(j) ==
    InPlay(j) =>
        /\ j.transaction \in Nat \ {0} /\ j.transaction <= made
        /\ Members(j) # {}
        /\ \A g \in Members(j) :
              /\ j.participants[g].source.id < j.transaction
              /\ j.participants[g].source.id <= checkpoint[g].id
              /\ j.participants[g].target.id = j.transaction
              /\ j.participants[g].target.base = j.participants[g].source.id

(* Nothing is left to commit; and what is left is in its prepared file.     *)
Past(j) == \A g \in Members(j) : j.participants[g].source.id < checkpoint[g].id
Filed(j) ==
    \A g \in Members(j) :
        checkpoint[g] = j.participants[g].source => <<j.transaction, g>> \in prepared

Alike(j, k) ==
    InPlay(j) /\ InPlay(k) /\ j.transaction = k.transaction => j.participants = k.participants

(* The journal that a call has, by its position.                            *)
Stage(p) ==
    /\ pc[p] \in {"idle", "load", "plan", "collect", "build"} =>
          ~InPlay(copy[p]) /\ mode[p] = "apply"
    /\ pc[p] \in {"lock", "check"} =>
          (InPlay(copy[p]) <=> mode[p] = "recover") /\ copy[p].phase # "committed"
    /\ pc[p] \in {"lock", "check", "build"} => Members(copy[p]) # {}
    /\ pc[p] \in {"undo", "prepare"} => copy[p].phase = "preparing"
    /\ pc[p] \in {"commit", "clean"} => copy[p].phase = "prepared"
    /\ pc[p] = "undo" /\ journal.transaction = copy[p].transaction => journal.phase = "preparing"
    /\ pc[p] = "commit" => Filed(copy[p])
    /\ pc[p] = "clean" => Past(copy[p])

(* What a run has in memory.                                                *)
Remembered == \A g \in Graph : lease[g] = Run => memory[g] = checkpoint[g].id

Dated == \A g \in Graph : checkpoint[g].id <= made
Agreed ==
    /\ \A p \in Process : Alike(journal, copy[p])
    /\ \A p, q \in Process : Alike(copy[p], copy[q])
OnDisk ==
    /\ journal.phase = "prepared" => Filed(journal)
    /\ journal.phase = "committed" => Past(journal)
    /\ journal.phase = "none" => Members(journal) = {}

Ledger ==
    /\ Dated
    /\ Numbered(journal) /\ \A p \in Process : Numbered(copy[p])
    /\ Agreed /\ OnDisk
    /\ \A p \in Process : Stage(p)
    /\ Remembered

-----------------------------------------------------------------------------
LEMMA JournalTyped ==
    ASSUME TypeOK
    PROVE  /\ journal \in Journals /\ \A p \in Process : copy[p] \in Journals
           /\ \A g \in Graph : checkpoint[g] \in Checkpoints /\ checkpoint[g].id \in Nat
           /\ made \in Nat
  BY DEF TypeOK, Checkpoints

LEMMA MemberTyped ==
    ASSUME NEW j \in Journals, NEW g \in Members(j)
    PROVE  /\ g \in Graph /\ j.participants[g] \in Participant
           /\ j.participants[g].source \in Checkpoints /\ j.participants[g].source.id \in Nat
           /\ j.participants[g].target \in Checkpoints
  BY DEF Journals, Members, Participant, Checkpoints

(* Calls at work on one transaction are one call.                           *)
LEMMA OneCall ==
    ASSUME TypeOK, Ledger, NEW p \in Process, NEW q \in Process,
           pc[p] \in {"undo", "prepare", "commit", "clean"},
           pc[q] \in {"undo", "prepare", "commit", "clean"},
           copy[p].transaction = copy[q].transaction
    PROVE  p = q
  <1>1. InPlay(copy[p]) /\ InPlay(copy[q])
    BY DEF Ledger, Stage, InPlay
  <1>2. Members(copy[p]) = Members(copy[q]) /\ Members(copy[p]) # {}
    BY <1>1 DEF Ledger, Agreed, Alike, Members, Numbered
  <1>3. Held(p) = Held(q) /\ Held(p) # {}
    BY <1>2 DEF TypeOK
  <1> QED BY <1>3 DEF Held

(* The files of one transaction are removed, and those of another stay.     *)
LEMMA FilesKept ==
    ASSUME NEW j \in Journals, NEW k \in Journals, Numbered(j), Numbered(k), TypeOK,
           Alike(j, k), InPlay(k), Filed(k), prepared \ Files(j) \subseteq prepared',
           (InPlay(j) /\ Past(j)) \/ j.transaction # k.transaction
    PROVE  \A g \in Members(k) :
              checkpoint[g] = k.participants[g].source => <<k.transaction, g>> \in prepared'
  <1> SUFFICES ASSUME NEW g \in Members(k), checkpoint[g] = k.participants[g].source
               PROVE  <<k.transaction, g>> \in prepared'
    OBVIOUS
  <1>1. <<k.transaction, g>> \in prepared
    BY DEF Filed
  <1>2. CASE j.transaction # k.transaction
    BY <1>1, <1>2 DEF Files
  <1>3. CASE InPlay(j) /\ Past(j) /\ j.transaction = k.transaction
    <2>1. g \in Members(j) /\ j.participants[g] = k.participants[g]
      BY <1>3 DEF Alike, Members
    <2>2. k.participants[g].source.id < checkpoint[g].id
      BY <1>3, <2>1 DEF Past
    <2>3. checkpoint[g].id \in Nat
      BY MemberTyped, JournalTyped
    <2> QED BY <2>2, <2>3
  <1> QED BY <1>2, <1>3

(* Checkpoints and transactions only get newer.                             *)
Onward ==
    /\ made' \in Nat /\ made <= made'
    /\ \A g \in Graph : /\ checkpoint'[g].id \in Nat /\ checkpoint[g].id <= checkpoint'[g].id
                        /\ checkpoint'[g].id <= made'
Apart(p) ==
    \A q \in Process \ {p} : pc'[q] = pc[q] /\ mode'[q] = mode[q] /\ copy'[q] = copy[q]

LEMMA NumberedKept ==
    ASSUME TypeOK, Ledger, Onward
    PROVE  /\ \A q \in Process : copy'[q] = copy[q] => Numbered(copy[q])'
           /\ journal' = journal => Numbered(journal)'
  <1>1. ASSUME NEW j \in Journals, Numbered(j), InPlay(j)
        PROVE  /\ j.transaction \in Nat \ {0} /\ j.transaction <= made'
               /\ Members(j) # {}
               /\ \A g \in Members(j) :
                     /\ j.participants[g].source.id < j.transaction
                     /\ j.participants[g].source.id <= checkpoint'[g].id
                     /\ j.participants[g].target.id = j.transaction
                     /\ j.participants[g].target.base = j.participants[g].source.id
    <2>1. j.transaction \in Nat \ {0} /\ j.transaction <= made'
      BY <1>1, JournalTyped DEF Numbered, Onward
    <2>2. ASSUME NEW g \in Members(j) PROVE j.participants[g].source.id <= checkpoint'[g].id
      BY <1>1, JournalTyped, MemberTyped DEF Numbered, Onward
    <2> QED BY <1>1, <2>1, <2>2 DEF Numbered
  <1>2. ASSUME NEW q \in Process, copy'[q] = copy[q] PROVE Numbered(copy[q])'
    BY <1>1, <1>2, JournalTyped DEF Ledger, Numbered, InPlay, Members
  <1>3. ASSUME journal' = journal PROVE Numbered(journal)'
    BY <1>1, <1>3, JournalTyped DEF Ledger, Numbered, InPlay, Members
  <1> QED BY <1>2, <1>3

(* A step of one call, and what it leaves of the others.                    *)
LEMMA StagesKept ==
    ASSUME TypeOK, Ledger, Onward, NEW p \in Process, Apart(p),
           \A q \in Process \ {p} : pc[q] = "commit" => Filed(copy[q])',
           \A q \in Process \ {p} :
              pc[q] = "undo" /\ journal'.transaction = copy[q].transaction => journal'.phase = "preparing"
    PROVE  \A q \in Process \ {p} : Stage(q)'
  <1> SUFFICES ASSUME NEW q \in Process \ {p} PROVE Stage(q)'
    OBVIOUS
  <1>1. pc'[q] = pc[q] /\ mode'[q] = mode[q] /\ copy'[q] = copy[q] /\ Stage(q)
    BY DEF Apart, Ledger
  <1>2. Past(copy[q]) => Past(copy[q])'
    <2>1. ASSUME NEW g \in Members(copy[q]), copy[q].participants[g].source.id < checkpoint[g].id
          PROVE  copy[q].participants[g].source.id < checkpoint'[g].id
      BY <2>1, JournalTyped, MemberTyped DEF Onward
    <2> QED BY <1>1, <2>1 DEF Past, Members
  <1> QED BY <1>1, <1>2 DEF Stage, InPlay, Members

LEMMA AgreedKept ==
    ASSUME TypeOK, Ledger, NEW p \in Process, Apart(p),
           \A q \in Process : Alike(journal, copy[q])',
           \A q \in Process \ {p} : Alike(copy[p], copy[q])'
    PROVE  Agreed'
  <1>1. \A q \in Process \ {p} : Alike(copy[q], copy[p])'
    BY DEF Alike, InPlay
  <1>2. \A q, r \in Process \ {p} : Alike(copy[q], copy[r])'
    BY DEF Apart, Ledger, Agreed, Alike, InPlay
  <1>3. Alike(copy[p], copy[p])'
    BY DEF Alike
  <1> QED BY <1>1, <1>2, <1>3 DEF Agreed

(* A step of one call that changes no checkpoint and not the journal, and   *)
(* takes no prepared file away.                                             *)
LEMMA QuietKeeps ==
    ASSUME TypeOK, Ledger, NEW p \in Process, Apart(p),
           UNCHANGED <<checkpoint, journal, memory, made>>,
           prepared \subseteq prepared',
           \A g \in Graph : lease'[g] = Run => lease[g] = Run,
           copy'[p] = copy[p] \/ copy'[p] = journal \/ ~InPlay(copy'[p]),
           Stage(p)'
    PROVE  Ledger'
  <1>1. Onward /\ Dated'
    BY JournalTyped DEF Onward, Ledger, Dated
  <1>2. Numbered(journal)' /\ \A q \in Process : Numbered(copy[q])'
    <2>1. \A q \in Process \ {p} : Numbered(copy[q])'
      BY <1>1, NumberedKept DEF Apart
    <2>2. Numbered(journal)'
      BY <1>1, NumberedKept
    <2>3. Numbered(copy[p])'
      BY <1>1, <2>2, NumberedKept DEF Numbered, Members, InPlay
    <2> QED BY <2>1, <2>2, <2>3
  <1>3. Agreed'
    <2>1. \A q \in Process \ {p} : Alike(journal, copy[q])' /\ Alike(copy[p], copy[q])'
      BY DEF Apart, Ledger, Agreed, Alike, InPlay
    <2>2. Alike(journal, copy[p])'
      BY DEF Ledger, Agreed, Alike, InPlay
    <2> QED BY <2>1, <2>2, AgreedKept
  <1>4. OnDisk'
    BY DEF Ledger, OnDisk, Filed, Past, Members
  <1>5. \A q \in Process \ {p} : Stage(q)'
    <2>1. \A q \in Process \ {p} : pc[q] = "commit" => Filed(copy[q])'
      BY DEF Apart, Ledger, Stage, Filed, Members
    <2> QED BY <1>1, <2>1, StagesKept DEF Ledger, Stage
  <1>6. Remembered'
    BY DEF Ledger, Remembered
  <1> QED BY <1>1, <1>2, <1>3, <1>4, <1>5, <1>6 DEF Ledger

-----------------------------------------------------------------------------
LEMMA FreedRun ==
    ASSUME TypeOK, NEW p \in Process, lease' = Freed(p)
    PROVE  \A g \in Graph : lease'[g] = Run => lease[g] = Run
  BY HolderAssumption DEF Freed, TypeOK

(* A call that ends, or has read the root's checkpoint.                     *)
LEMMA FinishMoves ==
    ASSUME TypeOK, NEW p \in Process, Leave(p) \/ Knows(p) \/ Finish(p)
    PROVE  /\ Apart(p) /\ pc'[p] \in {"idle", "plan"} /\ ~InPlay(copy'[p])
           /\ mode'[p] = "apply"
           /\ \A q \in Process \ {p} : goal'[q] = goal[q]
           /\ \A g \in Graph : lease'[g] = Run => lease[g] = Run
           /\ pc'[p] = "plan" => /\ goal' = goal /\ copy'[p] = RootPlanned
                                 /\ checkpoint[Root].def # Part[goal[p]][Root]
  <1>1. ASSUME Leave(p)
        PROVE  /\ Apart(p) /\ pc'[p] = "idle" /\ ~InPlay(copy'[p]) /\ mode'[p] = "apply"
               /\ \A q \in Process \ {p} : goal'[q] = goal[q]
               /\ \A g \in Graph : lease'[g] = Run => lease[g] = Run
    BY <1>1, FreedRun DEF Leave, Apart, TypeOK, InPlay, None
  <1>2. ASSUME Knows(p), checkpoint[Root].def # Part[goal[p]][Root]
        PROVE  /\ Apart(p) /\ pc'[p] = "plan" /\ ~InPlay(copy'[p]) /\ goal' = goal
               /\ mode'[p] = "apply"
               /\ copy'[p] = RootPlanned
               /\ \A g \in Graph : lease'[g] = Run => lease[g] = Run
    <2>1. /\ pc' = [pc EXCEPT ![p] = "plan"] /\ mode' = [mode EXCEPT ![p] = "apply"]
          /\ copy' = [copy EXCEPT ![p] = RootPlanned] /\ lease' = Freed(p)
          /\ UNCHANGED goal
      BY <1>2 DEF Knows, RootPlanned
    <2> QED BY <2>1, FreedRun, RootPlannedTyped, Parts DEF Apart, TypeOK, InPlay
  <1> QED BY <1>1, <1>2 DEF Knows, Finish

LEMMA EndsLedger ==
    ASSUME TypeOK, Ledger, NEW p \in Process, Ends(p) \/ Load(p)
    PROVE  Ledger'
  <1>1. /\ Leave(p) \/ Knows(p)
        /\ UNCHANGED <<checkpoint, journal, prepared, memory, made>>
    BY EndsLeave DEF Load, files
  <1>2. Stage(p)'
    BY <1>1, FinishMoves DEF Stage, InPlay
  <1> QED BY <1>1, <1>2, FinishMoves, QuietKeeps

LEMMA PlanLedger ==
    ASSUME TypeOK, Ledger, NEW p \in Process, Plan(p)
    PROVE  Ledger'
  <1>1. /\ UNCHANGED <<checkpoint, journal, prepared, memory, made, lease, mode>>
        /\ Apart(p) /\ pc'[p] = "collect" /\ copy'[p].phase = "planned"
    BY DEF Plan, files, Apart, TypeOK, None
  <1>2. pc[p] = "plan" /\ mode[p] = "apply"
    BY DEF Plan, Ledger, Stage
  <1>3. Stage(p)' /\ ~InPlay(copy'[p])
    BY <1>1, <1>2 DEF Stage, InPlay
  <1> QED BY <1>1, <1>3, QuietKeeps

LEMMA CollectMoves ==
    ASSUME TypeOK, NEW p \in Process, NEW g \in Graph, Collect(p, g),
           ~(unread[p] = {g} /\ Members(Collected(p, g)) = {})
    PROVE  /\ pc[p] = "collect" /\ pc'[p] \in {"collect", "lock"} /\ Apart(p)
           /\ UNCHANGED <<checkpoint, journal, prepared, memory, made, lease, goal, mode>>
           /\ copy'[p] = Collected(p, g)
           /\ pc'[p] = "lock" => Members(copy'[p]) # {}
  BY DEF Collect, Apart, TypeOK, files

LEMMA CollectLedger ==
    ASSUME TypeOK, Ledger, NEW p \in Process, NEW g \in Graph, Collect(p, g)
    PROVE  Ledger'
  <1>1. CASE unread[p] = {g} /\ Members(Collected(p, g)) = {}
    <2>1. Leave(p) /\ UNCHANGED <<checkpoint, journal, prepared, memory, made>>
      BY <1>1 DEF Collect, files
    <2>2. Stage(p)'
      BY <2>1, FinishMoves DEF Stage, InPlay, Leave, TypeOK
    <2> QED BY <2>1, <2>2, FinishMoves, QuietKeeps
  <1>2. CASE ~(unread[p] = {g} /\ Members(Collected(p, g)) = {})
    <2>1. ~InPlay(copy[p]) /\ mode[p] = "apply"
      BY <1>2, CollectMoves DEF Ledger, Stage
    <2>2. ~InPlay(copy'[p]) /\ copy'[p].phase = copy[p].phase
      BY <1>2, <2>1, CollectMoves, CollectedTyped DEF InPlay
    <2>3. Stage(p)'
      BY <1>2, <2>1, <2>2, CollectMoves DEF Stage, InPlay, Members
    <2> QED BY <1>2, <2>2, <2>3, CollectMoves, QuietKeeps
  <1> QED BY <1>1, <1>2

LEMMA LockLedger ==
    ASSUME TypeOK, Ledger, NEW p \in Process, NEW g \in Graph, Lock(p, g)
    PROVE  Ledger'
  <1>1. /\ UNCHANGED <<checkpoint, journal, prepared, memory, made, mode, copy>>
        /\ Apart(p) /\ pc[p] = "lock" /\ pc'[p] \in {"lock", "check"}
    BY DEF Lock, files, Apart, TypeOK
  <1>2. Stage(p)'
    BY <1>1 DEF Ledger, Stage, InPlay, Members
  <1>3. \A h \in Graph : lease'[h] = Run => lease[h] = Run
    BY HolderAssumption DEF Lock, TypeOK
  <1> QED BY <1>1, <1>2, <1>3, QuietKeeps

LEMMA ChecksLedger ==
    ASSUME TypeOK, Ledger, NEW p \in Process, Recover(p) \/ Check(p)
    PROVE  Ledger'
  <1>1. /\ UNCHANGED <<checkpoint, journal, prepared, memory, made, mode, copy, lease>>
        /\ Apart(p) /\ pc[p] = "check"
    BY DEF Recover, Check, files, Apart, TypeOK
  <1>2. Stage(p)'
    <2>1. CASE Check(p)
      BY <1>1, <2>1 DEF Check, Ledger, Stage, InPlay, Members, TypeOK
    <2>2. CASE Recover(p)
      <3>1. journal = copy[p] /\ mode[p] = "recover" /\ copy[p].phase \in {"preparing", "prepared"}
        BY <1>1, <2>2 DEF Recover, Ledger, Stage, InPlay
      <3>2. pc'[p] = IF copy[p].phase = "preparing" THEN "undo" ELSE "commit"
        BY <2>2 DEF Recover, TypeOK
      <3>3. journal.phase = "prepared" => Filed(copy[p])
        BY <3>1 DEF Ledger, OnDisk
      <3> QED BY <1>1, <3>1, <3>2, <3>3 DEF Stage, InPlay, Members, Filed
    <2> QED BY <2>1, <2>2
  <1> QED BY <1>1, <1>2, QuietKeeps

LEMMA PrepareLedger ==
    ASSUME TypeOK, Ledger, NEW p \in Process, Prepare(p)
    PROVE  Ledger'
  <1>1. /\ UNCHANGED <<checkpoint, journal, memory, made, pc, mode, copy, lease>>
        /\ Apart(p) /\ prepared \subseteq prepared' /\ pc[p] = "prepare"
    BY DEF Prepare, locals, Apart
  <1>2. Stage(p)'
    BY <1>1 DEF Ledger, Stage, InPlay
  <1> QED BY <1>1, <1>2, QuietKeeps

-----------------------------------------------------------------------------
(* The steps that remove files: of a transaction that is past, or of one    *)
(* that was never prepared.                                                 *)
LEMMA RemoveKeeps ==
    ASSUME TypeOK, Ledger, NEW p \in Process, Apart(p), NEW j \in Journals,
           UNCHANGED <<checkpoint, memory, made>>,
           prepared \ Files(j) \subseteq prepared',
           \A g \in Graph : lease'[g] = Run => lease[g] = Run,
           journal' = journal \/ journal' = None,
           ~InPlay(copy'[p]) \/ (copy'[p] = journal /\ journal' = journal),
           Stage(p)',
           Numbered(j), Alike(j, journal), \A q \in Process \ {p} : Alike(j, copy[q]),
           \/ InPlay(j) /\ Past(j)
           \/ /\ journal.phase = "prepared" => j.transaction # journal.transaction
              /\ \A q \in Process \ {p} : pc[q] = "commit" => j.transaction # copy[q].transaction,
           \A q \in Process \ {p} :
              pc[q] = "undo" /\ journal'.transaction = copy[q].transaction => journal'.phase = "preparing"
    PROVE  Ledger'
  <1>1. Onward /\ Dated'
    BY JournalTyped DEF Onward, Ledger, Dated
  <1>2. Numbered(journal)' /\ \A q \in Process : Numbered(copy[q])'
    <2>1. \A q \in Process \ {p} : Numbered(copy[q])'
      BY <1>1, NumberedKept DEF Apart
    <2>2. Numbered(journal)'
      BY <1>1, NumberedKept DEF Numbered, InPlay, None
    <2>3. Numbered(copy[p])'
      BY <2>2 DEF Numbered, Members, InPlay
    <2> QED BY <2>1, <2>2, <2>3
  <1>3. Agreed'
    <2>1. \A q \in Process \ {p} : Alike(journal, copy[q])' /\ Alike(copy[p], copy[q])'
      BY DEF Apart, Ledger, Agreed, Alike, InPlay, None
    <2>2. Alike(journal, copy[p])'
      BY DEF Alike, InPlay, None
    <2> QED BY <2>1, <2>2, AgreedKept
  <1>4. OnDisk'
    <2>1. ASSUME journal' = journal, journal.phase = "prepared" PROVE Filed(journal)'
      <3>1. \A g \in Members(journal) : checkpoint[g] = journal.participants[g].source
                                            => <<journal.transaction, g>> \in prepared'
        BY <2>1, JournalTyped, FilesKept DEF Ledger, OnDisk, InPlay
      <3> QED BY <2>1, <3>1 DEF Filed, Members
    <2> QED BY <2>1, NoneTyped DEF Ledger, OnDisk, Past, Members, None
  <1>5. \A q \in Process \ {p} : Stage(q)'
    <2>1. ASSUME NEW q \in Process \ {p}, pc[q] = "commit" PROVE Filed(copy[q])'
      <3>1. InPlay(copy[q]) /\ Filed(copy[q]) /\ Numbered(copy[q])
        BY <2>1 DEF Ledger, Stage, InPlay
      <3>2. \A g \in Members(copy[q]) : checkpoint[g] = copy[q].participants[g].source
                                            => <<copy[q].transaction, g>> \in prepared'
        BY <2>1, <3>1, JournalTyped, FilesKept
      <3> QED BY <3>2 DEF Filed, Members, Apart
    <2> QED BY <1>1, <2>1, StagesKept
  <1>6. Remembered'
    BY DEF Ledger, Remembered
  <1> QED BY <1>1, <1>2, <1>3, <1>4, <1>5, <1>6 DEF Ledger

LEMMA ApplyLedger ==
    ASSUME TypeOK, Ledger, NEW p \in Process, NEW d \in Target, Apply(p, d)
    PROVE  Ledger'
  <1>1. /\ UNCHANGED <<checkpoint, journal, lease, memory, made>>
        /\ Apart(p) /\ pc[p] = "idle" /\ ~InPlay(copy[p]) /\ mode[p] = "apply"
    BY DEF Apply, Apart, TypeOK, Ledger, Stage
  <1>2. \A q \in Process : Alike(journal, copy[q]) /\ (pc[q] = "undo" => Stage(q))
    BY DEF Ledger, Agreed
  <1>3. CASE Resolved(journal)
    <2>1. pc'[p] = "load" /\ mode' = mode /\ copy' = copy /\ Remove(Files(journal))
      BY <1>3 DEF Apply, TypeOK
    <2>2. prepared \ Files(journal) \subseteq prepared'
      BY <2>1 DEF Remove
    <2>3. Stage(p)' /\ ~InPlay(copy'[p])
      BY <1>1, <2>1 DEF Stage, InPlay
    <2>4. \/ InPlay(journal) /\ Past(journal)
          \/ journal.phase = "none"
      BY <1>3 DEF Resolved, InPlay, Ledger, OnDisk
    <2>5. CASE InPlay(journal) /\ Past(journal)
      BY <1>1, <1>2, <2>1, <2>2, <2>3, <2>5, JournalTyped, RemoveKeeps DEF Ledger, Alike, Stage
    <2>6. CASE journal.phase = "none" /\ Files(journal) = {}
      <3>1. prepared \subseteq prepared'
        BY <2>2, <2>6
      <3> QED BY <1>1, <2>1, <2>3, <3>1, QuietKeeps
    <2>7. journal.phase = "none" => Files(journal) = {}
      BY DEF Ledger, OnDisk, Files
    <2> QED BY <2>4, <2>5, <2>6, <2>7
  <1>4. CASE ~Resolved(journal)
    <2>1. /\ pc'[p] = "lock" /\ mode'[p] = "recover" /\ copy'[p] = journal /\ prepared' = prepared
          /\ InPlay(journal) /\ journal.phase # "committed"
      BY <1>4 DEF Apply, TypeOK, Resolved, InPlay, Journals, Phases
    <2>2. Stage(p)'
      BY <2>1 DEF Stage, Ledger, Numbered, InPlay, Members
    <2> QED BY <1>1, <2>1, <2>2, QuietKeeps
  <1> QED BY <1>3, <1>4

LEMMA CleanLedger ==
    ASSUME TypeOK, Ledger, NEW p \in Process, Clean(p)
    PROVE  Ledger'
  <1>1. /\ UNCHANGED <<checkpoint, journal, memory, made>> /\ Remove(Files(copy[p]))
        /\ Finish(p) /\ pc[p] = "clean"
    BY DEF Clean
  <1>2. /\ Apart(p) /\ ~InPlay(copy'[p]) /\ Stage(p)'
        /\ \A g \in Graph : lease'[g] = Run => lease[g] = Run
    BY <1>1, FinishMoves DEF Stage, InPlay
  <1>3. prepared \ Files(copy[p]) \subseteq prepared'
    BY <1>1 DEF Remove
  <1>4. InPlay(copy[p]) /\ Past(copy[p]) /\ Numbered(copy[p])
    BY <1>1 DEF Ledger, Stage, InPlay
  <1>5. Alike(copy[p], journal) /\ \A q \in Process \ {p} : Alike(copy[p], copy[q])
    BY DEF Ledger, Agreed, Alike
  <1>6. \A q \in Process \ {p} :
            pc[q] = "undo" /\ journal'.transaction = copy[q].transaction => journal'.phase = "preparing"
    BY <1>1 DEF Ledger, Stage
  <1> QED BY <1>1, <1>2, <1>3, <1>4, <1>5, <1>6, JournalTyped, RemoveKeeps

LEMMA DiscardLedger ==
    ASSUME TypeOK, Ledger, NEW p \in Process, Discard(p)
    PROVE  Ledger'
  <1>1. /\ UNCHANGED <<checkpoint, memory, made>> /\ Remove(Files(copy[p]))
        /\ Finish(p) /\ pc[p] = "undo" /\ (journal' = None \/ journal' = journal)
    BY DEF Discard
  <1>2. /\ Apart(p) /\ ~InPlay(copy'[p]) /\ Stage(p)'
        /\ \A g \in Graph : lease'[g] = Run => lease[g] = Run
    BY <1>1, FinishMoves DEF Stage, InPlay
  <1>3. prepared \ Files(copy[p]) \subseteq prepared'
    BY <1>1 DEF Remove
  <1>4. Numbered(copy[p]) /\ (journal.phase = "prepared" => copy[p].transaction # journal.transaction)
    BY <1>1 DEF Ledger, Stage
  <1>5. Alike(copy[p], journal) /\ \A q \in Process \ {p} : Alike(copy[p], copy[q])
    BY DEF Ledger, Agreed, Alike
  <1>6. \A q \in Process \ {p} : pc[q] = "commit" => copy[p].transaction # copy[q].transaction
    BY <1>1, OneCall
  <1>7. \A q \in Process \ {p} :
            pc[q] = "undo" /\ journal'.transaction = copy[q].transaction => journal'.phase = "preparing"
    <2>1. CASE journal' = journal
      BY <2>1 DEF Ledger, Stage
    <2>2. CASE journal' = None
      BY <2>2 DEF Ledger, Stage, Numbered, InPlay, None
    <2> QED BY <1>1, <2>1, <2>2
  <1> QED BY <1>1, <1>2, <1>3, <1>4, <1>5, <1>6, <1>7, JournalTyped, RemoveKeeps

-----------------------------------------------------------------------------
(* The steps that write the journal.                                        *)
LEMMA WriteKeeps ==
    ASSUME TypeOK, Ledger, NEW p \in Process, Apart(p),
           UNCHANGED <<checkpoint, memory, lease, prepared>>,
           made' \in Nat, made <= made',
           Numbered(journal)', InPlay(journal'), OnDisk',
           ~InPlay(copy[p])' \/ copy'[p].transaction = journal'.transaction,
           copy'[p].participants = journal'.participants,
           \/ journal'.transaction > made /\ ~InPlay(copy[p])
           \/ /\ InPlay(copy[p]) /\ pc[p] \in {"undo", "prepare", "commit", "clean"}
              /\ journal'.transaction = copy[p].transaction
              /\ journal'.participants = copy[p].participants,
           Stage(p)'
    PROVE  Ledger'
  <1>1. Onward /\ Dated'
    BY JournalTyped DEF Onward, Ledger, Dated
  <1>2. Numbered(copy[p])'
    BY DEF Numbered, Members
  <1>3. \A q \in Process \ {p} : Numbered(copy[q])'
    BY <1>1, NumberedKept DEF Apart
  <1>4. ASSUME NEW q \in Process \ {p}, InPlay(copy[q]), journal'.transaction = copy[q].transaction
        PROVE  /\ pc[q] \notin {"undo", "prepare", "commit", "clean"}
               /\ journal'.participants = copy[q].participants
    <2>1. copy[q].transaction \in Nat /\ copy[q].transaction <= made /\ made \in Nat
      BY <1>4, JournalTyped DEF Ledger, Numbered
    <2>2. InPlay(copy[p]) /\ pc[p] \in {"undo", "prepare", "commit", "clean"}
          /\ copy[p].transaction = copy[q].transaction /\ journal'.participants = copy[p].participants
      BY <1>4, <2>1
    <2> QED BY <1>4, <2>2, OneCall DEF Ledger, Agreed, Alike
  <1>5. Agreed'
    <2>1. \A q \in Process \ {p} : Alike(journal, copy[q])' /\ Alike(copy[p], copy[q])'
      BY <1>4 DEF Apart, Alike, InPlay
    <2>2. Alike(journal, copy[p])'
      BY DEF Alike
    <2> QED BY <2>1, <2>2, AgreedKept
  <1>6. \A q \in Process \ {p} : Stage(q)'
    <2>1. \A q \in Process \ {p} : pc[q] = "commit" => Filed(copy[q])'
      BY DEF Apart, Ledger, Stage, Filed, Members
    <2>2. \A q \in Process \ {p} : pc[q] = "undo" => InPlay(copy[q])
      BY DEF Ledger, Stage, InPlay
    <2> QED BY <1>1, <1>4, <2>1, <2>2, StagesKept
  <1>7. Remembered'
    BY DEF Ledger, Remembered
  <1> QED BY <1>1, <1>2, <1>3, <1>5, <1>6, <1>7 DEF Ledger

(* A transaction begins with what its members are under the leases.         *)
LEMMA BeginWrites ==
    ASSUME TypeOK, Ledger, NEW p \in Process, Begin(p)
    PROVE  /\ journal'.phase = "preparing" /\ journal'.transaction = made + 1
           /\ Members(journal') = Members(copy[p]) /\ Members(journal') # {}
           /\ \A g \in Members(journal') : /\ journal'.participants[g].source = checkpoint[g]
                                           /\ journal'.participants[g].target = Built(p, g)
           /\ copy'[p] = journal' /\ Apart(p) /\ pc[p] = "build" /\ pc'[p] = "prepare"
           /\ goal' = goal
  <1>1. /\ journal'.phase = "preparing" /\ journal'.transaction = made + 1
        /\ journal'.participants = [g \in Graph |->
              IF g \in Members(copy[p]) THEN [source |-> checkpoint[g], target |-> Built(p, g)]
                                        ELSE Out]
        /\ copy' = [copy EXCEPT ![p] = journal'] /\ goal' = goal
        /\ pc[p] = "build" /\ pc' = [pc EXCEPT ![p] = "prepare"] /\ mode' = mode
    BY DEF Begin
  <1>2. \A g \in Graph : [source |-> checkpoint[g], target |-> Built(p, g)] # Out
    BY BuiltTyped, OutAssumption
  <1>3. Members(journal') = Members(copy[p])
    BY <1>1, <1>2 DEF Members
  <1>4. Members(copy[p]) # {}
    BY <1>1 DEF Ledger, Stage
  <1>5. \A g \in Members(journal') : /\ journal'.participants[g].source = checkpoint[g]
                                     /\ journal'.participants[g].target = Built(p, g)
    BY <1>1, <1>3 DEF Members
  <1>6. copy'[p] = journal' /\ Apart(p) /\ pc'[p] = "prepare"
    BY <1>1 DEF Apart, TypeOK
  <1> QED BY <1>1, <1>3, <1>4, <1>5, <1>6

LEMMA BeginLedger ==
    ASSUME TypeOK, Ledger, NEW p \in Process, Begin(p)
    PROVE  Ledger'
  <1>1. UNCHANGED <<checkpoint, memory, lease, prepared>> /\ made' = made + 1
    BY DEF Begin
  <1>2. Numbered(journal)'
    <2>1. ASSUME NEW g \in Members(journal')
          PROVE  /\ journal'.participants[g].source.id < made + 1
                 /\ journal'.participants[g].source.id <= checkpoint[g].id
                 /\ journal'.participants[g].target.id = made + 1
                 /\ journal'.participants[g].target.base = journal'.participants[g].source.id
      <3>1. g \in Graph
        BY DEF Members
      <3>2. checkpoint[g].id <= made /\ checkpoint[g].id \in Nat /\ made \in Nat
        BY <3>1, JournalTyped DEF Ledger, Dated
      <3>3. /\ journal'.participants[g].source = checkpoint[g]
            /\ journal'.participants[g].target = Built(p, g)
        BY BeginWrites
      <3>4. Built(p, g).id = made + 1 /\ Built(p, g).base = checkpoint[g].id
        BY DEF Built
      <3> QED BY <3>2, <3>3, <3>4
    <2> QED BY <1>1, <2>1, BeginWrites, JournalTyped DEF Numbered, Members
  <1>3. OnDisk' /\ InPlay(journal')
    BY BeginWrites DEF OnDisk, InPlay
  <1>4. Stage(p)'
    BY BeginWrites DEF Stage, InPlay
  <1>5. ~InPlay(copy[p])
    BY BeginWrites DEF Ledger, Stage
  <1> QED BY <1>1, <1>2, <1>3, <1>4, <1>5, BeginWrites, JournalTyped, WriteKeeps

LEMMA PreparedWrites ==
    ASSUME TypeOK, Ledger, NEW p \in Process, Prepared(p)
    PROVE  /\ journal'.phase = "prepared" /\ copy'[p] = journal'
           /\ journal'.transaction = copy[p].transaction
           /\ journal'.participants = copy[p].participants
           /\ UNCHANGED <<checkpoint, memory, lease, prepared, made, goal>>
           /\ Apart(p) /\ pc[p] = "prepare" /\ pc'[p] = "commit" /\ InPlay(copy[p])
  <1>1. pc[p] = "prepare" /\ copy[p].phase = "preparing"
    BY DEF Prepared, Ledger, Stage
  <1> QED BY <1>1 DEF Prepared, Apart, TypeOK, Journals, InPlay

LEMMA PreparedLedger ==
    ASSUME TypeOK, Ledger, NEW p \in Process, Prepared(p)
    PROVE  Ledger'
  <1>1. Onward
    BY PreparedWrites, JournalTyped DEF Onward, Ledger, Dated
  <1>2. Numbered(journal)'
    BY PreparedWrites DEF Ledger, Numbered, Members, InPlay
  <1>3. Filed(copy[p])' /\ Filed(journal)'
    BY PreparedWrites DEF Prepared, Files, Filed, Members
  <1>4. OnDisk' /\ InPlay(journal')
    BY <1>3, PreparedWrites DEF OnDisk, InPlay
  <1>5. Stage(p)'
    BY <1>3, PreparedWrites DEF Stage, InPlay
  <1> QED BY <1>1, <1>2, <1>4, <1>5, PreparedWrites, WriteKeeps DEF Onward

LEMMA CommittedWrites ==
    ASSUME TypeOK, Ledger, NEW p \in Process, Committed(p)
    PROVE  /\ journal'.phase = "committed" /\ copy' = copy
           /\ journal'.transaction = copy[p].transaction
           /\ journal'.participants = copy[p].participants
           /\ UNCHANGED <<checkpoint, memory, lease, prepared, made, goal>>
           /\ Apart(p) /\ pc[p] = "commit" /\ pc'[p] = "clean"
           /\ InPlay(copy[p]) /\ copy[p].phase = "prepared"
  <1>1. pc[p] = "commit" /\ copy[p].phase = "prepared"
    BY DEF Committed, Ledger, Stage
  <1> QED BY <1>1 DEF Committed, Apart, TypeOK, Journals, InPlay

LEMMA CommittedLedger ==
    ASSUME TypeOK, Ledger, NEW p \in Process, Committed(p)
    PROVE  Ledger'
  <1>1. Onward
    BY CommittedWrites, JournalTyped DEF Onward, Ledger, Dated
  <1>2. Numbered(journal)'
    BY CommittedWrites DEF Ledger, Numbered, Members, InPlay
  <1>3. Past(copy[p])
    <2>1. ASSUME NEW g \in Members(copy[p])
          PROVE  copy[p].participants[g].source.id < checkpoint[g].id
      <3>1. checkpoint[g] = copy[p].participants[g].target
        BY DEF Committed, Arrived
      <3> QED BY <3>1, CommittedWrites DEF Ledger, Numbered
    <2> QED BY <2>1 DEF Past
  <1>4. Past(copy[p])' /\ Past(journal)'
    BY <1>3, CommittedWrites DEF Past, Members
  <1>5. OnDisk' /\ InPlay(journal')
    BY <1>4, CommittedWrites DEF OnDisk, InPlay
  <1>6. Stage(p)'
    BY <1>4, CommittedWrites DEF Stage, InPlay
  <1> QED BY <1>1, <1>2, <1>5, <1>6, CommittedWrites, WriteKeeps DEF Onward

-----------------------------------------------------------------------------
(* The steps that save a checkpoint.                                        *)
LEMMA SaveKeeps ==
    ASSUME TypeOK, Ledger, UNCHANGED <<journal, prepared, pc, mode, copy>>, NEW g \in Graph,
           \A h \in Graph \ {g} : checkpoint'[h] = checkpoint[h],
           Onward, checkpoint[g].id < checkpoint'[g].id, Remembered'
    PROVE  Ledger'
  <1>1. Dated' /\ Numbered(journal)' /\ \A q \in Process : Numbered(copy[q])'
    BY NumberedKept DEF Onward, Dated
  <1>2. ASSUME NEW j \in Journals, Numbered(j), InPlay(j)
        PROVE  /\ Filed(j) => \A h \in Members(j) :
                     checkpoint'[h] = j.participants[h].source => <<j.transaction, h>> \in prepared
               /\ Past(j) => \A h \in Members(j) : j.participants[h].source.id < checkpoint'[h].id
    <2>1. ASSUME NEW h \in Members(j), checkpoint'[h] = j.participants[h].source, Filed(j)
          PROVE  <<j.transaction, h>> \in prepared
      <3>1. h # g
        <4>1. g = h => /\ j.participants[g].source.id \in Nat
                       /\ checkpoint[g].id \in Nat /\ checkpoint'[g].id \in Nat
          BY MemberTyped, JournalTyped DEF Onward
        <4>2. g = h => j.participants[g].source.id <= checkpoint[g].id
          BY <1>2 DEF Numbered
        <4> QED BY <2>1, <4>1, <4>2
      <3> QED BY <2>1, <3>1 DEF Filed, Members
    <2>2. ASSUME NEW h \in Members(j), Past(j)
          PROVE  j.participants[h].source.id < checkpoint'[h].id
      BY <2>2, MemberTyped, JournalTyped DEF Past, Onward
    <2> QED BY <2>1, <2>2
  <1>3. Agreed'
    BY DEF Ledger, Agreed, Alike, InPlay
  <1>4. OnDisk'
    BY <1>2, JournalTyped DEF Ledger, OnDisk, InPlay, Filed, Past, Members
  <1>5. ASSUME NEW q \in Process PROVE Stage(q)'
    <2>1. pc[q] = "commit" => Filed(copy[q])'
      BY <1>2, JournalTyped DEF Ledger, Stage, InPlay, Filed, Members
    <2>2. pc[q] = "clean" => Past(copy[q])'
      BY <1>2, JournalTyped DEF Ledger, Stage, InPlay, Past, Members
    <2> QED BY <2>1, <2>2 DEF Ledger, Stage, InPlay, Members
  <1> QED BY <1>1, <1>3, <1>4, <1>5 DEF Ledger

LEMMA CommitSaves ==
    ASSUME TypeOK, Ledger, NEW p \in Process, NEW g \in Members(copy[p]), Commit(p, g)
    PROVE  /\ g \in Graph /\ lease[g] = p /\ pc[p] = "commit"
           /\ UNCHANGED <<journal, prepared, lease, pc, mode, goal, copy, memory, made>>
           /\ \A h \in Graph \ {g} : checkpoint'[h] = checkpoint[h]
           /\ checkpoint'[g] = copy[p].participants[g].target
           /\ checkpoint'[g].base = checkpoint[g].id
           /\ checkpoint[g].id < checkpoint'[g].id /\ checkpoint'[g].id \in Nat
           /\ checkpoint'[g].id <= made
  <1>1. /\ pc[p] = "commit" /\ checkpoint[g] = copy[p].participants[g].source
        /\ checkpoint' = [checkpoint EXCEPT ![g] = copy[p].participants[g].target]
        /\ UNCHANGED <<journal, prepared, lease, pc, mode, goal, copy, memory, made>>
    BY DEF Commit, Awaits, Loads, locals
  <1>2. g \in Graph /\ lease[g] = p
    BY <1>1 DEF TypeOK, Members, Held
  <1>3. Numbered(copy[p]) /\ InPlay(copy[p])
    BY <1>1 DEF Ledger, Stage, InPlay
  <1>4. /\ checkpoint'[g] = copy[p].participants[g].target
        /\ \A h \in Graph \ {g} : checkpoint'[h] = checkpoint[h]
    BY <1>1, <1>2 DEF TypeOK
  <1> QED BY <1>1, <1>2, <1>3, <1>4 DEF Numbered

LEMMA CommitLedger ==
    ASSUME TypeOK, Ledger, NEW p \in Process, NEW g \in Members(copy[p]), Commit(p, g)
    PROVE  Ledger'
  <1>1. Onward
    <2>1. \A h \in Graph : checkpoint[h].id \in Nat /\ checkpoint[h].id <= made
      BY JournalTyped DEF Ledger, Dated
    <2>2. made' = made /\ made \in Nat
      BY CommitSaves, JournalTyped
    <2>3. ASSUME NEW h \in Graph PROVE /\ checkpoint'[h].id \in Nat /\ checkpoint[h].id <= checkpoint'[h].id
                                       /\ checkpoint'[h].id <= made
      <3>1. CASE h = g
        BY <2>1, <3>1, CommitSaves
      <3>2. CASE h # g
        BY <2>1, <3>2, CommitSaves
      <3> QED BY <3>1, <3>2
    <2> QED BY <2>2, <2>3 DEF Onward
  <1>2. Remembered'
    BY CommitSaves, HolderAssumption DEF Ledger, Remembered
  <1> QED BY <1>1, <1>2, CommitSaves, SaveKeeps

LEMMA OthersSave ==
    ASSUME TypeOK, Ledger, NEW g \in Graph, Others(g)
    PROVE  /\ UNCHANGED <<journal, prepared, pc, mode, goal, copy>> /\ made' = made + 1
           /\ \A h \in Graph \ {g} : checkpoint'[h] = checkpoint[h]
           /\ checkpoint'[g].id = made + 1 /\ checkpoint'[g].base = checkpoint[g].id
           /\ checkpoint'[g].def = checkpoint[g].def
  <1>1. UNCHANGED <<journal, prepared, pc, mode, goal, copy>>
    BY DEF Others, SetPriority, Resume, Settle, locals
  <1>2. \/ Save(g, checkpoint[g].id, checkpoint[g].running)
        \/ Save(g, checkpoint[g].id, TRUE)
        \/ Save(g, memory[g], FALSE) /\ lease[g] = Run
    BY DEF Others, SetPriority, Resume, Settle
  <1>3. PICK running : Save(g, checkpoint[g].id, running)
    BY <1>2 DEF Ledger, Remembered
  <1> QED BY <1>1, <1>3 DEF Save, TypeOK, Checkpoints

LEMMA OthersLedger ==
    ASSUME TypeOK, Ledger, NEW g \in Graph, Others(g)
    PROVE  Ledger'
  <1>1. \A h \in Graph : checkpoint[h].id \in Nat /\ checkpoint[h].id <= made /\ made \in Nat
    BY JournalTyped DEF Ledger, Dated
  <1>2. Onward /\ checkpoint[g].id < checkpoint'[g].id
    <2>1. ASSUME NEW h \in Graph PROVE /\ checkpoint'[h].id \in Nat /\ checkpoint[h].id <= checkpoint'[h].id
                                       /\ checkpoint'[h].id <= made + 1
      <3>1. CASE h = g
        BY <1>1, <3>1, OthersSave
      <3>2. CASE h # g
        BY <1>1, <3>2, OthersSave
      <3> QED BY <3>1, <3>2
    <2> QED BY <1>1, <2>1, OthersSave DEF Onward
  <1>3. Remembered'
    <2>1. CASE SetPriority(g)
      BY <2>1, OthersSave, HolderAssumption DEF SetPriority, Ledger, Remembered
    <2>2. CASE Resume(g)
      BY <2>2, OthersSave DEF Resume, Ledger, Remembered, TypeOK
    <2>3. CASE Settle(g)
      BY <2>3, OthersSave, HolderAssumption DEF Settle, Ledger, Remembered, TypeOK
    <2> QED BY <2>1, <2>2, <2>3 DEF Others
  <1> QED BY <1>2, <1>3, OthersSave, SaveKeeps

LEMMA StillLedger ==
    ASSUME TypeOK, Ledger, UNCHANGED <<checkpoint, journal, prepared, pc, mode, copy, made>>, Remembered'
    PROVE  Ledger'
  <1>1. Onward /\ Dated'
    BY JournalTyped DEF Onward, Ledger, Dated
  <1>2. Numbered(journal)' /\ \A q \in Process : Numbered(copy[q])'
    BY <1>1, NumberedKept
  <1>3. Agreed' /\ OnDisk'
    BY DEF Ledger, Agreed, OnDisk, Alike, InPlay, Filed, Past, Members
  <1>4. \A q \in Process : Stage(q)'
    BY DEF Ledger, Stage, InPlay, Filed, Past, Members
  <1> QED BY <1>1, <1>2, <1>3, <1>4 DEF Ledger

LEMMA DieLedger ==
    ASSUME TypeOK, Ledger, Die
    PROVE  Ledger'
  <1>1. UNCHANGED <<checkpoint, journal, prepared, pc, mode, copy, made>>
    BY DEF Die, files, locals
  <1>2. Remembered'
    BY HolderAssumption DEF Die, Freed, TypeOK, Remembered
  <1> QED BY <1>1, <1>2, StillLedger

-----------------------------------------------------------------------------
(* The second invariant, while no transaction has begun whose plan was out  *)
(* of date.  The tree is at a definition;                                   *)
At(e) == \A g \in Graph : checkpoint[g].def = Part[e][g]

(* a journal goes from the definition e to the definition d;                *)
Brings(j, e, d) ==
    /\ e # d
    /\ Members(j) = {g \in Graph : Part[e][g] # Part[d][g]}
    /\ \A g \in Members(j) : j.participants[g].target.def = Part[d][g]

(* the tree is between e and d, and the root is the last to change.         *)
Between(e, d) ==
    /\ \A g \in Graph : checkpoint[g].def \in {Part[e][g], Part[d][g]}
    /\ checkpoint[Root].def = Part[d][Root] => At(d)

(* What the journal says of the checkpoints,                                *)
Settled == Resolved(journal) => \E e \in Target : At(e)
Underway ==
    ~Resolved(journal) => \E e, d \in Target :
        /\ Brings(journal, e, d) /\ Between(e, d)
        /\ journal.phase = "preparing" => At(e)
Recorded == Settled /\ Underway

(* and a call of the journal.  A call that is about to begin beside a       *)
(* transaction has none of its leases.                                      *)
Called(p) ==
    /\ pc[p] \in {"lock", "check"} /\ mode[p] = "recover" => Root \in Members(copy[p])
    /\ pc[p] = "build" /\ ~Resolved(journal) => Members(copy[p]) \intersect Members(journal) = {}
    /\ pc[p] \in {"undo", "prepare", "commit"} => journal = copy[p]

TreeInv == Recorded /\ \A p \in Process : Called(p)

-----------------------------------------------------------------------------
LEMMA RootBrings ==
    ASSUME NEW j, NEW e \in Target, NEW d \in Target, Brings(j, e, d)
    PROVE  Root \in Members(j)
  BY TreeAssumption DEF Brings

LEMMA RootOwns ==
    ASSUME NEW e \in Target, checkpoint[Root].def = Part[e][Root]
    PROVE  \A g \in Graph : Owned(g) = Part[e][g]
  <1>1. (CHOOSE d \in Target : Part[d][Root] = checkpoint[Root].def) = e
    BY TreeAssumption
  <1> QED BY <1>1 DEF Owned

(* At most one call is at work on a journal, for it has the root's lease.   *)
LEMMA Alone ==
    ASSUME TypeOK, Ledger, TreeInv, NEW p \in Process, NEW q \in Process,
           pc[p] \in {"undo", "prepare", "commit"}, pc[q] \in {"undo", "prepare", "commit"}
    PROVE  p = q
  BY OneCall DEF TreeInv, Called

(* A step of one call that leaves the journal.                              *)
LEMMA CallsKept ==
    ASSUME TypeOK, TreeInv, NEW p \in Process, Apart(p), journal' = journal, Called(p)'
    PROVE  \A q \in Process : Called(q)'
  BY DEF Apart, TreeInv, Called, Resolved, Members

(* A step of the call that is at work on the journal.                       *)
LEMMA CallsWrite ==
    ASSUME TypeOK, Ledger, TreeInv, NEW p \in Process, Apart(p), Called(p)',
           \/ pc[p] \in {"undo", "prepare", "commit"}
           \/ \A q \in Process : pc[q] \notin {"undo", "prepare", "commit"},
           Resolved(journal') \/ Members(journal') = Held(p)
    PROVE  \A q \in Process : Called(q)'
  <1> SUFFICES ASSUME NEW q \in Process \ {p} PROVE Called(q)'
    OBVIOUS
  <1>1. pc'[q] = pc[q] /\ mode'[q] = mode[q] /\ copy'[q] = copy[q] /\ Called(q)
    BY DEF Apart, TreeInv
  <1>2. pc[q] \notin {"undo", "prepare", "commit"}
    BY Alone
  <1>3. pc[q] = "build" => Members(copy[q]) = Held(q)
    BY DEF TypeOK
  <1>4. Held(p) \intersect Held(q) = {}
    BY DEF Held
  <1> QED BY <1>1, <1>2, <1>3, <1>4 DEF Called, Resolved, Members

(* A step that changes no definition and leaves the journal.                *)
LEMMA TreeKept ==
    ASSUME Recorded, journal' = journal, \A g \in Graph : checkpoint'[g].def = checkpoint[g].def
    PROVE  Recorded'
  <1>1. \A e : At(e) => At(e)'
    BY DEF At
  <1>2. \A e, d : Brings(journal, e, d) => Brings(journal, e, d)'
    BY DEF Brings, Members
  <1>3. \A e, d : Between(e, d) => Between(e, d)'
    BY <1>1, TreeAssumption DEF Between
  <1> QED BY <1>1, <1>2, <1>3 DEF Recorded, Settled, Underway, Resolved

(* A step that leaves journal and checkpoints, and brings its call nowhere  *)
(* near the journal.                                                        *)
LEMMA QuietTree ==
    ASSUME TypeOK, TreeInv, NEW p \in Process, Apart(p), UNCHANGED <<journal, checkpoint>>, Called(p)'
    PROVE  TreeInv'
  BY CallsKept, TreeKept DEF TreeInv

LEMMA EndsTree ==
    ASSUME TypeOK, TreeInv, NEW p \in Process, Ends(p) \/ Load(p) \/ Clean(p)
    PROVE  TreeInv'
  <1>1. /\ Leave(p) \/ Knows(p) \/ Finish(p)
        /\ UNCHANGED <<checkpoint, journal>>
    BY EndsLeave DEF Load, Clean, files
  <1>2. Called(p)'
    BY <1>1, FinishMoves DEF Called
  <1> QED BY <1>1, <1>2, FinishMoves, QuietTree

LEMMA ApplyTree ==
    ASSUME TypeOK, Ledger, TreeInv, NEW p \in Process, NEW d \in Target, Apply(p, d)
    PROVE  TreeInv'
  <1>1. UNCHANGED <<checkpoint, journal>> /\ Apart(p)
    BY DEF Apply, Apart, TypeOK
  <1>2. Called(p)'
    <2>1. CASE Resolved(journal)
      BY <2>1 DEF Apply, Called, TypeOK
    <2>2. CASE ~Resolved(journal)
      <3>1. Root \in Members(journal)
        BY <2>2 DEF Apply, Readable, Resolved
      <3>2. copy'[p] = journal /\ pc'[p] = "lock" /\ mode'[p] = "recover"
        BY <2>2 DEF Apply, TypeOK
      <3> QED BY <3>1, <3>2 DEF Called, Members
    <2> QED BY <2>1, <2>2
  <1> QED BY <1>1, <1>2, QuietTree

LEMMA PlanTree ==
    ASSUME TypeOK, TreeInv, NEW p \in Process, Plan(p)
    PROVE  TreeInv'
  <1>1. UNCHANGED <<checkpoint, journal>> /\ Apart(p) /\ Called(p)'
    BY DEF Plan, files, Apart, Called, TypeOK
  <1> QED BY <1>1, QuietTree

LEMMA CollectTree ==
    ASSUME TypeOK, Ledger, TreeInv, NEW p \in Process, NEW g \in Graph, Collect(p, g)
    PROVE  TreeInv'
  <1>1. CASE unread[p] = {g} /\ Members(Collected(p, g)) = {}
    <2>1. Leave(p) /\ UNCHANGED <<checkpoint, journal>>
      BY <1>1 DEF Collect, files
    <2>2. Called(p)'
      BY <2>1, FinishMoves DEF Called
    <2> QED BY <2>1, <2>2, FinishMoves, QuietTree
  <1>2. CASE ~(unread[p] = {g} /\ Members(Collected(p, g)) = {})
    <2>1. mode'[p] = "apply" /\ pc'[p] \in {"collect", "lock"}
      BY <1>2, CollectMoves DEF Ledger, Stage
    <2>2. Called(p)'
      BY <2>1 DEF Called
    <2> QED BY <1>2, <2>2, CollectMoves, QuietTree
  <1> QED BY <1>1, <1>2

LEMMA LockTree ==
    ASSUME TypeOK, TreeInv, NEW p \in Process, NEW g \in Graph, Lock(p, g)
    PROVE  TreeInv'
  <1>1. /\ UNCHANGED <<checkpoint, journal, mode, copy>> /\ Apart(p)
        /\ pc[p] = "lock" /\ pc'[p] \in {"lock", "check"}
    BY DEF Lock, files, Apart, TypeOK
  <1>2. Called(p)'
    BY <1>1 DEF TreeInv, Called, Members
  <1> QED BY <1>1, <1>2, QuietTree

LEMMA ChecksTree ==
    ASSUME TypeOK, TreeInv, NEW p \in Process, Recover(p) \/ Check(p)
    PROVE  TreeInv'
  <1>1. /\ UNCHANGED <<checkpoint, journal, mode, copy>> /\ Apart(p)
        /\ \/ pc'[p] = "build" /\ Resolved(journal)
           \/ pc'[p] \in {"undo", "commit"} /\ journal = copy[p]
    BY DEF Recover, Check, files, Apart, TypeOK
  <1>2. Called(p)'
    BY <1>1 DEF Called, Resolved
  <1> QED BY <1>1, <1>2, QuietTree

LEMMA PrepareTree ==
    ASSUME TypeOK, TreeInv, NEW p \in Process, Prepare(p)
    PROVE  TreeInv'
  <1>1. UNCHANGED <<checkpoint, journal, pc, mode, copy>> /\ Apart(p)
    BY DEF Prepare, locals, Apart
  <1>2. Called(p)'
    BY <1>1 DEF TreeInv, Called, Members, Resolved
  <1> QED BY <1>1, <1>2, QuietTree

LEMMA DiscardTree ==
    ASSUME TypeOK, Ledger, TreeInv, NEW p \in Process, Discard(p)
    PROVE  TreeInv'
  <1>1. /\ UNCHANGED checkpoint /\ Finish(p) /\ pc[p] = "undo"
        /\ (journal' = None \/ journal' = journal)
    BY DEF Discard
  <1>2. journal = copy[p] /\ journal.phase = "preparing"
    BY <1>1 DEF TreeInv, Called, Ledger, Stage
  <1>3. Apart(p) /\ Called(p)'
    BY <1>1, FinishMoves DEF Called
  <1>4. CASE journal' = journal
    BY <1>1, <1>3, <1>4, QuietTree
  <1>5. CASE journal' = None
    <2>1. PICK e \in Target : At(e)
      BY <1>2 DEF TreeInv, Recorded, Underway, Resolved
    <2>2. At(e)' /\ Resolved(journal')
      BY <1>1, <1>5, <2>1 DEF At, Resolved, None
    <2>3. Recorded'
      BY <2>2 DEF Recorded, Settled, Underway, Resolved
    <2>4. \A q \in Process : Called(q)'
      BY <1>1, <1>3, <2>2, CallsWrite
    <2> QED BY <2>3, <2>4 DEF TreeInv
  <1> QED BY <1>1, <1>4, <1>5

(* A transaction whose plan is still what its target changes has the root:  *)
(* what is being changed by another one is not among its members, and       *)
(* without the root nothing else is left to change.                         *)
LEMMA PlanFits ==
    ASSUME TypeOK, Ledger, TreeInv, NEW p \in Process, Begin(p),
           Members(copy[p]) = {g \in Graph : Changed(p, g)}
    PROVE  \E e \in Target :
              /\ Resolved(journal) /\ At(e) /\ e # goal[p]
              /\ Members(copy[p]) = {g \in Graph : Part[e][g] # Part[goal[p]][g]}
  <1>1. goal[p] \in Target /\ pc[p] = "build" /\ Members(copy[p]) # {}
    BY DEF TypeOK, Begin, Ledger, Stage
  <1>2. CASE Resolved(journal)
    <2>1. PICK e \in Target : At(e)
      BY <1>2 DEF TreeInv, Recorded, Settled
    <2>2. Members(copy[p]) = {g \in Graph : Part[e][g] # Part[goal[p]][g]}
      BY <2>1 DEF Changed, At
    <2> QED BY <1>1, <1>2, <2>1, <2>2
  <1>3. CASE ~Resolved(journal)
    <2>1. PICK s \in Target, t \in Target : Brings(journal, s, t) /\ Between(s, t)
      BY <1>3 DEF TreeInv, Recorded, Underway
    <2>2. Members(copy[p]) \intersect Members(journal) = {}
      BY <1>1, <1>3 DEF TreeInv, Called
    <2>3. Root \in Members(journal)
      BY <2>1, RootBrings
    <2>4. checkpoint[Root].def = Part[goal[p]][Root]
      BY <2>2, <2>3, TreeAssumption DEF Changed
    <2>5. checkpoint[Root].def = Part[s][Root] \/ At(t)
      BY <2>1, TreeAssumption DEF Between
    <2>6. CASE At(t)
      <3>1. goal[p] = t
        BY <1>1, <2>4, <2>6, TreeAssumption DEF At
      <3> QED BY <1>1, <2>6, <3>1 DEF Changed, At
    <2>7. CASE checkpoint[Root].def = Part[s][Root]
      <3>1. goal[p] = s
        BY <1>1, <2>4, <2>7, TreeAssumption
      <3>2. PICK g \in Graph : g \in Members(copy[p]) /\ Changed(p, g)
        BY <1>1
      <3>3. g \in Members(journal)
        BY <2>1, <3>1, <3>2 DEF Changed, Between, Brings
      <3> QED BY <2>2, <3>2, <3>3
    <2> QED BY <2>5, <2>6, <2>7
  <1> QED BY <1>2, <1>3

LEMMA BeginTree ==
    ASSUME TypeOK, Ledger, TreeInv, NEW p \in Process, Begin(p), ~outdated'
    PROVE  TreeInv'
  <1>1. Members(copy[p]) = {g \in Graph : Changed(p, g)}
    BY DEF Begin
  <1>2. PICK e \in Target :
            /\ Resolved(journal) /\ At(e) /\ e # goal[p]
            /\ Members(copy[p]) = {g \in Graph : Part[e][g] # Part[goal[p]][g]}
    BY <1>1, PlanFits
  <1>3. goal[p] \in Target /\ UNCHANGED checkpoint
    BY DEF TypeOK, Begin
  <1>4. Brings(journal, e, goal[p])' /\ At(e)'
    <2>1. \A g \in Members(journal') : journal'.participants[g].target.def = Part[goal[p]][g]
      <3> SUFFICES ASSUME NEW g \in Members(journal')
                   PROVE  journal'.participants[g].target.def = Part[goal[p]][g]
        OBVIOUS
      <3>1. journal'.participants[g].target = Built(p, g)
        BY BeginWrites
      <3>2. Built(p, g).def = Part[goal[p]][g]
        BY DEF Built
      <3> QED BY <3>1, <3>2
    <2>2. Members(journal') = {g \in Graph : Part[e][g] # Part[goal[p]][g]} /\ goal' = goal
      BY <1>2, BeginWrites
    <2> QED BY <1>2, <1>3, <2>1, <2>2 DEF Brings, At, Members
  <1>5. Between(e, goal[p])'
    <2>1. Part[e][Root] # Part[goal[p]][Root]
      BY <1>2, <1>3, TreeAssumption
    <2> QED BY <1>2, <1>3, <2>1, BeginWrites, TreeAssumption DEF Between, At
  <1>6. Recorded'
    <2>1. ~Resolved(journal')
      BY BeginWrites DEF Resolved
    <2>2. goal'[p] \in Target
      BY <1>3, BeginWrites
    <2> QED BY <1>4, <1>5, <2>1, <2>2 DEF Recorded, Settled, Underway, Resolved
  <1>7. \A q \in Process : Called(q)'
    <2>1. ASSUME NEW q \in Process, pc[q] \in {"undo", "prepare", "commit"} PROVE FALSE
      <3>1. journal = copy[q] /\ copy[q].phase \in {"preparing", "prepared"}
        BY <2>1 DEF TreeInv, Called, Ledger, Stage
      <3> QED BY <1>2, <3>1 DEF Resolved
    <2>2. Members(journal') = Held(p)
      BY BeginWrites DEF TypeOK
    <2>3. Called(p)'
      BY BeginWrites DEF Called
    <2> QED BY <2>1, <2>2, <2>3, BeginWrites, CallsWrite
  <1> QED BY <1>6, <1>7 DEF TreeInv

LEMMA PreparedTree ==
    ASSUME TypeOK, Ledger, TreeInv, NEW p \in Process, Prepared(p)
    PROVE  TreeInv'
  <1>1. journal = copy[p] /\ journal.phase = "preparing"
    BY PreparedWrites DEF TreeInv, Called, Ledger, Stage
  <1>2. PICK e \in Target, d \in Target : Brings(journal, e, d) /\ Between(e, d)
    BY <1>1 DEF TreeInv, Recorded, Underway, Resolved
  <1>3. Brings(journal, e, d)' /\ Between(e, d)'
    BY <1>1, <1>2, PreparedWrites, TreeAssumption DEF Brings, Between, At, Members
  <1>4. Recorded'
    <2>1. journal'.phase = "prepared"
      BY PreparedWrites
    <2> QED BY <1>3, <2>1 DEF Recorded, Settled, Underway, Resolved
  <1>5. Members(journal') = Held(p)
    BY PreparedWrites DEF TypeOK, Members
  <1>6. Called(p)'
    BY PreparedWrites DEF Called
  <1>7. \A q \in Process : Called(q)'
    BY <1>5, <1>6, PreparedWrites, CallsWrite
  <1> QED BY <1>4, <1>7 DEF TreeInv

LEMMA CommittedTree ==
    ASSUME TypeOK, Ledger, TreeInv, NEW p \in Process, Committed(p)
    PROVE  TreeInv'
  <1>1. journal = copy[p] /\ journal.phase = "prepared"
    BY CommittedWrites DEF TreeInv, Called
  <1>2. PICK e \in Target, d \in Target : Brings(journal, e, d) /\ Between(e, d)
    BY <1>1 DEF TreeInv, Recorded, Underway, Resolved
  <1>3. Root \in Members(journal)
    BY <1>2, RootBrings
  <1>4. At(d)'
    BY <1>1, <1>2, <1>3 DEF Committed, Arrived, Brings, Between, At
  <1>5. Recorded' /\ Resolved(journal')
    BY <1>4, CommittedWrites DEF Recorded, Settled, Underway, Resolved
  <1>6. Called(p)'
    BY CommittedWrites DEF Called
  <1>7. \A q \in Process : Called(q)'
    BY <1>5, <1>6, CommittedWrites, CallsWrite
  <1> QED BY <1>5, <1>7 DEF TreeInv

(* The root commits when the rest has arrived.                              *)
LEMMA CommitTree ==
    ASSUME TypeOK, Ledger, TreeInv, NEW p \in Process, NEW g \in Members(copy[p]), Commit(p, g)
    PROVE  TreeInv'
  <1>1. journal = copy[p] /\ journal.phase = "prepared"
    BY CommitSaves DEF TreeInv, Called, Ledger, Stage
  <1>2. PICK e \in Target, d \in Target : Brings(journal, e, d) /\ Between(e, d)
    BY <1>1 DEF TreeInv, Recorded, Underway, Resolved
  <1>3. checkpoint'[g].def = Part[d][g]
    BY <1>1, <1>2, CommitSaves DEF Brings
  <1>4. Brings(journal, e, d)'
    BY <1>2, CommitSaves DEF Brings, Members
  <1>5. Between(e, d)'
    <2>1. CASE g = Root
      <3>1. \A h \in Members(journal) \ {Root} : checkpoint[h].def = Part[d][h]
        <4> SUFFICES ASSUME NEW h \in Members(journal) \ {Root}
                     PROVE  checkpoint[h].def = Part[d][h]
          OBVIOUS
        <4>1. Turn[h] < Turn[Root]
          <5>1. h \in Graph /\ h # Root
            BY DEF Members
          <5>2. Turn[h] \in Nat /\ Turn[Root] \in Nat /\ Turn[h] <= Turn[Root] /\ Turn[h] # Turn[Root]
            BY <5>1, TreeAssumption, OrderAssumption
          <5> QED BY <5>2
        <4>2. Arrived(p, h)
          BY <1>1, <2>1, <4>1 DEF Commit, Awaits
        <4> QED BY <1>1, <1>2, <4>2 DEF Arrived, Brings
      <3>2. \A h \in Graph \ Members(journal) : checkpoint[h].def = Part[d][h]
        BY <1>2 DEF Brings, Between
      <3> QED BY <1>3, <2>1, <3>1, <3>2, CommitSaves DEF Between, At
    <2>2. CASE g # Root
      <3>1. \A h \in Graph : checkpoint'[h].def \in {Part[e][h], Part[d][h]}
        BY <1>2, <1>3, CommitSaves DEF Between
      <3>2. checkpoint'[Root] = checkpoint[Root]
        BY <2>2, CommitSaves, TreeAssumption
      <3>3. At(d) => At(d)'
        BY <1>3, CommitSaves DEF At
      <3> QED BY <1>2, <3>1, <3>2, <3>3 DEF Between
    <2> QED BY <2>1, <2>2
  <1>6. Recorded'
    <2>1. journal' = journal
      BY CommitSaves
    <2> QED BY <1>1, <1>4, <1>5, <2>1 DEF Recorded, Settled, Underway, Resolved
  <1>7. \A q \in Process : Called(q)'
    BY CommitSaves DEF TreeInv, Called, Members, Resolved
  <1> QED BY <1>6, <1>7 DEF TreeInv

LEMMA OthersTree ==
    ASSUME TypeOK, Ledger, TreeInv, NEW g \in Graph, Others(g)
    PROVE  TreeInv'
  <1>1. \A h \in Graph : checkpoint'[h].def = checkpoint[h].def
    BY OthersSave
  <1>2. Recorded'
    BY <1>1, OthersSave, TreeKept DEF TreeInv
  <1>3. \A q \in Process : Called(q)'
    BY OthersSave DEF TreeInv, Called, Members, Resolved
  <1> QED BY <1>2, <1>3 DEF TreeInv

LEMMA StillTree ==
    ASSUME TreeInv, UNCHANGED <<checkpoint, journal, pc, mode, copy>>
    PROVE  TreeInv'
  <1>1. Recorded'
    BY TreeKept DEF TreeInv
  <1>2. \A q \in Process : Called(q)'
    BY DEF TreeInv, Called, Members, Resolved
  <1> QED BY <1>1, <1>2 DEF TreeInv

-----------------------------------------------------------------------------
TreeOK == outdated \/ TreeInv

LEMMA InitHolds == Init => TypeOK /\ Ledger /\ TreeOK
  <1> SUFFICES ASSUME Init PROVE TypeOK /\ Ledger /\ TreeInv
    BY DEF TreeOK
  <1>1. journal = None /\ \A p \in Process : copy[p] = None /\ pc[p] = "idle" /\ mode[p] = "apply"
    BY DEF Init
  <1>2. \A g \in Graph : /\ checkpoint[g].def = Part[First][g] /\ checkpoint[g].id = 0
                         /\ lease[g] = Nobody
    BY DEF Init
  <1>3. Recorded
    BY <1>1, <1>2, TreeAssumption DEF Recorded, Settled, Underway, At, Resolved, None
  <1>4. ASSUME NEW p \in Process PROVE Called(p) /\ Stage(p)
    <2>1. pc[p] = "idle" /\ mode[p] = "apply" /\ journal.phase = "none" /\ copy[p].phase = "none"
      BY <1>1 DEF None
    <2>2. Called(p)
      BY <2>1 DEF Called
    <2>3. Stage(p)
      BY <2>1 DEF Stage, InPlay
    <2> QED BY <2>2, <2>3
  <1>5. Dated /\ Remembered
    BY <1>2, HolderAssumption DEF Init, Dated, Remembered
  <1>6. Numbered(journal) /\ \A p \in Process : Numbered(copy[p])
    BY <1>1 DEF Numbered, InPlay, None
  <1>7. Agreed /\ OnDisk
    BY <1>1, NoneTyped DEF Agreed, Alike, OnDisk, InPlay, None
  <1> QED BY <1>3, <1>4, <1>5, <1>6, <1>7, InitTyped DEF Ledger, TreeInv

(* The steps of a call.                                                     *)
LEMMA MigratesHolds ==
    ASSUME TypeOK, Ledger, TreeOK, NEW p \in Process, Migrates(p)
    PROVE  TypeOK' /\ Ledger' /\ TreeOK'
  <1> SUFFICES TypeOK' /\ Ledger' /\ (TreeInv /\ ~outdated' => TreeInv') /\ (outdated => outdated')
    BY DEF TreeOK
  <1>1. outdated => outdated'
    BY DEF Migrates, Apply, Load, Plan, PlanRefused, Collect, Lock, LockBusy, Commit, CommitRefused,
           RecoverStale, Recover, Discard, CheckRefused, Check, BuildRefused, Begin, Prepare, Prepared,
           Committed, Clean, Fail
  <1>2. CASE \E d \in Target : Apply(p, d)
    BY <1>1, <1>2, ApplyTyped, ApplyLedger, ApplyTree
  <1>3. CASE Ends(p)
    BY <1>1, <1>3, EndsTyped, EndsLedger, EndsTree
  <1>4. CASE Load(p)
    BY <1>1, <1>4, LoadTyped, EndsLedger, EndsTree
  <1>5. CASE Plan(p)
    BY <1>1, <1>5, PlanTyped, PlanLedger, PlanTree
  <1>6. ASSUME NEW g \in unread[p], Collect(p, g)
        PROVE  TypeOK' /\ Ledger' /\ (TreeInv => TreeInv')
    <2>1. g \in Graph
      BY DEF TypeOK
    <2> QED BY <1>6, <2>1, CollectTyped, CollectLedger, CollectTree
  <1>7. ASSUME NEW g \in Members(copy[p]), Lock(p, g)
        PROVE  TypeOK' /\ Ledger' /\ (TreeInv => TreeInv')
    <2>1. g \in Graph
      BY DEF Members
    <2> QED BY <1>7, <2>1, LockTyped, LockLedger, LockTree
  <1>8. ASSUME NEW g \in Members(copy[p]), Commit(p, g)
        PROVE  TypeOK' /\ Ledger' /\ (TreeInv => TreeInv')
    <2>1. g \in Graph
      BY DEF Members
    <2> QED BY <1>8, <2>1, CommitTyped, CommitLedger, CommitTree
  <1>9. CASE Recover(p) \/ Check(p)
    BY <1>1, <1>9, ChecksTyped, ChecksLedger, ChecksTree
  <1>10. CASE Discard(p)
    BY <1>1, <1>10, DiscardTyped, DiscardLedger, DiscardTree
  <1>11. CASE Begin(p)
    BY <1>1, <1>11, BeginTyped, BeginLedger, BeginTree
  <1>12. CASE Prepare(p)
    BY <1>1, <1>12, PrepareTyped, PrepareLedger, PrepareTree
  <1>13. CASE Prepared(p)
    BY <1>1, <1>13, PreparedTyped, PreparedLedger, PreparedTree
  <1>14. CASE Committed(p)
    BY <1>1, <1>14, CommittedTyped, CommittedLedger, CommittedTree
  <1>15. CASE Clean(p)
    BY <1>1, <1>15, CleanTyped, CleanLedger, EndsTree
  <1> QED
    BY <1>1, <1>2, <1>3, <1>4, <1>5, <1>6, <1>7, <1>8, <1>9, <1>10, <1>11, <1>12, <1>13, <1>14, <1>15
    DEF Migrates, Ends

LEMMA StepHolds == TypeOK /\ Ledger /\ TreeOK /\ [Next]_vars => TypeOK' /\ Ledger' /\ TreeOK'
  <1> SUFFICES ASSUME TypeOK, Ledger, TreeOK, [Next]_vars PROVE TypeOK' /\ Ledger' /\ TreeOK'
    OBVIOUS
  <1>1. ASSUME NEW g \in Graph, Others(g) PROVE TypeOK' /\ Ledger' /\ TreeOK'
    <2>1. outdated' = outdated
      BY <1>1 DEF Others, SetPriority, Resume, Settle
    <2> QED BY <1>1, <2>1, OthersTyped, OthersLedger, OthersTree DEF TreeOK
  <1>2. CASE Die
    BY <1>2, DieTyped, DieLedger, StillTree DEF TreeOK, Die, files, locals
  <1>3. CASE UNCHANGED vars
    <2>1. TypeOK'
      BY <1>3 DEF vars, files, locals, counts, TypeOK, Held, Members
    <2>2. Remembered'
      BY <1>3 DEF vars, files, Ledger, Remembered
    <2> QED BY <1>3, <2>1, <2>2, StillLedger, StillTree DEF vars, files, locals, TreeOK
  <1> QED BY <1>1, <1>2, <1>3, MigratesHolds DEF Next, Others

LEMMA AlwaysHolds == Spec => [](TypeOK /\ Ledger /\ TreeOK)
  BY InitHolds, StepHolds, PTL DEF Spec

-----------------------------------------------------------------------------
(* A call that is past its leases holds all of them, and no other call      *)
(* holds any.                                                               *)
THEOREM TypeCorrect == Spec => []TypeOK
  BY AlwaysHolds, PTL

(* Whatever dies at whatever point: a subgraph is at the definition that    *)
(* the root gives it, or the journal on disk says where the tree goes and   *)
(* the root takes part and has not gone there; as long as no transaction    *)
(* has begun on an outdated plan.                                           *)
THEOREM RootActivates == Spec => []Together
  <1>1. TypeOK /\ TreeOK => Together
    <2> SUFFICES ASSUME TypeOK, TreeInv, NEW g \in Graph, checkpoint[g].def # Owned(g)
                 PROVE  /\ journal.phase = "prepared"
                        /\ Root \in Members(journal)
                        /\ checkpoint[Root].def # journal.participants[Root].target.def
      BY DEF TreeOK, Together, Activates
    <2>1. \A e \in Target : ~At(e)
      BY RootOwns, TreeAssumption DEF At
    <2>2. journal.phase = "prepared"
      BY <2>1 DEF TypeOK, Journals, Phases, TreeInv, Recorded, Settled, Underway, Resolved
    <2>3. PICK e \in Target, d \in Target : Brings(journal, e, d) /\ Between(e, d)
      BY <2>2 DEF TreeInv, Recorded, Underway, Resolved
    <2>4. Root \in Members(journal)
      BY <2>3, RootBrings
    <2> QED BY <2>1, <2>2, <2>3, <2>4 DEF Brings, Between
  <1> QED BY <1>1, AlwaysHolds, PTL

(* A prepared transaction has the files of what it still has to commit,     *)
(* whether its plan was out of date or not.                                 *)
THEOREM PreparedRollsForward == Spec => []CanRollForward
  <1>1. Ledger => CanRollForward
    BY DEF Ledger, OnDisk, Filed, CanRollForward
  <1> QED BY <1>1, AlwaysHolds, PTL

(* Whatever saves a checkpoint replaces the one that it has read.           *)
THEOREM SavesFromLatest == Spec => NothingOverwritten
  <1>1. ASSUME TypeOK, Ledger, [Next]_vars, NEW g \in Graph
        PROVE  checkpoint'[g] = checkpoint[g] \/ checkpoint'[g].base = checkpoint[g].id
    <2>1. ASSUME NEW p \in Process, NEW h \in Members(copy[p]), Commit(p, h)
          PROVE  checkpoint'[g] = checkpoint[g] \/ checkpoint'[g].base = checkpoint[g].id
      BY <1>1, <2>1, CommitSaves
    <2>2. ASSUME NEW h \in Graph, Others(h)
          PROVE  checkpoint'[g] = checkpoint[g] \/ checkpoint'[g].base = checkpoint[g].id
      BY <1>1, <2>2, OthersSave
    <2>3. ASSUME NEW p \in Process, Migrates(p), \A h \in Members(copy[p]) : ~Commit(p, h)
          PROVE  UNCHANGED checkpoint
      BY <2>3 DEF Migrates, Apply, Load, Plan, PlanRefused, Collect, Lock, LockBusy, CommitRefused,
         RecoverStale, Recover, Discard, CheckRefused, Check, BuildRefused, Begin, Prepare, Prepared,
         Committed, Clean, Fail, files
    <2>4. Die \/ UNCHANGED vars => UNCHANGED checkpoint
      BY DEF Die, files, vars
    <2> QED BY <1>1, <2>1, <2>2, <2>3, <2>4 DEF Next, Others
  <1>2. TypeOK /\ Ledger /\ [Next]_vars
        => [\A g \in Graph : checkpoint'[g] = checkpoint[g] \/ checkpoint'[g].base = checkpoint[g].id]_vars
    BY <1>1
  <1> QED BY <1>2, AlwaysHolds, PTL DEF Spec, NothingOverwritten
=============================================================================
