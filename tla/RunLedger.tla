----------------------------- MODULE RunLedger -----------------------------
(***************************************************************************)
(* The run ledger of the servers of a workspace                            *)
(* (apps/server/src/run-ledger.ts): .seekforge/runs.jsonl, to which every  *)
(* change of a run appends a line and which is compacted when it is long.  *)
(*                                                                         *)
(* Writers of all servers take one session lease (module SessionLease);    *)
(* readers take none.  A server is synchronous from the read of the        *)
(* current record to the release of the lease, so it has one operation in  *)
(* hand, and only the server that created a run changes it                 *)
(* (ownsActiveRun, routes/runs.ts).  The event files are not modelled.     *)
(***************************************************************************)
EXTENDS Naturals, Sequences, FiniteSets, FiniteSetsExt

CONSTANTS
    Server,        \* server processes over the life of the workspace
    Run,           \* run ids
    Outcomes,      \* the statuses that end a run
    Nobody,        \* no server
    NoRecord,      \* there is no record
    NoCache,       \* the server has not touched the ledger yet
    Torn,          \* a line that is not a valid record
    Tears,         \* how a write may be cut off, see Cut
    Threshold,     \* RUNS_LEDGER_COMPACTION_THRESHOLD
    MaxTerminal,   \* the runs that compaction retains beside those not ended
    MaxOperations, \* bound: changes and prunings asked for
    MaxFaults      \* bound: failed writes and process deaths

ASSUME OutcomeAssumption == {"queued", "running"} \intersect Outcomes = {}
ASSUME LimitAssumption == Threshold \in Nat /\ MaxTerminal \in Nat
ASSUME TearAssumption == Tears \subseteq {"partial", "unterminated"}

Statuses == {"queued", "running"} \union Outcomes

(* RunRecord; updatedAt is the number of the change that made it.          *)
Record == [run : Run, status : Statuses, at : Nat]

(* What a server remembers of the file: its lines and its identity.        *)
Cached == [lines : Nat, identity : Nat]

ASSUME ValueAssumption ==
    /\ NoRecord \notin Record /\ Torn \notin Record
    /\ NoCache \notin Cached /\ Nobody \notin Server

VARIABLES
    ledger,     \* the lines of runs.jsonl
    ended,      \* does the last line end in a newline?
    version,    \* the identity of the file: every write changes it
    holder,     \* who has the ledger's lease
    pc,         \* [Server -> LedgerPositions]
    hand,       \* [Server -> Record or NoRecord]: the record to append
    collapsed,  \* [Server -> SUBSET Record]: what compaction is to write
    cache,      \* [Server -> Cached or NoCache]: this.ledger
    owner,      \* [Run -> Server or Nobody]: who created the run
    put,        \* [Run -> Record or NoRecord]: history, the last record of the
                \* run that was written whole
    operations, faults

disk == <<ledger, ended, version>>
progress == <<pc, hand, collapsed>>
counts == <<operations, faults>>
ledgerVars == <<disk, holder, progress, cache, owner, put, counts>>

Holding == {"ensure", "append", "collapse", "replace", "release"}
LedgerPositions == {"idle", "lease", "dead"} \union Holding

-----------------------------------------------------------------------------
(* The longest valid prefix of the file.                                   *)
Breaks(f) == {i \in DOMAIN f : f[i] = Torn}
Valid(f) == IF Breaks(f) = {} THEN f ELSE SubSeq(f, 1, Min(Breaks(f)) - 1)

(* A run's last record, and the one in the valid prefix, which readers get. *)
Mentions(records, r) == {i \in DOMAIN records : records[i].run = r}
LastOf(records, r) ==
    IF Mentions(records, r) = {} THEN NoRecord ELSE records[Max(Mentions(records, r))]

Visible(f, r) == LastOf(Valid(f), r)

Ended(record) == record.status \in Outcomes

(* readRunLedger: the latest record of each run.                           *)
Latest(f) == {Visible(f, r) : r \in Run} \ {NoRecord}

(* A line written to the end of the file continues one that does not end.  *)
Written(line) ==
    IF ended THEN Append(ledger, line) ELSE [ledger EXCEPT ![Len(ledger)] = Torn]

-----------------------------------------------------------------------------
LedgerInit ==
    /\ ledger = <<>> /\ ended = TRUE /\ version = 0
    /\ holder = Nobody
    /\ pc = [s \in Server |-> "idle"]
    /\ hand = [s \in Server |-> NoRecord]
    /\ collapsed = [s \in Server |-> {}]
    /\ cache = [s \in Server |-> NoCache]
    /\ owner = [r \in Run |-> Nobody]
    /\ put = [r \in Run |-> NoRecord]
    /\ operations = 0 /\ faults = 0

Request(s, r, status) ==
    /\ pc[s] = "idle" /\ operations < MaxOperations
    /\ operations' = operations + 1
    /\ hand' = [hand EXCEPT ![s] = [run |-> r, status |-> status, at |-> operations + 1]]
    /\ pc' = [pc EXCEPT ![s] = "lease"]
    /\ UNCHANGED <<disk, holder, collapsed, cache, put, faults>>

Create(s, r) ==
    /\ owner[r] = Nobody
    /\ owner' = [owner EXCEPT ![r] = s]
    /\ Request(s, r, "queued")

UpdateAlways(s, r, status) ==              \* mutant: whatever the run's status
    /\ owner[r] = s
    /\ Visible(ledger, r) # NoRecord
    /\ status # "queued" \/ status = Visible(ledger, r).status
    /\ Request(s, r, status)
    /\ UNCHANGED owner

(* update: a change of status, or of other fields only.  A run that has    *)
(* ended, or that is not in the ledger, is left alone.                     *)
Update(s, r, status) ==
    /\ owner[r] = s
    /\ Visible(ledger, r) # NoRecord
    /\ ~Ended(Visible(ledger, r)) \/ status = Visible(ledger, r).status
    /\ status # "queued" \/ status = Visible(ledger, r).status
    /\ Request(s, r, status)
    /\ UNCHANGED owner

(* prune: compaction on request.                                           *)
Prune(s) ==
    /\ pc[s] = "idle" /\ operations < MaxOperations
    /\ operations' = operations + 1
    /\ pc' = [pc EXCEPT ![s] = "lease"]
    /\ UNCHANGED <<disk, holder, hand, collapsed, cache, owner, put, faults>>

-----------------------------------------------------------------------------
(* withLedgerLease: the lease, or an exception after 30 s.                 *)
Take(s) ==
    /\ pc[s] = "lease" /\ holder = Nobody
    /\ holder' = s
    /\ pc' = [pc EXCEPT ![s] = "ensure"]
    /\ UNCHANGED <<disk, hand, collapsed, cache, owner, put, counts>>

Busy(s) ==
    /\ pc[s] = "lease" /\ holder # Nobody
    /\ pc' = [pc EXCEPT ![s] = "idle"]
    /\ hand' = [hand EXCEPT ![s] = NoRecord]
    /\ UNCHANGED <<disk, holder, collapsed, cache, owner, put, counts>>

CurrentOnce(s) == cache[s] # NoCache       \* mutant: only on first touch

(* ensureLedger: after somebody else's write, cut the file back to its     *)
(* valid prefix and count its lines.                                       *)
Current(s) == cache[s] # NoCache /\ cache[s].identity = version

Ensure(s) ==
    /\ pc[s] = "ensure"
    /\ IF Current(s) THEN UNCHANGED <<disk, cache>>
       ELSE /\ IF Valid(ledger) = ledger THEN UNCHANGED disk
               ELSE ledger' = Valid(ledger) /\ ended' = TRUE /\ version' = version + 1
            /\ cache' = [cache EXCEPT ![s] = [lines |-> Len(ledger'), identity |-> version']]
    /\ pc' = [pc EXCEPT ![s] = IF hand[s] = NoRecord THEN "collapse" ELSE "append"]
    /\ UNCHANGED <<holder, hand, collapsed, owner, put, counts>>

AppendLine(s) ==
    /\ pc[s] = "append"
    /\ ledger' = Written(hand[s]) /\ ended' = TRUE /\ version' = version + 1
    /\ cache' = [cache EXCEPT ![s] = [lines |-> @.lines + 1, identity |-> version']]
    /\ put' = [put EXCEPT ![hand[s].run] = hand[s]]
    /\ pc' = [pc EXCEPT ![s] = IF cache'[s].lines > Threshold THEN "collapse" ELSE "release"]
    /\ UNCHANGED <<holder, hand, collapsed, owner, counts>>

(* The write is cut off: within the record, or just before its newline.    *)
Cut(s, tear) ==
    /\ ledger' = Written(IF tear = "partial" THEN Torn ELSE hand[s])
    /\ put' = IF tear = "partial" THEN put ELSE [put EXCEPT ![hand[s].run] = hand[s]]
    /\ ended' = FALSE /\ version' = version + 1

(* ... by an error, which update throws and which releases the lease,      *)
AppendFails(s, tear) ==
    /\ pc[s] = "append" /\ faults < MaxFaults
    /\ faults' = faults + 1
    /\ Cut(s, tear)
    /\ pc' = [pc EXCEPT ![s] = "release"]
    /\ hand' = [hand EXCEPT ![s] = NoRecord]
    /\ UNCHANGED <<holder, collapsed, cache, owner, operations>>

(* ... or nothing is written, here or by a repair or a compaction,          *)
Fail(s) ==
    /\ pc[s] \in {"ensure", "append", "replace"} /\ faults < MaxFaults
    /\ faults' = faults + 1
    /\ pc' = [pc EXCEPT ![s] = "release"]
    /\ hand' = [hand EXCEPT ![s] = NoRecord]
    /\ collapsed' = [collapsed EXCEPT ![s] = {}]
    /\ UNCHANGED <<disk, holder, cache, owner, put, operations>>

(* ... or by the death of the process.  Its lease is recovered.            *)
Die(s) ==
    /\ pc' = [pc EXCEPT ![s] = "dead"]
    /\ hand' = [hand EXCEPT ![s] = NoRecord]
    /\ collapsed' = [collapsed EXCEPT ![s] = {}]
    /\ cache' = [cache EXCEPT ![s] = NoCache]
    /\ holder' = IF holder = s THEN Nobody ELSE holder
    /\ UNCHANGED <<owner, operations>>

ServerDies(s) ==
    /\ pc[s] # "dead" /\ faults < MaxFaults
    /\ faults' = faults + 1
    /\ Die(s)
    /\ \/ UNCHANGED <<disk, put>>
       \/ pc[s] = "append" /\ \E tear \in Tears : Cut(s, tear)

-----------------------------------------------------------------------------
RetainedNewest(f) ==                       \* mutant: the latest of all
    {record \in Latest(f) :
        Cardinality({newer \in Latest(f) : newer.at > record.at}) < MaxTerminal}

(* compactLedger: every run that has not ended, and the latest of those    *)
(* that have.                                                              *)
Retained(f) ==
    {record \in Latest(f) :
        \/ ~Ended(record)
        \/ Cardinality({newer \in Latest(f) : Ended(newer) /\ newer.at > record.at})
             < MaxTerminal}

Collapse(s) ==
    /\ pc[s] = "collapse"
    /\ collapsed' = [collapsed EXCEPT ![s] = Retained(ledger)]
    /\ pc' = [pc EXCEPT ![s] = "replace"]
    /\ UNCHANGED <<disk, holder, hand, cache, owner, put, counts>>

(* Records in the order of their times.                                    *)
InOrder(records) ==
    {list \in [1 .. Cardinality(records) -> records] :
        /\ records = {list[i] : i \in DOMAIN list}
        /\ \A i, j \in DOMAIN list : i < j => list[i].at =< list[j].at}

Replace(s) ==
    /\ pc[s] = "replace"
    /\ \E list \in InOrder(collapsed[s]) : ledger' = list
    /\ ended' = TRUE /\ version' = version + 1
    /\ collapsed' = [collapsed EXCEPT ![s] = {}]
    /\ cache' = [cache EXCEPT ![s] = [lines |-> Len(ledger'), identity |-> version']]
    /\ pc' = [pc EXCEPT ![s] = "release"]
    /\ UNCHANGED <<holder, hand, owner, put, counts>>

(* The lease is released, and the operation returns or throws.             *)
ReleaseLease(s) ==
    /\ pc[s] = "release"
    /\ holder' = IF holder = s THEN Nobody ELSE holder
    /\ hand' = [hand EXCEPT ![s] = NoRecord]
    /\ pc' = [pc EXCEPT ![s] = "idle"]
    /\ UNCHANGED <<disk, collapsed, cache, owner, put, counts>>

LedgerNext ==
    \E s \in Server :
        \/ \E r \in Run : Create(s, r) \/ (\E status \in Statuses : Update(s, r, status))
        \/ Prune(s) \/ Take(s) \/ Busy(s) \/ Ensure(s)
        \/ AppendLine(s) \/ (\E tear \in Tears : AppendFails(s, tear))
        \/ Fail(s) \/ ServerDies(s)
        \/ Collapse(s) \/ Replace(s) \/ ReleaseLease(s)

LedgerSpec == LedgerInit /\ [][LedgerNext]_ledgerVars

-----------------------------------------------------------------------------
(* Every variable has its type, and only the lease's holder writes.        *)
LedgerTypeOK ==
    /\ ledger \in Seq(Record \union {Torn}) /\ ended \in BOOLEAN /\ version \in Nat
    /\ holder \in Server \union {Nobody}
    /\ pc \in [Server -> LedgerPositions]
    /\ hand \in [Server -> Record \union {NoRecord}]
    /\ collapsed \in [Server -> SUBSET Record]
    /\ cache \in [Server -> Cached \union {NoCache}]
    /\ owner \in [Run -> Server \union {Nobody}]
    /\ put \in [Run -> Record \union {NoRecord}]
    /\ operations \in Nat /\ faults \in Nat
    /\ \A s \in Server : pc[s] \in Holding => holder = s

(* "Compare a cheap file identity under that lease and recount after peer  *)
(* writes": a server that trusts its cache before it appends has the right *)
(* count, and nothing invalid is before the line it appends.               *)
CacheSound ==
    \A s \in Server : pc[s] \in {"append", "collapse"} =>
        /\ Current(s) /\ cache[s].lines = Len(ledger)
        /\ ended /\ Valid(ledger) = ledger

(* "Concurrent compaction could permanently discard another process's run  *)
(* record", "all future valid records remain unreachable": what the last   *)
(* whole write of a run wrote is what every reader gets, across other      *)
(* servers' writes, compactions and deaths, until the run has ended and is *)
(* pruned.                                                                 *)
Acknowledged ==
    \A r \in Run : put[r] # NoRecord =>
        \/ Visible(ledger, r) = put[r]
        \/ Visible(ledger, r) = NoRecord /\ Ended(put[r])

(* "Once a run is succeeded, failed, or cancelled, ignore a conflicting    *)
(* terminal update": no reader sees a run end twice, or go back.           *)
OneOutcome ==
    [][\A r \in Run : Visible(ledger, r) # NoRecord /\ Visible(ledger', r) # NoRecord =>
          /\ Visible(ledger', r).at >= Visible(ledger, r).at
          /\ Ended(Visible(ledger, r)) => Visible(ledger', r).status = Visible(ledger, r).status]_ledgerVars
=============================================================================
