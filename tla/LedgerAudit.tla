----------------------------- MODULE LedgerAudit -----------------------------
(***************************************************************************)
(* The usage ledger and the audit receipts (src/tokenbank/ledger/usage.py, *)
(* src/tokenbank/audit/receipts.py).                                       *)
(*                                                                         *)
(* Commands run in processes of their own on one database.  Each reads     *)
(* what it needs in single statements, builds its row in memory and writes *)
(* it in one transaction; between the reads and the write other commands   *)
(* commit.  Results and verifier reports come from the scheduler and the   *)
(* host pipeline: here they simply appear.  A row's content hash is the    *)
(* content itself, created_at a number that grows with every row built.    *)
(***************************************************************************)
EXTENDS Naturals, Sequences, FiniteSets

CONSTANTS
    WorkUnits,
    Accounts,      \* account snapshot ids
    Commands,      \* processes that run a ledger or audit command
    None,          \* an argument or column that is NULL
    MaxResults,    \* bound: succeeded results
    MaxEntries,    \* bound: ledger entries built
    MaxReceipts,   \* bound: receipts built
    MaxReleases    \* bound: versions of the routing that entries are stamped with

\* accept and accept_with_warning, and all the others
Recommendations == {"accept", "refuse"}

EntryId == [work_unit : WorkUnits, result : Nat, report : Recommendations \cup {None},
            account : Accounts \cup {None}]
\* What an entry hashes besides its id: the routebook, and the route plan with
\* the capacity profile that is read of it, are one number.  The run is the
\* work unit's, and the figures are those of the result.
EntryHash == [work_unit : WorkUnits, result : Nat, report : Recommendations \cup {None},
              account : Accounts \cup {None}, routebook : Nat]
ReceiptId == [result : Nat, entry : EntryId]

ASSUME LedgerAssumption ==
    /\ MaxResults \in Nat /\ MaxReleases \in Nat
    /\ MaxEntries \in Nat /\ MaxReceipts \in Nat
    /\ None \notin WorkUnits \cup Accounts \cup EntryId \cup ReceiptId \cup Recommendations

VARIABLES
    results,   \* result_envelopes with status succeeded, in created_at order:
               \* the work unit of each
    reports,   \* recommendation of the verifier report of each result, or None
    routebook, \* version of the routebook that load_routebook_v1_dir reads, and of
               \* the newest route plans
    entries,   \* usage_ledger_entries: id -> row
    receipts,  \* audit_receipts: id -> row
    cmd,       \* what each command has read and does next
    built      \* created_at of the newest entry and of the newest receipt built

vars == <<results, reports, routebook, entries, receipts, cmd, built>>

Idle == [step |-> "idle"]

Newest(S, at(_)) == CHOOSE x \in S : \A y \in S : at(y) <= at(x)

ResultsOf(w) == {i \in DOMAIN results : results[i] = w}

\* ORDER BY created_at DESC LIMIT 1
NewestResult(w) == LET At(i) == i IN Newest(ResultsOf(w), At)

Init ==
    /\ results = <<>>
    /\ reports = <<>>
    /\ routebook = 1
    /\ entries = <<>>
    /\ receipts = <<>>
    /\ cmd = [c \in Commands |-> Idle]
    /\ built = [entry |-> 0, receipt |-> 0]

-----------------------------------------------------------------------------
(* The other components *)

\* Scheduler.submit_result records a succeeded result.
ResultSubmitted(w) ==
    /\ Len(results) < MaxResults
    /\ results' = Append(results, w)
    /\ reports' = Append(reports, None)
    /\ UNCHANGED <<routebook, entries, receipts, cmd, built>>

\* finalize_url_check_result persists the verifier report of a result.  The
\* bare body of a spool replay is no ResultEnvelope and never gets one.
ReportPersisted(i, recommendation) ==
    /\ reports[i] = None
    /\ reports' = [reports EXCEPT ![i] = recommendation]
    /\ UNCHANGED <<results, routebook, entries, receipts, cmd, built>>

\* The routebook files are replaced by another version, or the router's
\* endpoint stores another route plan of a work unit.  Only entries hold it:
\* a release before the first or after the last is none.
RoutebookReleased ==
    /\ routebook < MaxReleases
    /\ 0 < built.entry /\ built.entry < MaxEntries
    /\ routebook' = routebook + 1
    /\ UNCHANGED <<results, reports, entries, receipts, cmd, built>>

-----------------------------------------------------------------------------
(* The usage ledger *)

\* record_for_work_unit has its rows: the newest succeeded result (the route
\* plan is there since the assignment was made).
Completed(w) == ResultsOf(w) # {}

BuildEntryId_NoReport(w, account) ==
    [work_unit |-> w, result |-> NewestResult(w), report |-> None,
     account |-> account]

\* The id is the hash of work unit, result, verifier report and account.
BuildEntryId(w, account) ==
    [work_unit |-> w, result |-> NewestResult(w),
     report |-> reports[NewestResult(w)], account |-> account]

\* _build_usage_entry.  The costs and the recommendation are functions of the
\* result and of whether its report exists; the routebook and the newest route
\* plan are not.
BuildUsageEntry(w, account) ==
    [id |-> BuildEntryId(w, account),
     hash |-> [work_unit |-> w, result |-> NewestResult(w),
               report |-> reports[NewestResult(w)], account |-> account,
               routebook |-> routebook],
     created_at |-> built.entry + 1]

StartRecord(c, w, account) ==
    /\ cmd[c] = Idle
    /\ built.entry < MaxEntries
    /\ Completed(w)
    /\ cmd' = [cmd EXCEPT ![c] = [step |-> "upsert", result |-> None,
                                  entry |-> BuildUsageEntry(w, account)]]
    /\ built' = [built EXCEPT !.entry = @ + 1]
    /\ UNCHANGED <<results, reports, routebook, entries, receipts>>

\* The row upsert_entry leaves: ON CONFLICT keeps created_at.
UpsertedEntry(entry) ==
    [hash |-> entry.hash,
     created_at |-> IF entry.id \in DOMAIN entries
                    THEN entries[entry.id].created_at ELSE entry.created_at]

StoreEntry(entry) ==
    entries' = [id \in DOMAIN entries \cup {entry.id} |->
                   IF id = entry.id THEN UpsertedEntry(entry) ELSE entries[id]]

\* The transaction of upsert_entry.
UpsertEntry(c) ==
    /\ cmd[c].step = "upsert"
    /\ StoreEntry(cmd[c].entry)
    /\ cmd' = [cmd EXCEPT ![c] =
          IF @.result = None THEN Idle
          ELSE [step |-> "build", result |-> @.result, named |-> FALSE,
                entry |-> @.entry.id, hash |-> @.entry.hash]]
    /\ UNCHANGED <<results, reports, routebook, receipts, built>>

-----------------------------------------------------------------------------
(* Audit receipts *)

\* _accepted_context: the newest succeeded result has a report, and that
\* accepts it.
Accepted(w) ==
    /\ Completed(w)
    /\ reports[NewestResult(w)] = "accept"

\* create_for_work_unit; named is the usage_ledger_entry_id argument, with
\* which account_snapshot_id is not looked at.
StartReceipt(c, w, account, named) ==
    /\ cmd[c] = Idle
    /\ None \in {account, named}
    /\ Accepted(w)
    /\ cmd' = [cmd EXCEPT ![c] =
          [step |-> "usage", work_unit |-> w, result |-> NewestResult(w),
           account |-> account, named |-> named]]
    /\ UNCHANGED <<results, reports, routebook, entries, receipts, built>>

EntriesOf_All(w) == DOMAIN entries

EntriesOf(w) == {id \in DOMAIN entries : id.work_unit = w}

NewestEntry(w) == LET At(id) == entries[id].created_at IN Newest(EntriesOf(w), At)

\* The stored entry a receipt is built on: the one the caller names, whatever
\* it belongs to, or else the newest of the work unit if its account fits.
StoredEntry(named, w, account) ==
    IF named # None THEN {named}
    ELSE {id \in EntriesOf(w) : /\ id = NewestEntry(w)
                                /\ account \in {None, id.account}}

\* _ensure_usage_entry finds a stored entry ...
ReuseEntry(c) ==
    /\ cmd[c].step = "usage"
    /\ \E id \in StoredEntry(cmd[c].named, cmd[c].work_unit, cmd[c].account) :
          cmd' = [cmd EXCEPT ![c] =
              [step |-> "build", result |-> @.result, named |-> @.named # None,
               entry |-> id, hash |-> entries[id].hash]]
    /\ UNCHANGED <<results, reports, routebook, entries, receipts, built>>

\* ... or records one, from a second read of the newest result.
RecordEntry(c) ==
    /\ cmd[c].step = "usage"
    /\ StoredEntry(cmd[c].named, cmd[c].work_unit, cmd[c].account) = {}
    /\ built.entry < MaxEntries
    /\ cmd' = [cmd EXCEPT ![c] =
          [step |-> "upsert", result |-> @.result,
           entry |-> BuildUsageEntry(@.work_unit, @.account)]]
    /\ built' = [built EXCEPT !.entry = @ + 1]
    /\ UNCHANGED <<results, reports, routebook, entries, receipts>>

\* get_receipt finds the receipt of this result and entry: it is returned.
ReturnExisting(c) ==
    /\ cmd[c].step = "build"
    /\ [result |-> cmd[c].result, entry |-> cmd[c].entry] \in DOMAIN receipts
    /\ cmd' = [cmd EXCEPT ![c] = Idle]
    /\ UNCHANGED <<results, reports, routebook, entries, receipts, built>>

PreviousReceipt_OfWorkUnit(result) ==
    LET others == {id \in DOMAIN receipts : /\ id.result # result
                                            /\ results[id.result] = results[result]}
        At(id) == receipts[id].created_at
    IN  IF others = {} THEN None ELSE Newest(others, At)

\* _previous_receipt_hash: the newest receipt of another result.
PreviousReceipt(result) ==
    LET others == {id \in DOMAIN receipts : id.result # result}
        At(id) == receipts[id].created_at
    IN  IF others = {} THEN None ELSE Newest(others, At)

\* _build_receipt
BuildReceipt(c) ==
    /\ cmd[c].step = "build"
    /\ [result |-> cmd[c].result, entry |-> cmd[c].entry] \notin DOMAIN receipts
    /\ built.receipt < MaxReceipts
    /\ cmd' = [cmd EXCEPT ![c] =
          [step |-> "insert", id |-> [result |-> @.result, entry |-> @.entry],
           row |-> [usage_hash |-> @.hash, named |-> @.named,
                    previous |-> PreviousReceipt(@.result),
                    created_at |-> built.receipt + 1]]]
    /\ built' = [built EXCEPT !.receipt = @ + 1]
    /\ UNCHANGED <<results, reports, routebook, entries, receipts>>

\* insert_receipt: a plain INSERT, so that the second of two commands with
\* one receipt id fails.  History: named says that the caller chose the
\* entry, inserted_at how many rows had been built by then.
InsertReceipt(c) ==
    /\ cmd[c].step = "insert"
    /\ LET id == cmd[c].id
           row == [usage_hash |-> cmd[c].row.usage_hash, named |-> cmd[c].row.named,
                   previous |-> cmd[c].row.previous,
                   created_at |-> cmd[c].row.created_at, inserted_at |-> built.receipt]
       IN  receipts' = IF id \in DOMAIN receipts THEN receipts
                       ELSE [x \in DOMAIN receipts \cup {id} |->
                                IF x = id THEN row ELSE receipts[x]]
    /\ cmd' = [cmd EXCEPT ![c] = Idle]
    /\ UNCHANGED <<results, reports, routebook, entries, built>>

\* The process ends: an error of the database, an interrupt.
CommandEnds(c) ==
    /\ cmd[c] # Idle
    /\ cmd' = [cmd EXCEPT ![c] = Idle]
    /\ UNCHANGED <<results, reports, routebook, entries, receipts, built>>

Next ==
    \/ \E w \in WorkUnits : ResultSubmitted(w)
    \/ \E i \in DOMAIN results, recommendation \in Recommendations :
          ReportPersisted(i, recommendation)
    \/ RoutebookReleased
    \/ \E c \in Commands :
          \/ \E w \in WorkUnits, account \in Accounts \cup {None} :
                \/ StartRecord(c, w, account)
                \/ \E named \in DOMAIN entries \cup {None} :
                      StartReceipt(c, w, account, named)
          \/ UpsertEntry(c)
          \/ ReuseEntry(c)
          \/ RecordEntry(c)
          \/ ReturnExisting(c)
          \/ BuildReceipt(c)
          \/ InsertReceipt(c)
          \/ CommandEnds(c)

Spec == Init /\ [][Next]_vars

-----------------------------------------------------------------------------
(* Properties *)

ReceiptRow == [usage_hash : EntryHash, named : BOOLEAN,
               previous : ReceiptId \cup {None}, created_at : Nat]

CommandState ==
    {Idle}
    \cup [step : {"upsert"}, result : Nat \cup {None},
          entry : [id : EntryId, hash : EntryHash, created_at : Nat]]
    \cup [step : {"usage"}, work_unit : WorkUnits, result : Nat,
          account : Accounts \cup {None}, named : EntryId \cup {None}]
    \cup [step : {"build"}, result : Nat, named : BOOLEAN, entry : EntryId,
          hash : EntryHash]
    \cup [step : {"insert"}, id : ReceiptId, row : ReceiptRow]

\* Types of the tables of ledger/usage.py and audit/receipts.py and of what a
\* command has read.
TypeOK ==
    /\ results \in Seq(WorkUnits)
    /\ reports \in [DOMAIN results -> Recommendations \cup {None}]
    /\ routebook \in Nat
    /\ DOMAIN entries \subseteq EntryId
    /\ \A id \in DOMAIN entries :
          entries[id] \in [hash : EntryHash, created_at : Nat]
    /\ DOMAIN receipts \subseteq ReceiptId
    /\ \A id \in DOMAIN receipts :
          receipts[id] \in [usage_hash : EntryHash, named : BOOLEAN,
                            previous : ReceiptId \cup {None},
                            created_at : Nat, inserted_at : Nat]
    /\ cmd \in [Commands -> CommandState]
    /\ built \in [entry : Nat, receipt : Nat]

\* The receipts' previous_receipt_hash leads back: it is the hash of a receipt
\* of another result that is in the table and was built earlier, so that
\* following it ends at a receipt without predecessor.
ChainGoesBack ==
    \A id \in DOMAIN receipts :
        LET previous == receipts[id].previous
        IN  previous # None =>
                /\ previous \in DOMAIN receipts
                /\ previous.result # id.result
                /\ receipts[previous].created_at < receipts[id].created_at

\* Two receipts follow the same receipt, or are both the first, only if they
\* are of one result or the later was built before the earlier was inserted:
\* _previous_receipt_hash reads the head outside the transaction that extends
\* the chain.
ForkNeedsOverlap ==
    \A id, other \in DOMAIN receipts :
        /\ receipts[id].previous = receipts[other].previous
        /\ receipts[id].created_at < receipts[other].created_at
        => \/ id.result = other.result
           \/ receipts[other].created_at <= receipts[id].inserted_at

\* A receipt is for an accepted result, and bills an entry of the work unit of
\* that result unless the caller named another one: create_for_work_unit
\* takes a named entry without a look at what it belongs to, and a reused
\* entry may be that of an older result.
ReceiptBillsItsWork ==
    \A id \in DOMAIN receipts :
        /\ reports[id.result] = "accept"
        /\ id.entry.work_unit = results[id.result] \/ receipts[id].named

SameFacts(hash, other) == [hash EXCEPT !.routebook = 0] = [other EXCEPT !.routebook = 0]

\* The usage_ledger_entry_hash in a receipt is that of the stored entry, even
\* after upsert_entry has replaced the row, as long as neither the routebook
\* nor the route plan has been replaced in between: work unit, result,
\* verification and account never change under one entry id.
ReceiptHashesResolve ==
    \A id \in DOMAIN receipts :
        /\ id.entry \in DOMAIN entries
        /\ SameFacts(receipts[id].usage_hash, entries[id.entry].hash)

\* Receipts and ledger entries are never taken back, a receipt is never
\* rewritten, and the place of an entry in the order of created_at, which
\* decides what the next receipt bills, never changes.
LedgerOnlyGrows ==
    [][/\ \A id \in DOMAIN receipts :
             id \in DOMAIN receipts' /\ receipts'[id] = receipts[id]
       /\ \A id \in DOMAIN entries :
             /\ id \in DOMAIN entries'
             /\ entries'[id].created_at = entries[id].created_at]_vars

=============================================================================
