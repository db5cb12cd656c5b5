-------------------------- MODULE LedgerAuditProofs --------------------------
(***************************************************************************)
(* Proofs about LedgerAudit: commands that interleave and end anywhere     *)
(* leave a chain of receipts that leads back, that forks only where two    *)
(* commands overlapped, and whose hashes resolve in the ledger.            *)
(***************************************************************************)
EXTENDS LedgerAudit, TLAPS, WellFoundedInduction

-----------------------------------------------------------------------------
(* The newest of a set *)

\* A nonempty set with bounded times has a newest member.
LEMMA NewestExists ==
    ASSUME NEW S, S # {}, NEW at, NEW n \in Nat, \A x \in S : at[x] \in 0 .. n
    PROVE  \E x \in S : \A y \in S : at[y] <= at[x]
<1> DEFINE R == OpToRel(<, Nat)
           T == {n - at[x] : x \in S}
<1>1. T \subseteq Nat /\ T # {}
  OBVIOUS
<1>2. IsWellFoundedOn(R, Nat)
  BY NatLessThanWellFounded
<1>3. \E m \in T : \A k \in T : ~ (<<k, m>> \in R)
  <2> HIDE DEF R, T
  <2> QED  BY <1>1, <1>2, WFMin
<1>4. PICK x \in S : \A k \in T : ~ (<<k, n - at[x]>> \in R)
  BY <1>3
<1>5. \A y \in S : n - at[y] \in T /\ n - at[y] \in Nat /\ n - at[x] \in Nat
  OBVIOUS
<1>6. \A y \in S : ~ (n - at[y] < n - at[x])
  BY <1>4, <1>5 DEF OpToRel
<1> QED  BY <1>6

\* The result that a ledger entry or a receipt is built on.
LEMMA NewestResultIsOne ==
    ASSUME TypeOK, NEW w \in WorkUnits, Completed(w)
    PROVE  /\ NewestResult(w) \in DOMAIN results
           /\ results[NewestResult(w)] = w
           /\ NewestResult(w) \in Nat
<1> DEFINE at == [i \in DOMAIN results |-> i]
<1>1. Len(results) \in Nat /\ DOMAIN results = 1 .. Len(results)
  BY DEF TypeOK
<1>2. \A i \in ResultsOf(w) : at[i] = i /\ at[i] \in 0 .. Len(results)
  BY <1>1 DEF ResultsOf
<1>3. ResultsOf(w) # {}
  BY DEF Completed
<1>4. \E i \in ResultsOf(w) : \A j \in ResultsOf(w) : at[j] <= at[i]
  <2> HIDE DEF at
  <2> QED  BY <1>1, <1>2, <1>3, NewestExists
<1>5. \E i \in ResultsOf(w) : \A j \in ResultsOf(w) : j <= i
  BY <1>2, <1>4
<1>6. NewestResult(w) \in ResultsOf(w)
  BY <1>5 DEF NewestResult, Newest
<1> QED  BY <1>1, <1>6 DEF ResultsOf

\* _previous_receipt_hash finds the newest receipt of another result.
LEMMA PreviousIsNewest ==
    ASSUME TypeOK, NEW result, NEW n \in Nat,
           \A id \in DOMAIN receipts : receipts[id].created_at \in 0 .. n
    PROVE  \/ /\ PreviousReceipt(result) = None
              /\ \A id \in DOMAIN receipts : id.result = result
           \/ /\ PreviousReceipt(result) \in DOMAIN receipts
              /\ PreviousReceipt(result).result # result
              /\ \A id \in DOMAIN receipts : id.result # result =>
                    receipts[id].created_at <= receipts[PreviousReceipt(result)].created_at
<1> DEFINE others == {id \in DOMAIN receipts : id.result # result}
           at == [id \in DOMAIN receipts |-> receipts[id].created_at]
<1>1. CASE others = {}
  BY <1>1 DEF PreviousReceipt
<1>2. CASE others # {}
  <2>1. \A id \in others : at[id] = receipts[id].created_at /\ at[id] \in 0 .. n
    OBVIOUS
  <2>2. \E x \in others : \A y \in others : at[y] <= at[x]
    <3> HIDE DEF others, at
    <3> QED  BY <1>2, <2>1, NewestExists
  <2>3. \E x \in others : \A y \in others : receipts[y].created_at <= receipts[x].created_at
    BY <2>1, <2>2
  <2>4. PreviousReceipt(result) =
          CHOOSE x \in others : \A y \in others : receipts[y].created_at <= receipts[x].created_at
    BY <1>2 DEF PreviousReceipt, Newest
  <2>5. /\ PreviousReceipt(result) \in others
        /\ \A y \in others : receipts[y].created_at <= receipts[PreviousReceipt(result)].created_at
    <3> HIDE DEF others
    <3> QED  BY <2>3, <2>4
  <2> QED  BY <2>5
<1> QED  BY <1>1, <1>2

-----------------------------------------------------------------------------
(* What a command knows *)

\* The facts that an entry's id and its hash share.
Matches(id, hash) ==
    /\ hash.work_unit = id.work_unit /\ hash.result = id.result
    /\ hash.report = id.report /\ hash.account = id.account

Accept(result, res, rep) == result \in DOMAIN res /\ rep[result] = "accept"

\* An accepted result and the stored entry that a receipt for it bills.
Backed(result, entry, hash, named, res, rep, ent) ==
    /\ Accept(result, res, rep)
    /\ entry \in DOMAIN ent
    /\ Matches(entry, hash)
    /\ entry.work_unit = res[result] \/ named

\* A receipt row follows an older receipt of another result, and no receipt
\* of another result that was in the table when the row was built is newer
\* than the one it follows.
Chained(result, row, rec) ==
    /\ row.previous # None =>
          /\ row.previous \in DOMAIN rec
          /\ row.previous.result # result
          /\ rec[row.previous].created_at < row.created_at
    /\ \A id \in DOMAIN rec :
          id.result # result /\ rec[id].inserted_at < row.created_at =>
              /\ row.previous # None
              /\ rec[id].created_at <= rec[row.previous].created_at

CmdOK(s, res, rep, ent, rec, n) ==
    /\ s.step = "upsert" =>
          /\ Matches(s.entry.id, s.entry.hash)
          /\ s.result # None =>
                Accept(s.result, res, rep) /\ s.entry.id.work_unit = res[s.result]
    /\ s.step = "usage" =>
          /\ Accept(s.result, res, rep) /\ res[s.result] = s.work_unit
          /\ s.named # None => s.named \in DOMAIN ent
    /\ s.step = "build" => Backed(s.result, s.entry, s.hash, s.named, res, rep, ent)
    /\ s.step = "insert" =>
          /\ Backed(s.id.result, s.id.entry, s.row.usage_hash, s.row.named, res, rep, ent)
          /\ Chained(s.id.result, s.row, rec)
          /\ s.row.created_at <= n

ReceiptOK(id, row, res, rep, ent, rec, n) ==
    /\ Backed(id.result, id.entry, row.usage_hash, row.named, res, rep, ent)
    /\ Chained(id.result, row, rec)
    /\ row.created_at <= row.inserted_at /\ row.inserted_at <= n

LedgerInv ==
    /\ \A id \in DOMAIN entries : Matches(id, entries[id].hash)
    /\ \A id \in DOMAIN receipts :
          ReceiptOK(id, receipts[id], results, reports, entries, receipts, built.receipt)
    /\ \A c \in Commands :
          CmdOK(cmd[c], results, reports, entries, receipts, built.receipt)

\* What every step does to the tables: rows stay, an acceptance stays, and a
\* new receipt is inserted after everything that has been built.
Grows ==
    /\ DOMAIN results \subseteq DOMAIN results'
    /\ \A i \in DOMAIN results : /\ results'[i] = results[i]
                                 /\ reports[i] = "accept" => reports'[i] = "accept"
    /\ DOMAIN entries \subseteq DOMAIN entries'
    /\ DOMAIN receipts \subseteq DOMAIN receipts'
    /\ \A id \in DOMAIN receipts : receipts'[id] = receipts[id]
    /\ \A id \in DOMAIN receipts' \ DOMAIN receipts :
          receipts'[id].inserted_at = built.receipt
    /\ built.receipt <= built'.receipt

LEMMA BackedStays ==
    ASSUME Grows, NEW result, NEW entry, NEW hash, NEW named,
           Backed(result, entry, hash, named, results, reports, entries)
    PROVE  Backed(result, entry, hash, named, results', reports', entries')
  BY DEF Grows, Backed, Accept

LEMMA ChainedStays ==
    ASSUME TypeOK, Grows, NEW result, NEW row, row.created_at \in Nat,
           row.created_at <= built.receipt, Chained(result, row, receipts)
    PROVE  Chained(result, row, receipts')
<1>1. built.receipt \in Nat
  BY DEF TypeOK
<1>2. \A id \in DOMAIN receipts' \ DOMAIN receipts :
        ~ (receipts'[id].inserted_at < row.created_at)
  BY <1>1 DEF Grows
<1> QED  BY <1>2 DEF Grows, Chained

LEMMA CmdStays ==
    ASSUME TypeOK, TypeOK', Grows, NEW s \in CommandState,
           CmdOK(s, results, reports, entries, receipts, built.receipt)
    PROVE  CmdOK(s, results', reports', entries', receipts', built'.receipt)
<1>0. built.receipt \in Nat /\ built'.receipt \in Nat
  BY DEF TypeOK
<1>1. CASE s.step = "upsert"
  BY <1>1 DEF CmdOK, Accept, Grows
<1>2. CASE s.step = "usage"
  BY <1>2 DEF CmdOK, Accept, Grows
<1>3. CASE s.step = "build"
  BY <1>3, BackedStays DEF CmdOK
<1>4. CASE s.step = "insert"
  <2>1. s.row.created_at \in Nat
    BY <1>4 DEF CommandState, Idle, ReceiptRow
  <2>2. /\ Backed(s.id.result, s.id.entry, s.row.usage_hash, s.row.named, results, reports,
                  entries)
        /\ Chained(s.id.result, s.row, receipts)
        /\ s.row.created_at <= built.receipt
    BY <1>4 DEF CmdOK
  <2>3. Backed(s.id.result, s.id.entry, s.row.usage_hash, s.row.named, results', reports',
               entries')
    BY <2>2, BackedStays
  <2>4. Chained(s.id.result, s.row, receipts')
    BY <2>1, <2>2, ChainedStays
  <2>5. s.row.created_at <= built'.receipt
    BY <1>0, <2>1, <2>2 DEF Grows
  <2> QED  BY <1>4, <2>3, <2>4, <2>5 DEF CmdOK
<1>5. CASE s.step \notin {"upsert", "usage", "build", "insert"}
  BY <1>5 DEF CmdOK
<1> QED  BY <1>1, <1>2, <1>3, <1>4, <1>5

LEMMA ReceiptStays ==
    ASSUME TypeOK, TypeOK', Grows, NEW id \in DOMAIN receipts,
           ReceiptOK(id, receipts[id], results, reports, entries, receipts, built.receipt)
    PROVE  ReceiptOK(id, receipts'[id], results', reports', entries', receipts',
                     built'.receipt)
<1>1. /\ receipts'[id] = receipts[id]
      /\ receipts[id].created_at \in Nat /\ receipts[id].inserted_at \in Nat
      /\ built.receipt \in Nat /\ built'.receipt \in Nat
  BY DEF TypeOK, Grows
<1>2. receipts[id].created_at <= built.receipt
  BY <1>1 DEF ReceiptOK
<1>3. Chained(id.result, receipts[id], receipts')
  BY <1>1, <1>2, ChainedStays DEF ReceiptOK
<1>4. Backed(id.result, id.entry, receipts[id].usage_hash, receipts[id].named, results',
             reports', entries')
  BY BackedStays DEF ReceiptOK
<1>5. /\ receipts[id].created_at <= receipts[id].inserted_at
      /\ receipts[id].inserted_at <= built'.receipt
  BY <1>1 DEF ReceiptOK, Grows
<1> QED  BY <1>1, <1>3, <1>4, <1>5 DEF ReceiptOK

-----------------------------------------------------------------------------
(* Steps *)

Ledger == TypeOK /\ LedgerInv

\* Conclusion of a step in which command c, if any, goes to state s, and
\* entries and receipts are as they should be.
LEMMA Conclude ==
    ASSUME Ledger, TypeOK', Grows,
           \A x \in Commands :
              \/ cmd'[x] = cmd[x]
              \/ CmdOK(cmd'[x], results', reports', entries', receipts', built'.receipt),
           \A id \in DOMAIN entries' : Matches(id, entries'[id].hash),
           \A id \in DOMAIN receipts' \ DOMAIN receipts :
              ReceiptOK(id, receipts'[id], results', reports', entries', receipts',
                        built'.receipt)
    PROVE  Ledger'
<1>1. \A x \in Commands :
        CmdOK(cmd'[x], results', reports', entries', receipts', built'.receipt)
  <2> TAKE x \in Commands
  <2>1. cmd[x] \in CommandState
    BY DEF Ledger, TypeOK
  <2>2. CmdOK(cmd[x], results, reports, entries, receipts, built.receipt)
    BY DEF Ledger, LedgerInv
  <2>3. CmdOK(cmd[x], results', reports', entries', receipts', built'.receipt)
    BY <2>1, <2>2, CmdStays DEF Ledger
  <2> QED  BY <2>3
<1>2. \A id \in DOMAIN receipts' :
        ReceiptOK(id, receipts'[id], results', reports', entries', receipts', built'.receipt)
  <2> TAKE id \in DOMAIN receipts'
  <2>1. CASE id \in DOMAIN receipts
    BY <2>1, ReceiptStays DEF Ledger, LedgerInv
  <2>2. CASE id \notin DOMAIN receipts
    BY <2>2
  <2> QED  BY <2>1, <2>2
<1> QED  BY <1>1, <1>2 DEF Ledger, LedgerInv

\* A step of command c that only reads.
LEMMA ReadingStep ==
    ASSUME Ledger, NEW c \in Commands, NEW s \in CommandState,
           cmd' = [cmd EXCEPT ![c] = s],
           UNCHANGED <<results, reports, routebook, entries, receipts>>,
           built' \in [entry : Nat, receipt : Nat], built.receipt <= built'.receipt,
           CmdOK(s, results, reports, entries, receipts, built'.receipt)
    PROVE  Grows /\ Ledger'
<1>1. cmd \in [Commands -> CommandState]
  BY DEF Ledger, TypeOK
<1>2. /\ cmd' \in [Commands -> CommandState]
      /\ \A x \in Commands : cmd'[x] = cmd[x] \/ cmd'[x] = s
  <2> HIDE DEF CommandState
  <2> QED  BY <1>1
<1>3. TypeOK'
  <2> HIDE DEF CommandState
  <2> QED  BY <1>2 DEF Ledger, TypeOK
<1>4. Grows
  BY DEF Grows
<1>5. \A id \in DOMAIN entries' : Matches(id, entries'[id].hash)
  BY DEF Ledger, LedgerInv
<1> QED  BY <1>2, <1>3, <1>4, <1>5, Conclude

LEMMA IdleFacts ==
    ASSUME NEW res, NEW rep, NEW ent, NEW rec, NEW n
    PROVE  Idle \in CommandState /\ CmdOK(Idle, res, rep, ent, rec, n)
  BY DEF Idle, CommandState, CmdOK

LEMMA BuiltEntry ==
    ASSUME Ledger, built' = [built EXCEPT !.entry = @ + 1]
    PROVE  built' \in [entry : Nat, receipt : Nat] /\ built.receipt <= built'.receipt
  BY DEF Ledger, TypeOK

\* _build_usage_entry builds an entry whose hash has the facts of its id.
LEMMA BuildFacts ==
    ASSUME TypeOK, NEW w \in WorkUnits, NEW account \in Accounts \cup {None},
           Completed(w), NEW entry, entry = BuildUsageEntry(w, account)
    PROVE  /\ entry \in [id : EntryId, hash : EntryHash, created_at : Nat]
           /\ Matches(entry.id, entry.hash)
           /\ entry.id.work_unit = w
<1>1. /\ NewestResult(w) \in DOMAIN results /\ NewestResult(w) \in Nat
  BY NewestResultIsOne
<1>2. reports[NewestResult(w)] \in Recommendations \cup {None}
  BY <1>1 DEF TypeOK
<1>3. BuildEntryId(w, account) \in EntryId
  BY <1>1, <1>2 DEF BuildEntryId, EntryId
<1>4. routebook \in Nat /\ built.entry + 1 \in Nat
  BY DEF TypeOK
<1>5. [work_unit |-> w, result |-> NewestResult(w), report |-> reports[NewestResult(w)],
       account |-> account, routebook |-> routebook] \in EntryHash
  BY <1>1, <1>2, <1>4 DEF EntryHash
<1>6. entry \in [id : EntryId, hash : EntryHash, created_at : Nat]
  BY <1>3, <1>4, <1>5 DEF BuildUsageEntry
<1>7. Matches(entry.id, entry.hash) /\ entry.id.work_unit = w
  BY DEF BuildUsageEntry, BuildEntryId, Matches
<1> QED  BY <1>6, <1>7

LEMMA StartRecordStep ==
    ASSUME Ledger, NEW c \in Commands, NEW w \in WorkUnits,
           NEW account \in Accounts \cup {None}, StartRecord(c, w, account)
    PROVE  Grows /\ Ledger'
<1>1. PICK entry, s : /\ entry = BuildUsageEntry(w, account)
                      /\ s = [step |-> "upsert", result |-> None, entry |-> entry]
  OBVIOUS
<1>2. /\ Completed(w) /\ cmd' = [cmd EXCEPT ![c] = s]
      /\ built' = [built EXCEPT !.entry = @ + 1]
      /\ UNCHANGED <<results, reports, routebook, entries, receipts>>
  BY <1>1 DEF StartRecord
<1>3. /\ entry \in [id : EntryId, hash : EntryHash, created_at : Nat]
      /\ Matches(entry.id, entry.hash)
  BY <1>1, <1>2, BuildFacts DEF Ledger
<1>4. s.step = "upsert" /\ s.result = None /\ s.entry = entry
  BY <1>1
<1>5. s \in CommandState
  BY <1>1, <1>3 DEF CommandState
<1>6. CmdOK(s, results, reports, entries, receipts, built'.receipt)
  BY <1>3, <1>4 DEF CmdOK
<1> QED  BY <1>2, <1>5, <1>6, BuiltEntry, ReadingStep

LEMMA StartReceiptStep ==
    ASSUME Ledger, NEW c \in Commands, NEW w \in WorkUnits,
           NEW account \in Accounts \cup {None}, NEW named \in DOMAIN entries \cup {None},
           StartReceipt(c, w, account, named)
    PROVE  Grows /\ Ledger'
<1>1. PICK s : s = [step |-> "usage", work_unit |-> w, result |-> NewestResult(w),
                    account |-> account, named |-> named]
  OBVIOUS
<1>2. /\ Accepted(w) /\ cmd' = [cmd EXCEPT ![c] = s]
      /\ UNCHANGED <<results, reports, routebook, entries, receipts, built>>
  BY <1>1 DEF StartReceipt
<1>3. /\ NewestResult(w) \in DOMAIN results /\ results[NewestResult(w)] = w
      /\ NewestResult(w) \in Nat /\ reports[NewestResult(w)] = "accept"
  BY <1>2, NewestResultIsOne DEF Accepted, Ledger
<1>4. named \in EntryId \cup {None} /\ built \in [entry : Nat, receipt : Nat]
  BY DEF Ledger, TypeOK
<1>5. s \in CommandState
  BY <1>1, <1>3, <1>4 DEF CommandState
<1>6. /\ s.step = "usage" /\ s.result = NewestResult(w) /\ s.work_unit = w
      /\ s.named = named
  BY <1>1
<1>7. CmdOK(s, results, reports, entries, receipts, built'.receipt)
  BY <1>3, <1>6 DEF CmdOK, Accept
<1>8. built' \in [entry : Nat, receipt : Nat] /\ built.receipt <= built'.receipt
  BY <1>2, <1>4
<1> QED  BY <1>2, <1>5, <1>7, <1>8, ReadingStep

\* What the type says of a command at each of its steps.
LEMMA CommandFacts ==
    ASSUME Ledger, NEW c \in Commands
    PROVE  /\ cmd[c].step = "upsert" =>
                 /\ cmd[c].result \in Nat \cup {None}
                 /\ cmd[c].entry \in [id : EntryId, hash : EntryHash, created_at : Nat]
           /\ cmd[c].step = "usage" =>
                 /\ cmd[c].work_unit \in WorkUnits /\ cmd[c].result \in Nat
                 /\ cmd[c].account \in Accounts \cup {None}
                 /\ cmd[c].named \in EntryId \cup {None}
           /\ cmd[c].step = "build" =>
                 /\ cmd[c].result \in Nat /\ cmd[c].named \in BOOLEAN
                 /\ cmd[c].entry \in EntryId /\ cmd[c].hash \in EntryHash
           /\ cmd[c].step = "insert" =>
                 /\ cmd[c].id \in ReceiptId /\ cmd[c].row \in ReceiptRow
           /\ CmdOK(cmd[c], results, reports, entries, receipts, built.receipt)
<1>1. cmd[c] \in CommandState
  BY DEF Ledger, TypeOK
<1> QED  BY <1>1 DEF CommandState, Idle, Ledger, LedgerInv

LEMMA SameBuilt ==
    ASSUME Ledger, UNCHANGED built
    PROVE  built' \in [entry : Nat, receipt : Nat] /\ built.receipt <= built'.receipt
  BY DEF Ledger, TypeOK

LEMMA ReuseStep ==
    ASSUME Ledger, NEW c \in Commands, ReuseEntry(c)
    PROVE  Grows /\ Ledger'
<1>1. /\ cmd[c].step = "usage"
      /\ UNCHANGED <<results, reports, routebook, entries, receipts, built>>
  BY DEF ReuseEntry
<1>2. PICK id \in StoredEntry(cmd[c].named, cmd[c].work_unit, cmd[c].account) :
        cmd' = [cmd EXCEPT ![c] =
              [step |-> "build", result |-> @.result, named |-> @.named # None,
               entry |-> id, hash |-> entries[id].hash]]
  BY DEF ReuseEntry
<1>3. PICK s : s = [step |-> "build", result |-> cmd[c].result,
                    named |-> cmd[c].named # None, entry |-> id, hash |-> entries[id].hash]
  OBVIOUS
<1>4. cmd' = [cmd EXCEPT ![c] = s]
  BY <1>2, <1>3
<1>5. /\ Accept(cmd[c].result, results, reports)
      /\ results[cmd[c].result] = cmd[c].work_unit /\ cmd[c].result \in Nat
      /\ cmd[c].named # None => cmd[c].named \in DOMAIN entries
  BY <1>1, CommandFacts DEF CmdOK
<1>6. id \in DOMAIN entries /\ (id.work_unit = cmd[c].work_unit \/ cmd[c].named # None)
  BY <1>2, <1>5 DEF StoredEntry, EntriesOf
<1>7. id \in EntryId /\ entries[id].hash \in EntryHash /\ Matches(id, entries[id].hash)
  BY <1>6 DEF Ledger, TypeOK, LedgerInv
<1>8. s \in CommandState
  BY <1>3, <1>5, <1>7 DEF CommandState
<1>9. /\ s.step = "build" /\ s.result = cmd[c].result /\ s.named = (cmd[c].named # None)
      /\ s.entry = id /\ s.hash = entries[id].hash
  BY <1>3
<1>10. Backed(s.result, s.entry, s.hash, s.named, results, reports, entries)
  BY <1>5, <1>6, <1>7, <1>9 DEF Backed
<1>11. CmdOK(s, results, reports, entries, receipts, built'.receipt)
  BY <1>9, <1>10 DEF CmdOK
<1> QED  BY <1>1, <1>4, <1>8, <1>11, SameBuilt, ReadingStep

LEMMA RecordStep ==
    ASSUME Ledger, NEW c \in Commands, RecordEntry(c)
    PROVE  Grows /\ Ledger'
<1>1. PICK entry, s : /\ entry = BuildUsageEntry(cmd[c].work_unit, cmd[c].account)
                      /\ s = [step |-> "upsert", result |-> cmd[c].result, entry |-> entry]
  OBVIOUS
<1>2. /\ cmd[c].step = "usage" /\ cmd' = [cmd EXCEPT ![c] = s]
      /\ built' = [built EXCEPT !.entry = @ + 1]
      /\ UNCHANGED <<results, reports, routebook, entries, receipts>>
  BY <1>1 DEF RecordEntry
<1>3. /\ Accept(cmd[c].result, results, reports)
      /\ results[cmd[c].result] = cmd[c].work_unit /\ cmd[c].result \in Nat
      /\ cmd[c].work_unit \in WorkUnits /\ cmd[c].account \in Accounts \cup {None}
  BY <1>2, CommandFacts DEF CmdOK
<1>4. Completed(cmd[c].work_unit)
  BY <1>3 DEF Completed, ResultsOf, Accept
<1>5. /\ entry \in [id : EntryId, hash : EntryHash, created_at : Nat]
      /\ Matches(entry.id, entry.hash) /\ entry.id.work_unit = cmd[c].work_unit
  BY <1>1, <1>3, <1>4, BuildFacts DEF Ledger
<1>6. s.step = "upsert" /\ s.result = cmd[c].result /\ s.entry = entry
  BY <1>1
<1>7. s \in CommandState
  BY <1>1, <1>3, <1>5 DEF CommandState
<1>8. CmdOK(s, results, reports, entries, receipts, built'.receipt)
  BY <1>3, <1>5, <1>6 DEF CmdOK
<1> QED  BY <1>2, <1>7, <1>8, BuiltEntry, ReadingStep

\* A command ends, or finds its receipt.
LEMMA EndStep ==
    ASSUME Ledger, NEW c \in Commands, ReturnExisting(c) \/ CommandEnds(c)
    PROVE  Grows /\ Ledger'
<1>1. /\ cmd' = [cmd EXCEPT ![c] = Idle]
      /\ UNCHANGED <<results, reports, routebook, entries, receipts, built>>
  BY DEF ReturnExisting, CommandEnds
<1>2. PICK s : s = Idle
  OBVIOUS
<1>3. s \in CommandState /\ CmdOK(s, results, reports, entries, receipts, built'.receipt)
  BY <1>2, IdleFacts
<1> QED  BY <1>1, <1>2, <1>3, SameBuilt, ReadingStep

\* _build_receipt extends the chain from its newest receipt.
LEMMA BuildStep ==
    ASSUME Ledger, NEW c \in Commands, BuildReceipt(c)
    PROVE  Grows /\ Ledger'
<1>1. PICK id, row, s :
        /\ id = [result |-> cmd[c].result, entry |-> cmd[c].entry]
        /\ row = [usage_hash |-> cmd[c].hash, named |-> cmd[c].named,
                  previous |-> PreviousReceipt(cmd[c].result),
                  created_at |-> built.receipt + 1]
        /\ s = [step |-> "insert", id |-> id, row |-> row]
  OBVIOUS
<1>2. /\ cmd[c].step = "build" /\ cmd' = [cmd EXCEPT ![c] = s]
      /\ built' = [built EXCEPT !.receipt = @ + 1]
      /\ UNCHANGED <<results, reports, routebook, entries, receipts>>
  BY <1>1 DEF BuildReceipt
<1>3. /\ cmd[c].result \in Nat /\ cmd[c].named \in BOOLEAN
      /\ cmd[c].entry \in EntryId /\ cmd[c].hash \in EntryHash
      /\ Backed(cmd[c].result, cmd[c].entry, cmd[c].hash, cmd[c].named, results, reports,
                entries)
  BY <1>2, CommandFacts DEF CmdOK
<1>4. /\ built.receipt \in Nat /\ built' \in [entry : Nat, receipt : Nat]
      /\ built'.receipt = built.receipt + 1
  BY <1>2 DEF Ledger, TypeOK
<1>5. \A x \in DOMAIN receipts :
        /\ x \in ReceiptId
        /\ receipts[x].created_at \in 0 .. built.receipt
        /\ receipts[x].inserted_at \in 0 .. built.receipt
  <2> TAKE x \in DOMAIN receipts
  <2>1. x \in ReceiptId /\ receipts[x].created_at \in Nat /\ receipts[x].inserted_at \in Nat
    BY DEF Ledger, TypeOK
  <2>2. /\ receipts[x].created_at <= receipts[x].inserted_at
        /\ receipts[x].inserted_at <= built.receipt
    BY DEF Ledger, LedgerInv, ReceiptOK
  <2> QED  BY <1>4, <2>1, <2>2
<1> DEFINE previous == PreviousReceipt(cmd[c].result)
<1>6. \/ /\ previous = None
         /\ \A x \in DOMAIN receipts : x.result = cmd[c].result
      \/ /\ previous \in DOMAIN receipts
         /\ previous.result # cmd[c].result
         /\ \A x \in DOMAIN receipts : x.result # cmd[c].result =>
               receipts[x].created_at <= receipts[previous].created_at
  BY <1>4, <1>5, PreviousIsNewest DEF Ledger
<1>7. \A x \in DOMAIN receipts : x # None
  BY <1>5, LedgerAssumption
<1>8. /\ row.previous = previous /\ row.created_at = built.receipt + 1
      /\ row.usage_hash = cmd[c].hash /\ row.named = cmd[c].named
      /\ id.result = cmd[c].result /\ id.entry = cmd[c].entry
      /\ s.step = "insert" /\ s.id = id /\ s.row = row
  BY <1>1
<1>9. previous \in ReceiptId \cup {None}
  BY <1>5, <1>6
<1>10. row \in ReceiptRow /\ id \in ReceiptId
  BY <1>1, <1>3, <1>4, <1>9 DEF ReceiptRow, ReceiptId
<1>11. s \in CommandState
  BY <1>1, <1>10 DEF CommandState
<1> HIDE DEF previous
<1>12. Chained(id.result, row, receipts)
  BY <1>4, <1>5, <1>6, <1>7, <1>8 DEF Chained
<1>13. CmdOK(s, results, reports, entries, receipts, built'.receipt)
  <2>1. row.created_at <= built'.receipt
    BY <1>4, <1>8
  <2> QED  BY <1>3, <1>8, <1>12, <2>1 DEF CmdOK
<1>14. built.receipt <= built'.receipt
  BY <1>4
<1> QED  BY <1>2, <1>4, <1>11, <1>13, <1>14, ReadingStep

\* upsert_entry replaces a row by one with the same facts, or adds one.
LEMMA UpsertStep ==
    ASSUME Ledger, NEW c \in Commands, UpsertEntry(c)
    PROVE  Grows /\ Ledger'
<1>1. PICK entry, s :
        /\ entry = cmd[c].entry
        /\ s = IF cmd[c].result = None THEN Idle
               ELSE [step |-> "build", result |-> cmd[c].result, named |-> FALSE,
                     entry |-> entry.id, hash |-> entry.hash]
  OBVIOUS
<1>2. /\ cmd[c].step = "upsert" /\ StoreEntry(entry) /\ cmd' = [cmd EXCEPT ![c] = s]
      /\ UNCHANGED <<results, reports, routebook, receipts, built>>
  BY <1>1 DEF UpsertEntry
<1>3. /\ cmd[c].result \in Nat \cup {None}
      /\ entry \in [id : EntryId, hash : EntryHash, created_at : Nat]
      /\ Matches(entry.id, entry.hash)
      /\ cmd[c].result # None =>
            /\ Accept(cmd[c].result, results, reports)
            /\ entry.id.work_unit = results[cmd[c].result]
  BY <1>1, <1>2, CommandFacts DEF CmdOK
<1>4. UpsertedEntry(entry) \in [hash : EntryHash, created_at : Nat]
      /\ UpsertedEntry(entry).hash = entry.hash
  BY <1>3 DEF UpsertedEntry, Ledger, TypeOK
<1>5. /\ DOMAIN entries' = DOMAIN entries \cup {entry.id}
      /\ \A id \in DOMAIN entries' : entries'[id] = IF id = entry.id
             THEN UpsertedEntry(entry) ELSE entries[id]
  BY <1>2 DEF StoreEntry
<1>6. s \in CommandState
  <2>1. CASE cmd[c].result = None
    BY <1>1, <2>1, IdleFacts
  <2>2. CASE cmd[c].result # None
    BY <1>1, <1>3, <2>2 DEF CommandState
  <2> QED  BY <2>1, <2>2
<1>7. CmdOK(s, results', reports', entries', receipts', built'.receipt)
  <2>1. CASE cmd[c].result = None
    BY <1>1, <2>1, IdleFacts
  <2>2. CASE cmd[c].result # None
    <3>1. /\ s.step = "build" /\ s.result = cmd[c].result /\ s.entry = entry.id
          /\ s.hash = entry.hash
      BY <1>1, <2>2
    <3>2. Backed(s.result, s.entry, s.hash, s.named, results', reports', entries')
      BY <1>2, <1>3, <1>5, <2>2, <3>1 DEF Backed
    <3> QED  BY <3>1, <3>2 DEF CmdOK
  <2> QED  BY <2>1, <2>2
<1>8. /\ cmd' \in [Commands -> CommandState]
      /\ \A x \in Commands : cmd'[x] = cmd[x] \/ cmd'[x] = s
  <2>1. cmd \in [Commands -> CommandState]
    BY DEF Ledger, TypeOK
  <2> HIDE DEF CommandState
  <2> QED  BY <1>2, <1>6, <2>1
<1>9. /\ DOMAIN entries' \subseteq EntryId
      /\ \A id \in DOMAIN entries' : entries'[id] \in [hash : EntryHash, created_at : Nat]
  BY <1>3, <1>4, <1>5 DEF Ledger, TypeOK
<1>10. TypeOK'
  BY <1>2, <1>8, <1>9 DEF Ledger, TypeOK
<1>11. Grows
  BY <1>2, <1>5, SameBuilt DEF Grows
<1>12. \A id \in DOMAIN entries' : Matches(id, entries'[id].hash)
  BY <1>3, <1>4, <1>5 DEF Ledger, LedgerInv
<1>13. \A x \in Commands :
         \/ cmd'[x] = cmd[x]
         \/ CmdOK(cmd'[x], results', reports', entries', receipts', built'.receipt)
  BY <1>7, <1>8
<1>14. DOMAIN receipts' \ DOMAIN receipts = {}
  BY <1>2
<1> QED  BY <1>10, <1>11, <1>12, <1>13, <1>14, Conclude

\* insert_receipt adds a row whose place in the chain was read earlier.
LEMMA InsertStep ==
    ASSUME Ledger, NEW c \in Commands, InsertReceipt(c)
    PROVE  Grows /\ Ledger'
<1>1. PICK id, row, new :
        /\ id = cmd[c].id /\ row = cmd[c].row
        /\ new = [usage_hash |-> row.usage_hash, named |-> row.named,
                  previous |-> row.previous, created_at |-> row.created_at,
                  inserted_at |-> built.receipt]
  OBVIOUS
<1>2. /\ cmd[c].step = "insert" /\ cmd' = [cmd EXCEPT ![c] = Idle]
      /\ receipts' = IF id \in DOMAIN receipts THEN receipts
                     ELSE [x \in DOMAIN receipts \cup {id} |->
                              IF x = id THEN new ELSE receipts[x]]
      /\ UNCHANGED <<results, reports, routebook, entries, built>>
  BY <1>1 DEF InsertReceipt
<1>3. /\ id \in ReceiptId /\ row \in ReceiptRow
      /\ Backed(id.result, id.entry, row.usage_hash, row.named, results, reports, entries)
      /\ Chained(id.result, row, receipts)
      /\ row.created_at <= built.receipt
  BY <1>1, <1>2, CommandFacts DEF CmdOK
<1>4. built.receipt \in Nat
  BY DEF Ledger, TypeOK
<1>5. /\ new \in [usage_hash : EntryHash, named : BOOLEAN,
                  previous : ReceiptId \cup {None}, created_at : Nat, inserted_at : Nat]
      /\ new.usage_hash = row.usage_hash /\ new.named = row.named
      /\ new.previous = row.previous /\ new.created_at = row.created_at
      /\ new.inserted_at = built.receipt /\ row.created_at \in Nat
  BY <1>1, <1>3, <1>4 DEF ReceiptRow
<1>6. /\ DOMAIN receipts' = DOMAIN receipts \cup {id}
      /\ \A x \in DOMAIN receipts : receipts'[x] = receipts[x]
      /\ id \notin DOMAIN receipts => receipts'[id] = new
  BY <1>2
<1>7. /\ cmd' \in [Commands -> CommandState]
      /\ \A x \in Commands : cmd'[x] = cmd[x] \/ cmd'[x] = Idle
  <2>1. cmd \in [Commands -> CommandState] /\ Idle \in CommandState
    BY IdleFacts DEF Ledger, TypeOK
  <2> HIDE DEF CommandState
  <2> QED  BY <1>2, <2>1
<1>8. /\ DOMAIN receipts' \subseteq ReceiptId
      /\ \A x \in DOMAIN receipts' :
            receipts'[x] \in [usage_hash : EntryHash, named : BOOLEAN,
                              previous : ReceiptId \cup {None},
                              created_at : Nat, inserted_at : Nat]
  BY <1>3, <1>5, <1>6 DEF Ledger, TypeOK
<1>9. TypeOK'
  BY <1>2, <1>7, <1>8 DEF Ledger, TypeOK
<1>10. Grows
  BY <1>2, <1>4, <1>5, <1>6 DEF Grows
<1>11. ASSUME id \notin DOMAIN receipts
       PROVE  ReceiptOK(id, receipts'[id], results', reports', entries', receipts',
                        built'.receipt)
  <2>1. receipts'[id] = new
    BY <1>6, <1>11
  <2>2. Chained(id.result, row, receipts')
    BY <1>3, <1>5, <1>10, ChainedStays DEF Ledger
  <2>3. Chained(id.result, new, receipts')
    BY <1>5, <2>2 DEF Chained
  <2>4. Backed(id.result, id.entry, new.usage_hash, new.named, results', reports', entries')
    BY <1>3, <1>5, <1>10, BackedStays
  <2>5. new.created_at <= new.inserted_at /\ new.inserted_at <= built'.receipt
    BY <1>2, <1>3, <1>4, <1>5
  <2> QED  BY <2>1, <2>3, <2>4, <2>5 DEF ReceiptOK
<1>12. \A x \in DOMAIN receipts' \ DOMAIN receipts :
         ReceiptOK(x, receipts'[x], results', reports', entries', receipts', built'.receipt)
  BY <1>6, <1>11
<1>13. \A x \in Commands :
         \/ cmd'[x] = cmd[x]
         \/ CmdOK(cmd'[x], results', reports', entries', receipts', built'.receipt)
  BY <1>7, IdleFacts
<1>14. \A x \in DOMAIN entries' : Matches(x, entries'[x].hash)
  BY <1>2 DEF Ledger, LedgerInv
<1> QED  BY <1>9, <1>10, <1>12, <1>13, <1>14, Conclude

\* The scheduler, the host pipeline and the routebook.
LEMMA OtherStep ==
    ASSUME Ledger,
           \/ \E w \in WorkUnits : ResultSubmitted(w)
           \/ \E i \in DOMAIN results, recommendation \in Recommendations :
                 ReportPersisted(i, recommendation)
           \/ RoutebookReleased
    PROVE  Grows /\ Ledger'
<1>0. /\ results \in Seq(WorkUnits) /\ Len(results) \in Nat
      /\ DOMAIN results = 1 .. Len(results)
      /\ reports \in [DOMAIN results -> Recommendations \cup {None}] /\ routebook \in Nat
  BY DEF Ledger, TypeOK
<1>1. UNCHANGED <<entries, receipts, cmd, built>>
  BY DEF ResultSubmitted, ReportPersisted, RoutebookReleased
<1> DEFINE TablesGrow ==
      /\ results' \in Seq(WorkUnits)
      /\ reports' \in [DOMAIN results' -> Recommendations \cup {None}]
      /\ routebook' \in Nat
      /\ DOMAIN results \subseteq DOMAIN results'
      /\ \A i \in DOMAIN results : /\ results'[i] = results[i]
                                   /\ reports[i] = "accept" => reports'[i] = "accept"
<1>2. TablesGrow
  <2>1. ASSUME NEW w \in WorkUnits, ResultSubmitted(w)
        PROVE  TablesGrow
    <3>1. /\ results' = Append(results, w) /\ reports' = Append(reports, None)
          /\ routebook' = routebook
      BY <2>1 DEF ResultSubmitted
    <3>2. reports \in Seq(Recommendations \cup {None}) /\ Len(reports) = Len(results)
      BY <1>0
    <3>3. /\ results' \in Seq(WorkUnits) /\ DOMAIN results' = 1 .. Len(results) + 1
          /\ \A i \in DOMAIN results : results'[i] = results[i]
      BY <1>0, <3>1
    <3>4. /\ reports' \in Seq(Recommendations \cup {None}) /\ Len(reports') = Len(results) + 1
          /\ \A i \in DOMAIN results : reports'[i] = reports[i]
      BY <1>0, <3>1, <3>2
    <3>5. reports' \in [DOMAIN results' -> Recommendations \cup {None}]
      BY <1>0, <3>3, <3>4
    <3> QED  BY <1>0, <3>1, <3>3, <3>4, <3>5
  <2>2. ASSUME NEW i \in DOMAIN results, NEW recommendation \in Recommendations,
               ReportPersisted(i, recommendation)
        PROVE  TablesGrow
    <3>1. /\ reports[i] = None /\ reports' = [reports EXCEPT ![i] = recommendation]
          /\ results' = results /\ routebook' = routebook
      BY <2>2 DEF ReportPersisted
    <3>2. reports[i] # "accept"
      BY <3>1, LedgerAssumption DEF Recommendations
    <3> QED  BY <1>0, <3>1, <3>2
  <2>3. CASE RoutebookReleased
    BY <1>0, <2>3 DEF RoutebookReleased
  <2> QED  BY <2>1, <2>2, <2>3
<1>3. TypeOK'
  BY <1>1, <1>2 DEF Ledger, TypeOK
<1>4. Grows
  BY <1>1, <1>2, SameBuilt DEF Grows
<1>5. \A id \in DOMAIN entries' : Matches(id, entries'[id].hash)
  BY <1>1 DEF Ledger, LedgerInv
<1>6. DOMAIN receipts' \ DOMAIN receipts = {} /\ \A x \in Commands : cmd'[x] = cmd[x]
  BY <1>1
<1> QED  BY <1>3, <1>4, <1>5, <1>6, Conclude

LEMMA LedgerStep == Ledger /\ [Next]_vars => Grows /\ Ledger'
<1> SUFFICES ASSUME Ledger, [Next]_vars
             PROVE  Grows /\ Ledger'
  OBVIOUS
<1>1. CASE UNCHANGED vars
  <2>1. UNCHANGED <<results, reports, routebook, entries, receipts, cmd, built>>
    BY <1>1 DEF vars
  <2>2. Grows
    BY <2>1, SameBuilt DEF Grows
  <2>3. TypeOK'
    BY <2>1 DEF Ledger, TypeOK
  <2>4. LedgerInv'
    BY <2>1 DEF Ledger, LedgerInv
  <2> QED  BY <2>2, <2>3, <2>4 DEF Ledger
<1>2. CASE Next
  BY <1>2, OtherStep, StartRecordStep, StartReceiptStep, UpsertStep, ReuseStep, RecordStep,
     EndStep, BuildStep, InsertStep DEF Next
<1> QED  BY <1>1, <1>2

LEMMA LedgerInit == Init => Ledger
<1> SUFFICES ASSUME Init
             PROVE  Ledger
  OBVIOUS
<1>1. \A c \in Commands : cmd[c] = Idle /\ cmd[c] \in CommandState
  BY IdleFacts DEF Init
<1>2. /\ cmd \in [Commands -> CommandState]
      /\ \A c \in Commands : CmdOK(cmd[c], results, reports, entries, receipts, built.receipt)
  <2>1. \A c \in Commands : CmdOK(cmd[c], results, reports, entries, receipts, built.receipt)
    BY <1>1, IdleFacts
  <2> HIDE DEF CommandState
  <2> QED  BY <1>1, <2>1 DEF Init
<1>3. /\ results \in Seq(WorkUnits) /\ DOMAIN results = {}
      /\ reports \in [DOMAIN results -> Recommendations \cup {None}]
  BY DEF Init
<1>4. DOMAIN entries = {} /\ DOMAIN receipts = {}
  BY DEF Init
<1>5. routebook \in Nat /\ built \in [entry : Nat, receipt : Nat]
  BY DEF Init
<1>6. TypeOK
  BY <1>2, <1>3, <1>4, <1>5 DEF TypeOK
<1> QED  BY <1>2, <1>4, <1>6 DEF Ledger, LedgerInv

LEMMA LedgerHolds == Spec => []Ledger
<1>1. Ledger /\ [Next]_vars => Ledger'
  BY LedgerStep
<1> QED  BY <1>1, LedgerInit, PTL DEF Spec

-----------------------------------------------------------------------------
(* Theorems *)

\* Types of the tables of ledger/usage.py and audit/receipts.py and of what a
\* command has read.
THEOREM LedgerTypes == Spec => []TypeOK
  BY LedgerHolds, PTL DEF Ledger

\* The receipts' previous_receipt_hash leads back to a stored receipt of
\* another result that was built earlier.
THEOREM ChainLeadsBack == Spec => []ChainGoesBack
<1>1. Ledger => ChainGoesBack
  BY DEF Ledger, LedgerInv, ReceiptOK, Chained, ChainGoesBack
<1> QED  BY <1>1, LedgerHolds, PTL

\* Two receipts follow the same receipt only if they are of one result or the
\* commands that made them overlapped.
THEOREM ForksNeedOverlap == Spec => []ForkNeedsOverlap
<1>1. Ledger => ForkNeedsOverlap
  <2> SUFFICES ASSUME Ledger, NEW id \in DOMAIN receipts, NEW other \in DOMAIN receipts,
                      receipts[id].previous = receipts[other].previous,
                      receipts[id].created_at < receipts[other].created_at,
                      id.result # other.result,
                      ~ (receipts[other].created_at <= receipts[id].inserted_at)
               PROVE  FALSE
    BY DEF ForkNeedsOverlap
  <2> DEFINE previous == receipts[other].previous
  <2>1. \A x \in DOMAIN receipts :
          receipts[x].created_at \in Nat /\ receipts[x].inserted_at \in Nat
    BY DEF Ledger, TypeOK
  <2>2. Chained(other.result, receipts[other], receipts)
        /\ Chained(id.result, receipts[id], receipts)
    BY DEF Ledger, LedgerInv, ReceiptOK
  <2>3. receipts[id].inserted_at < receipts[other].created_at
    BY <2>1
  <2>4. previous # None /\ receipts[id].created_at <= receipts[previous].created_at
    BY <2>2, <2>3 DEF Chained
  <2>5. previous \in DOMAIN receipts /\ receipts[previous].created_at < receipts[id].created_at
    BY <2>2, <2>4 DEF Chained
  <2> QED  BY <2>1, <2>4, <2>5
<1> QED  BY <1>1, LedgerHolds, PTL

\* A receipt is for an accepted result and bills an entry of its work unit,
\* unless the caller named another one.
THEOREM ReceiptsBillTheirWork == Spec => []ReceiptBillsItsWork
<1>1. Ledger => ReceiptBillsItsWork
  BY DEF Ledger, LedgerInv, ReceiptOK, Backed, Accept, ReceiptBillsItsWork
<1> QED  BY <1>1, LedgerHolds, PTL

\* The usage_ledger_entry_hash in a receipt is that of the stored entry, up to
\* the version of the routebook.
THEOREM HashesResolve == Spec => []ReceiptHashesResolve
<1>1. Ledger => ReceiptHashesResolve
  <2> SUFFICES ASSUME Ledger, NEW id \in DOMAIN receipts
               PROVE  /\ id.entry \in DOMAIN entries
                      /\ SameFacts(receipts[id].usage_hash, entries[id.entry].hash)
    BY DEF ReceiptHashesResolve
  <2>1. id.entry \in DOMAIN entries /\ Matches(id.entry, receipts[id].usage_hash)
    BY DEF Ledger, LedgerInv, ReceiptOK, Backed
  <2>2. Matches(id.entry, entries[id.entry].hash)
    BY <2>1 DEF Ledger, LedgerInv
  <2>3. receipts[id].usage_hash \in EntryHash /\ entries[id.entry].hash \in EntryHash
    BY <2>1 DEF Ledger, TypeOK
  <2> QED  BY <2>1, <2>2, <2>3 DEF Matches, EntryHash, SameFacts
<1> QED  BY <1>1, LedgerHolds, PTL

\* Receipts and ledger entries are never taken back, a receipt is never
\* rewritten, and the place of an entry in the order of created_at stays.
THEOREM LedgerGrows == Spec => LedgerOnlyGrows
<1>1. Ledger /\ [Next]_vars =>
        [/\ \A id \in DOMAIN receipts :
               id \in DOMAIN receipts' /\ receipts'[id] = receipts[id]
         /\ \A id \in DOMAIN entries :
               /\ id \in DOMAIN entries'
               /\ entries'[id].created_at = entries[id].created_at]_vars
  <2> SUFFICES ASSUME Ledger, [Next]_vars
               PROVE  /\ \A id \in DOMAIN receipts :
                             id \in DOMAIN receipts' /\ receipts'[id] = receipts[id]
                      /\ \A id \in DOMAIN entries :
                             /\ id \in DOMAIN entries'
                             /\ entries'[id].created_at = entries[id].created_at
    OBVIOUS
  <2>1. Grows
    BY LedgerStep
  <2>2. ASSUME NEW c \in Commands, UpsertEntry(c)
        PROVE  \A id \in DOMAIN entries : entries'[id].created_at = entries[id].created_at
    BY <2>2 DEF UpsertEntry, StoreEntry, UpsertedEntry
  <2>3. CASE ~ \E c \in Commands : UpsertEntry(c)
    <3>1. entries' = entries
      BY <2>3 DEF Next, vars, ResultSubmitted, ReportPersisted, RoutebookReleased, StartRecord,
         StartReceipt, ReuseEntry, RecordEntry, ReturnExisting, BuildReceipt, InsertReceipt,
         CommandEnds
    <3> QED  BY <2>1, <3>1 DEF Grows
  <2> QED  BY <2>1, <2>2, <2>3 DEF Grows
<1> QED  BY <1>1, LedgerHolds, PTL DEF Spec, LedgerOnlyGrows

==============================================================================
