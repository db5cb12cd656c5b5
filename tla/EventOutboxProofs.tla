-------------------------- MODULE EventOutboxProofs --------------------------
(***************************************************************************)
(* Proofs about EventOutbox for any number of concurrent and interrupted   *)
(* flushes, any batch limit and any number of events.                      *)
(***************************************************************************)
EXTENDS EventOutbox, FiniteSetTheorems, TLAPS

\* A flush works on rows that exist, is at its first row when it has one, and
\* the row it is about to mark written has its line.
FlushInv ==
    \A f \in Flushers :
        /\ batch[f] \subseteq Rows
        /\ batch[f] = {} => step[f] = "append"
        /\ step[f] = "mark_written" =>
              \A i \in batch[f] : At(f, i) => InFile(i)

OutboxInv == TypeOK /\ FlushInv /\ WrittenIsInFile

\* The invariant holds of an empty outbox.
LEMMA InitOutbox == Init => OutboxInv
  <1>1. Init => TypeOK
    <2>1. <<>> \in Seq({"pending", "written", "failed"}) /\ <<>> \in Seq(Nat)
      OBVIOUS
    <2>2. Init => torn \in BOOLEAN
      BY DEF Init
    <2>3. Init => /\ glued \subseteq Nat
                  /\ batch \in [Flushers -> SUBSET Nat]
                  /\ step \in [Flushers -> {"append"}]
                  /\ stops \in Nat
      BY DEF Init
    <2>. QED  BY <2>1, <2>2, <2>3 DEF Init, TypeOK
  <1>2. Init => FlushInv /\ WrittenIsInFile
    BY DEF Init, FlushInv, WrittenIsInFile, Rows
  <1>. QED  BY <1>1, <1>2 DEF OutboxInv

\* A line stays in the file.
LEMMA FileGrows ==
    ASSUME TypeOK, NEW n \in Nat, jsonl' = Append(jsonl, n)
    PROVE  /\ \A i : InFile(i) => InFile(i)'
           /\ InFile(n)'
  <1>1. /\ jsonl \in Seq(Nat)
        /\ DOMAIN jsonl = 1 .. Len(jsonl)
        /\ Len(jsonl) \in Nat
    BY DEF TypeOK
  <1>2. /\ DOMAIN jsonl' = 1 .. Len(jsonl) + 1
        /\ jsonl'[Len(jsonl) + 1] = n
        /\ \A k \in 1 .. Len(jsonl) : jsonl'[k] = jsonl[k]
    BY <1>1
  <1>3. ASSUME NEW i, InFile(i) PROVE InFile(i)'
    BY <1>1, <1>2, <1>3 DEF InFile
  <1>4. InFile(n)'
    BY <1>1, <1>2 DEF InFile
  <1>. QED  BY <1>3, <1>4

\* Every step keeps the invariant.
LEMMA StepOutbox == OutboxInv /\ [Next]_vars => OutboxInv'
  <1> SUFFICES ASSUME OutboxInv, [Next]_vars PROVE OutboxInv'
    OBVIOUS
  <1> USE DEF OutboxInv, TypeOK, FlushInv, WrittenIsInFile, Rows
  <1>1. CASE UNCHANGED vars
    BY <1>1 DEF vars, InFile, At
  <1>2. CASE Enqueue
    <2>1. /\ status' \in Seq({"pending", "written", "failed"})
          /\ Rows \subseteq Rows'
          /\ \A i \in Rows' : status'[i] = "pending" \/
                (i \in Rows /\ status'[i] = status[i])
      BY <1>2 DEF Enqueue
    <2>2. UNCHANGED <<jsonl, torn, glued, batch, step, stops, overlapped>>
      BY <1>2 DEF Enqueue
    <2>. QED  BY <2>1, <2>2 DEF InFile, At
  <1>3. ASSUME NEW f \in Flushers, Select(f) PROVE OutboxInv'
    <2>1. /\ PendingEvents \subseteq Rows
          /\ Rows \subseteq Nat
      BY DEF PendingEvents, Pending
    <2>2. overlapped' \in BOOLEAN
      BY <1>3 DEF Select
    <2>3. /\ batch' = [batch EXCEPT ![f] = PendingEvents]
          /\ UNCHANGED <<status, jsonl, torn, glued, step, stops>>
      BY <1>3 DEF Select
    <2>4. batch[f] = {}
      BY <1>3 DEF Select
    <2>. QED  BY <2>1, <2>2, <2>3, <2>4 DEF InFile, At
  <1>4. ASSUME NEW f \in Flushers, NEW i \in batch[f], AppendLine(f, i)
        PROVE  OutboxInv'
    <2>1. i \in Nat /\ jsonl' = Append(jsonl, i)
      BY <1>4 DEF AppendLine
    <2>2. (\A j : InFile(j) => InFile(j)') /\ InFile(i)'
      BY <2>1, FileGrows
    <2>3. \A j \in batch[f] : At(f, j) => j = i
      BY <1>4 DEF AppendLine, At
    <2>4. jsonl' \in Seq(Nat) /\ glued' \subseteq Nat /\ torn' \in BOOLEAN
      <3>1. jsonl' \in Seq(Nat) /\ Len(jsonl) + 1 \in Nat
        BY <2>1
      <3>2. glued' \subseteq glued \cup {Len(jsonl) + 1}
        BY <1>4 DEF AppendLine
      <3>3. torn' \in BOOLEAN
        BY <1>4 DEF AppendLine
      <3>. QED  BY <3>1, <3>2, <3>3
    <2>5. /\ UNCHANGED <<status, batch, stops, overlapped>>
          /\ step' = [step EXCEPT ![f] = "mark_written"]
      BY <1>4 DEF AppendLine
    <2>6. TypeOK'
      BY <2>4, <2>5
    <2>7. WrittenIsInFile'
      BY <2>2, <2>5
    <2>8. FlushInv'
      BY <2>2, <2>3, <2>5 DEF At
    <2>. QED  BY <2>6, <2>7, <2>8
  <1>5. ASSUME NEW f \in Flushers, NEW fragment \in BOOLEAN,
               AppendFails(f, fragment)
        PROVE  OutboxInv'
    <2>1. torn' \in BOOLEAN
      BY <1>5 DEF AppendFails
    <2>. QED  BY <1>5, <2>1 DEF AppendFails, InFile, At
  <1>6. ASSUME NEW f \in Flushers, NEW i \in batch[f], Mark(f, i)
        PROVE  OutboxInv'
    <2>1. i \in Rows
      OBVIOUS
    <2>2. /\ status' \in Seq({"pending", "written", "failed"})
          /\ Rows' = Rows
          /\ status'[i] = "written" => step[f] = "mark_written"
          /\ \A j \in Rows \ {i} : status'[j] = status[j]
      BY <1>6, <2>1 DEF Mark
    <2>3. step[f] = "mark_written" => InFile(i)
      BY <1>6 DEF Mark
    <2>4. /\ UNCHANGED <<jsonl, torn, glued, stops, overlapped>>
          /\ batch' = [batch EXCEPT ![f] = @ \ {i}]
          /\ step' = [step EXCEPT ![f] = "append"]
      BY <1>6 DEF Mark
    <2>5. TypeOK'
      BY <2>2, <2>4
    <2>6. WrittenIsInFile'
      BY <2>2, <2>3, <2>4 DEF InFile
    <2>7. FlushInv'
      BY <2>2, <2>4 DEF InFile, At
    <2>. QED  BY <2>5, <2>6, <2>7
  <1>7. ASSUME NEW f \in Flushers, NEW fragment \in BOOLEAN,
               Stop(f, fragment)
        PROVE  OutboxInv'
    <2>1. torn' \in BOOLEAN
      BY <1>7 DEF Stop
    <2>2. /\ batch' = [batch EXCEPT ![f] = {}]
          /\ step' = [step EXCEPT ![f] = "append"]
          /\ stops' = stops + 1
          /\ UNCHANGED <<status, jsonl, glued, overlapped>>
      BY <1>7 DEF Stop
    <2>3. TypeOK'
      BY <2>1, <2>2
    <2>. QED  BY <2>2, <2>3 DEF InFile, At
  <1>. QED  BY <1>1, <1>2, <1>3, <1>4, <1>5, <1>6, <1>7 DEF Next

\* Rows, lines, batches and marks keep their types, whatever the flushes do.
THEOREM OutboxTypes == Spec => []TypeOK
  <1>1. OutboxInv => TypeOK
    BY DEF OutboxInv
  <1>. QED  BY <1>1, InitOutbox, StepOutbox, PTL DEF Spec

\* No flush, interrupted or not, alone or not, ever marks a row written whose
\* line is not in the file.
THEOREM NoSilentLoss == Spec => []WrittenIsInFile
  <1>1. OutboxInv => WrittenIsInFile
    BY DEF OutboxInv
  <1>. QED  BY <1>1, InitOutbox, StepOutbox, PTL DEF Spec

-----------------------------------------------------------------------------
(* Flushes that run one at a time *)

\* While no two flushes have overlapped, at most one has a batch, and that
\* batch is a prefix of the pending rows: every row in it is pending and comes
\* before every pending row that is not in it.
AloneInv ==
    ~ overlapped =>
        /\ \A f, g \in Flushers : batch[f] # {} /\ batch[g] # {} => f = g
        /\ \A f \in Flushers :
              /\ batch[f] \subseteq Pending
              /\ \A i \in batch[f], j \in Pending \ batch[f] : i < j

\* Lines are written for rows that exist.
LinesOfRows == \A k \in DOMAIN jsonl : jsonl[k] \in Rows

\* The rows are an interval of numbers.
LEMMA RowNumbers ==
    ASSUME TypeOK
    PROVE  /\ Rows = 1 .. Len(status)
           /\ Len(status) \in Nat
           /\ Rows \subseteq Nat
           /\ IsFiniteSet(Rows)
           /\ IsFiniteSet(Pending)
  <1>1. Rows = 1 .. Len(status) /\ Len(status) \in Nat
    BY DEF TypeOK, Rows
  <1>2. IsFiniteSet(1 .. Len(status))
    BY <1>1, FS_Interval
  <1>3. Pending \in SUBSET Rows
    BY DEF Pending
  <1>4. IsFiniteSet(Rows)
    BY <1>1, <1>2
  <1>5. IsFiniteSet(Pending)
    BY <1>3, <1>4, FS_Subset
  <1>. QED  BY <1>1, <1>4, <1>5

\* pending_events returns a prefix of the pending rows: ORDER BY and LIMIT.
LEMMA PendingPrefix ==
    ASSUME TypeOK
    PROVE  /\ PendingEvents \subseteq Pending
           /\ \A i \in PendingEvents, j \in Pending \ PendingEvents : i < j
  <1>0. PendingEvents \subseteq Pending /\ \A l \in Pending : l \in Nat
    BY RowNumbers DEF PendingEvents, Pending
  <1>1. SUFFICES ASSUME NEW i \in PendingEvents, NEW j \in Pending, j <= i
                 PROVE  j \in PendingEvents
    BY <1>0
  <1> DEFINE Before(k) == {l \in Pending : l < k}
  <1>2. i \in Nat /\ j \in Nat
    BY <1>0
  <1>3. Before(j) \subseteq Before(i) /\ Before(i) \subseteq Pending
    <2>1. \A l \in Pending : l < j => l < i
      BY <1>0, <1>1, <1>2
    <2>. QED  BY <2>1
  <1>4. IsFiniteSet(Before(i)) /\ IsFiniteSet(Before(j))
    BY <1>3, RowNumbers, FS_Subset
  <1>5. /\ Cardinality(Before(j)) \in Nat
        /\ Cardinality(Before(i)) \in Nat
        /\ Cardinality(Before(j)) <= Cardinality(Before(i))
    BY <1>3, <1>4, FS_Subset, FS_CardinalityType
  <1>6. Cardinality(Before(i)) < Limit /\ Limit \in Nat
    BY OutboxAssumption DEF PendingEvents
  <1>7. Cardinality(Before(j)) < Limit
    BY <1>5, <1>6
  <1>. QED  BY <1>7 DEF PendingEvents

\* Once flushes have overlapped they have: the history is never forgotten.
LEMMA OverlapIsHistory ==
    ASSUME TypeOK, [Next]_vars
    PROVE  overlapped => overlapped'
  <1>1. CASE UNCHANGED vars
    BY <1>1 DEF vars
  <1>2. CASE Next
    BY <1>2 DEF Next, Enqueue, Select, AppendLine, AppendFails, Mark, Stop
  <1>. QED  BY <1>1, <1>2

\* A new row comes after all others.
LEMMA EnqueueRow ==
    ASSUME TypeOK, Enqueue
    PROVE  /\ Rows' = Rows \cup {Len(status) + 1}
           /\ Pending' = Pending \cup {Len(status) + 1}
           /\ \A i \in Rows : i < Len(status) + 1
  <1> DEFINE n == Len(status)
  <1>1. /\ status \in Seq({"pending", "written", "failed"})
        /\ n \in Nat
        /\ Rows = 1 .. n
    BY RowNumbers DEF TypeOK
  <1>2. /\ Rows' = 1 .. n + 1
        /\ status'[n + 1] = "pending"
        /\ \A i \in 1 .. n : status'[i] = status[i]
    BY <1>1 DEF Enqueue, Rows
  <1>3. 1 .. n + 1 = (1 .. n) \cup {n + 1}
    BY <1>1
  <1> HIDE DEF n
  <1>4. Pending' = Pending \cup {n + 1}
    BY <1>1, <1>2, <1>3 DEF Pending
  <1>. QED  BY <1>1, <1>2, <1>3, <1>4 DEF n

\* A row that is marked is no longer pending, and no other row changes.
LEMMA MarkRow ==
    ASSUME OutboxInv, NEW f \in Flushers, NEW i \in batch[f], Mark(f, i)
    PROVE  /\ Rows' = Rows
           /\ i \in Rows
           /\ status'[i] = IF step[f] = "mark_written" THEN "written" ELSE "failed"
           /\ \A j \in Rows \ {i} : status'[j] = status[j]
           /\ Pending' = Pending \ {i}
  <1>1. i \in Rows
    BY DEF OutboxInv, FlushInv
  <1>2. /\ Rows' = Rows
        /\ status'[i] = IF step[f] = "mark_written" THEN "written" ELSE "failed"
        /\ \A j \in Rows \ {i} : status'[j] = status[j]
    BY <1>1 DEF Mark, OutboxInv, TypeOK, Rows
  <1>3. Pending' = Pending \ {i}
    BY <1>1, <1>2 DEF Pending
  <1>. QED  BY <1>1, <1>2, <1>3

\* Every step keeps a lone flush's batch a prefix of the pending rows.
LEMMA StepAlone == OutboxInv /\ AloneInv /\ [Next]_vars => AloneInv'
  <1> SUFFICES ASSUME OutboxInv, AloneInv, [Next]_vars, ~ overlapped'
               PROVE  AloneInv'
    BY DEF AloneInv
  <1>0. TypeOK /\ ~ overlapped
    BY OverlapIsHistory DEF OutboxInv
  <1>1. CASE UNCHANGED vars
    BY <1>1 DEF vars, AloneInv, Pending, Rows
  <1>2. CASE Enqueue
    <2>1. /\ Pending' = Pending \cup {Len(status) + 1}
          /\ \A i \in Rows : i < Len(status) + 1
      BY <1>0, <1>2, EnqueueRow
    <2>2. UNCHANGED batch /\ \A f \in Flushers : batch[f] \subseteq Rows
      BY <1>2 DEF Enqueue, OutboxInv, FlushInv
    <2>. QED  BY <1>0, <2>1, <2>2 DEF AloneInv
  <1>3. ASSUME NEW f \in Flushers, Select(f) PROVE AloneInv'
    <2>1. /\ batch' = [batch EXCEPT ![f] = PendingEvents]
          /\ \A g \in Flushers \ {f} : batch[g] = {}
          /\ Pending' = Pending
      BY <1>0, <1>3 DEF Select, Pending, Rows
    <2>2. /\ batch'[f] = PendingEvents
          /\ \A g \in Flushers \ {f} : batch'[g] = {}
      BY <1>0, <2>1 DEF TypeOK
    <2>. QED  BY <1>0, <2>1, <2>2, PendingPrefix DEF AloneInv
  <1>4. ASSUME NEW f \in Flushers, NEW i \in batch[f], AppendLine(f, i)
        PROVE  AloneInv'
    BY <1>0, <1>4 DEF AppendLine, AloneInv, Pending, Rows
  <1>5. ASSUME NEW f \in Flushers, NEW fragment \in BOOLEAN,
               AppendFails(f, fragment)
        PROVE  AloneInv'
    BY <1>0, <1>5 DEF AppendFails, AloneInv, Pending, Rows
  <1>6. ASSUME NEW f \in Flushers, NEW i \in batch[f], Mark(f, i)
        PROVE  AloneInv'
    <2>1. Pending' = Pending \ {i}
      BY <1>6, MarkRow
    <2>2. /\ batch'[f] = batch[f] \ {i}
          /\ \A g \in Flushers \ {f} : batch'[g] = batch[g]
      BY <1>0, <1>6 DEF Mark, TypeOK
    <2>3. \A g \in Flushers \ {f} : batch[g] = {}
      BY <1>0 DEF AloneInv
    <2>. QED  BY <1>0, <2>1, <2>2, <2>3 DEF AloneInv
  <1>7. ASSUME NEW f \in Flushers, NEW fragment \in BOOLEAN, Stop(f, fragment)
        PROVE  AloneInv'
    <2>1. /\ batch'[f] = {}
          /\ \A g \in Flushers \ {f} : batch'[g] = batch[g]
          /\ Pending' = Pending
      BY <1>0, <1>7 DEF Stop, TypeOK, Pending, Rows
    <2>. QED  BY <1>0, <2>1 DEF AloneInv
  <1>. QED  BY <1>1, <1>2, <1>3, <1>4, <1>5, <1>6, <1>7 DEF Next

OrderInv == LinesOfRows /\ FileInOrder

\* Every step keeps the file in order, while flushes run one at a time.
LEMMA StepOrder ==
    OutboxInv /\ AloneInv /\ OrderInv /\ [Next]_vars => OrderInv'
  <1> SUFFICES ASSUME OutboxInv, AloneInv, OrderInv, [Next]_vars
               PROVE  OrderInv'
    OBVIOUS
  <1>0. /\ TypeOK
        /\ overlapped => overlapped'
        /\ \A i \in Rows : i \in Nat
        /\ \A k \in DOMAIN jsonl : jsonl[k] \in Nat
    BY OverlapIsHistory, RowNumbers DEF OutboxInv, OrderInv, LinesOfRows
  <1>1. ASSUME jsonl' = jsonl, Rows' = Rows, Pending' \subseteq Pending
        PROVE  OrderInv'
    BY <1>0, <1>1 DEF OrderInv, LinesOfRows, FileInOrder
  <1>2. CASE UNCHANGED vars
    BY <1>1, <1>2 DEF vars, Rows, Pending
  <1>3. CASE Enqueue
    <2>1. /\ Rows' = Rows \cup {Len(status) + 1}
          /\ Pending' = Pending \cup {Len(status) + 1}
          /\ \A i \in Rows : i < Len(status) + 1
      BY <1>0, <1>3, EnqueueRow
    <2>2. UNCHANGED jsonl
      BY <1>3 DEF Enqueue
    <2>3. \A k \in DOMAIN jsonl : jsonl[k] <= Len(status) + 1
      BY <1>0, <2>1, RowNumbers DEF OrderInv, LinesOfRows
    <2>. QED  BY <1>0, <2>1, <2>2, <2>3 DEF OrderInv, LinesOfRows, FileInOrder
  <1>4. ASSUME NEW f \in Flushers, NEW i \in batch[f], AppendLine(f, i)
        PROVE  OrderInv'
    <2> DEFINE n == Len(jsonl)
    <2>1. /\ n \in Nat
          /\ DOMAIN jsonl = 1 .. n
          /\ DOMAIN jsonl' = 1 .. n + 1
          /\ jsonl'[n + 1] = i
          /\ \A k \in 1 .. n : jsonl'[k] = jsonl[k]
      BY <1>0, <1>4 DEF AppendLine, TypeOK
    <2>2. i \in Rows /\ Rows' = Rows /\ Pending' = Pending
      BY <1>4 DEF AppendLine, Rows, Pending, OutboxInv, FlushInv
    <2> HIDE DEF n
    <2>3. LinesOfRows'
      BY <2>1, <2>2 DEF OrderInv, LinesOfRows
    <2>4. ASSUME ~ overlapped'
          PROVE  /\ \A j \in Pending : i <= j
                 /\ \A k \in 1 .. n : jsonl[k] <= i
      <3>1. ~ overlapped /\ i \in Pending
        BY <1>0, <1>4, <2>4 DEF AloneInv
      <3>2. \A j \in Pending : j \in Nat
        BY <1>0 DEF Pending
      <3>3. \A j \in Pending : i <= j
        BY <1>0, <1>4, <2>2, <3>1, <3>2 DEF AppendLine, At, AloneInv
      <3>. QED  BY <2>1, <3>1, <3>3 DEF OrderInv, FileInOrder
    <2>5. FileInOrder'
      <3> SUFFICES ASSUME ~ overlapped'
                   PROVE  /\ \A k, l \in DOMAIN jsonl' :
                                k < l => jsonl'[k] <= jsonl'[l]
                          /\ \A k \in DOMAIN jsonl' : \A j \in Pending' :
                                jsonl'[k] <= j
        BY DEF FileInOrder
      <3>1. \A k, l \in 1 .. n + 1 : k < l =>
               k \in 1 .. n /\ (l \in 1 .. n \/ l = n + 1)
        BY <2>1
      <3>2. /\ \A k, l \in 1 .. n : k < l => jsonl[k] <= jsonl[l]
            /\ \A k \in 1 .. n : \A j \in Pending : jsonl[k] <= j
        BY <1>0, <2>1 DEF OrderInv, FileInOrder
      <3>3. \A k \in 1 .. n + 1 : k \in 1 .. n \/ k = n + 1
        BY <2>1
      <3>. QED  BY <2>1, <2>2, <2>4, <3>1, <3>2, <3>3
    <2>. QED  BY <2>3, <2>5 DEF OrderInv
  <1>5. ASSUME NEW f \in Flushers, NEW i \in batch[f], Mark(f, i)
        PROVE  OrderInv'
    <2>1. Rows' = Rows /\ Pending' = Pending \ {i} /\ jsonl' = jsonl
      BY <1>5, MarkRow DEF Mark
    <2>. QED  BY <1>1, <2>1
  <1>6. ASSUME NEW f \in Flushers,
               \/ Select(f)
               \/ \E fragment \in BOOLEAN :
                     AppendFails(f, fragment) \/ Stop(f, fragment)
        PROVE  OrderInv'
    <2>1. UNCHANGED <<status, jsonl>>
      BY <1>6 DEF Select, AppendFails, Stop
    <2>. QED  BY <1>1, <2>1 DEF Rows, Pending
  <1>. QED  BY <1>2, <1>3, <1>4, <1>5, <1>6 DEF Next

\* While flushes run one at a time the file is in sequence order, for any batch
\* limit and wherever they are interrupted, and no row before a line of it is
\* still pending.
THEOREM OrderedFile == Spec => []FileInOrder
  <1>1. Init => AloneInv /\ OrderInv
    BY DEF Init, AloneInv, OrderInv, LinesOfRows, FileInOrder
  <1>2. OrderInv => FileInOrder
    BY DEF OrderInv
  <1>. QED
    BY <1>1, <1>2, InitOutbox, StepOutbox, StepAlone, StepOrder, PTL DEF Spec

-----------------------------------------------------------------------------
(* What fragments can cost *)

Flag(b) == IF b THEN 1 ELSE 0

Failed == {i \in Rows : status[i] = "failed"}

\* An append has failed and its row is about to be marked.
Failing == \E f \in Flushers : step[f] = "mark_failed"

\* The balance of the account: g glued lines and a fragment t on one side, c
\* failures and interruptions and a failure p in progress on the other.
Balanced(g, t, c, p) == g <= c /\ g + t <= c + p

\* Every glued line is paid for by a row marked failed or by an interrupted
\* flush, and a fragment the file still ends in by another of them or by a
\* failed append whose row is about to be marked.
LossInv ==
    /\ glued \subseteq DOMAIN jsonl
    /\ ~ overlapped =>
          Balanced(Cardinality(glued), Flag(torn),
                   Cardinality(Failed) + stops, Flag(Failing))

\* A flag is 0 or 1.
LEMMA FlagValues ==
    /\ \A b : Flag(b) \in 0 .. 1
    /\ \A b : b => Flag(b) = 1
    /\ \A b : ~ b => Flag(b) = 0
  BY DEF Flag

\* The sets whose elements are counted are finite.
LEMMA CountedAreFinite ==
    ASSUME TypeOK, glued \subseteq DOMAIN jsonl
    PROVE  /\ IsFiniteSet(glued)
           /\ Cardinality(glued) \in Nat
           /\ IsFiniteSet(Failed)
           /\ Cardinality(Failed) \in Nat
  <1>1. DOMAIN jsonl = 1 .. Len(jsonl) /\ Len(jsonl) \in Nat
    BY DEF TypeOK
  <1>2. IsFiniteSet(DOMAIN jsonl)
    BY <1>1, FS_Interval
  <1>3. IsFiniteSet(glued)
    BY <1>2, FS_Subset
  <1>4. IsFiniteSet(Failed)
    <2>1. Failed \in SUBSET Rows
      BY DEF Failed
    <2>. QED  BY <2>1, RowNumbers, FS_Subset
  <1>. QED  BY <1>3, <1>4, FS_CardinalityType

\* Of the flushes only one that has a batch can be about to mark a row failed,
\* and while they run one at a time there is only one of these.
LEMMA OnlyFailing ==
    ASSUME OutboxInv, AloneInv, ~ overlapped, NEW f \in Flushers, batch[f] # {}
    PROVE  /\ \A g \in Flushers \ {f} : step[g] = "append"
           /\ Failing <=> step[f] = "mark_failed"
  <1>1. \A g \in Flushers \ {f} : step[g] = "append"
    BY DEF OutboxInv, FlushInv, AloneInv
  <1>. QED  BY <1>1 DEF Failing

\* How the account moves: a fragment becomes a glued line while no append has
\* failed, an append fails, a row is marked failed or a flush interrupted.
LEMMA BalanceMoves ==
    ASSUME NEW g \in Nat, NEW t \in 0 .. 1, NEW c \in Nat, NEW p \in 0 .. 1,
           Balanced(g, t, c, p), NEW h \in Nat, NEW u \in 0 .. 1
    PROVE  /\ p = 0 /\ h + u = g + t => Balanced(h, u, c, 0)
           /\ Balanced(g, u, c, 1)
           /\ p = 0 \/ u = t => Balanced(g, u, c + 1, 0)
  BY DEF Balanced

\* Every step keeps the account.
LEMMA StepLoss == OutboxInv /\ AloneInv /\ LossInv /\ [Next]_vars => LossInv'
  <1> SUFFICES ASSUME OutboxInv, AloneInv, LossInv, [Next]_vars PROVE LossInv'
    OBVIOUS
  <1> DEFINE G == Cardinality(glued)
             F == Cardinality(Failed)
             C == F + stops
             t == Flag(torn)
             p == Flag(Failing)
  <1>0. /\ TypeOK
        /\ overlapped => overlapped'
    BY OverlapIsHistory DEF OutboxInv
  <1>1. /\ G \in Nat /\ F \in Nat /\ stops \in Nat /\ C \in Nat
        /\ IsFiniteSet(glued) /\ IsFiniteSet(Failed)
    BY <1>0, CountedAreFinite DEF LossInv, TypeOK
  <1>2. t \in 0 .. 1 /\ p \in 0 .. 1 /\ t' \in 0 .. 1 /\ p' \in 0 .. 1
    BY FlagValues
  <1>3. ~ overlapped => Balanced(G, t, C, p)
    BY DEF LossInv
  <1>4. glued \subseteq DOMAIN jsonl
    BY DEF LossInv
  <1>5. /\ Failing => p = 1
        /\ ~ Failing => p = 0
        /\ Failing' => p' = 1
        /\ ~ Failing' => p' = 0
    BY FlagValues
  <1>6. (torn' <=> torn) => t' = t
    BY DEF Flag
  <1>7. ASSUME glued' \subseteq DOMAIN jsonl',
               ~ overlapped => Balanced(G', t', C', p')
        PROVE  LossInv'
    BY <1>0, <1>7 DEF LossInv
  <1> HIDE DEF G, F, C, t, p
  <1>8. ASSUME UNCHANGED <<jsonl, glued, torn, stops, step>>, Failed' = Failed
        PROVE  LossInv'
    <2>1. G' = G /\ C' = C /\ t' = t
      BY <1>6, <1>8 DEF G, C, F
    <2>2. p' = p
      BY <1>8 DEF p, Failing
    <2>. QED  BY <1>3, <1>4, <1>7, <1>8, <2>1, <2>2
  <1>9. CASE UNCHANGED vars
    BY <1>8, <1>9 DEF vars, Failed, Rows
  <1>10. CASE Enqueue
    <2>1. Failed' = Failed
      <3>1. /\ Rows = 1 .. Len(status)
            /\ Rows' = 1 .. Len(status) + 1
            /\ Len(status) \in Nat
            /\ status'[Len(status) + 1] = "pending"
            /\ \A i \in Rows : status'[i] = status[i]
        BY <1>0, <1>10, RowNumbers DEF Enqueue, TypeOK, Rows
      <3>. QED  BY <3>1 DEF Failed
    <2>. QED  BY <1>8, <1>10, <2>1 DEF Enqueue
  <1>11. ASSUME NEW f \in Flushers, Select(f) PROVE LossInv'
    BY <1>8, <1>11 DEF Select, Failed, Rows
  <1>12. ASSUME NEW f \in Flushers, NEW i \in batch[f], AppendLine(f, i)
         PROVE  LossInv'
    <2>1. /\ Len(jsonl) \in Nat
          /\ DOMAIN jsonl = 1 .. Len(jsonl)
          /\ DOMAIN jsonl' = 1 .. Len(jsonl) + 1
      BY <1>0, <1>12 DEF AppendLine, TypeOK
    <2>2. glued' = IF torn THEN glued \cup {Len(jsonl) + 1} ELSE glued
      BY <1>12 DEF AppendLine
    <2>3. Len(jsonl) + 1 \notin glued
      BY <1>4, <2>1
    <2>4. G' + t' = G + t /\ G' \in Nat
      <3>1. t' = 0
        BY <1>12 DEF AppendLine, t, Flag
      <3>2. CASE torn
        <4>1. glued' = glued \cup {Len(jsonl) + 1} /\ t = 1
          BY <2>2, <3>2 DEF t, Flag
        <4>2. G' = G + 1
          BY <1>1, <2>3, <4>1, FS_AddElement DEF G
        <4>. QED  BY <1>1, <3>1, <4>1, <4>2
      <3>3. CASE ~ torn
        <4>1. glued' = glued /\ t = 0
          BY <2>2, <3>3 DEF t, Flag
        <4>2. G' = G
          BY <4>1 DEF G
        <4>. QED  BY <1>1, <3>1, <4>1, <4>2
      <3>. QED  BY <3>2, <3>3
    <2>5. /\ UNCHANGED <<status, stops, overlapped, batch>>
          /\ step[f] = "append"
          /\ step' = [step EXCEPT ![f] = "mark_written"]
      BY <1>12 DEF AppendLine
    <2>6. C' = C
      BY <2>5 DEF C, F, Failed, Rows
    <2>7. ~ overlapped => p = 0 /\ p' = 0
      <3> SUFFICES ASSUME ~ overlapped PROVE ~ Failing /\ ~ Failing'
        BY <1>5
      <3>1. ~ Failing /\ \A g \in Flushers \ {f} : step[g] = "append"
        BY <1>12, <2>5, OnlyFailing
      <3>. QED  BY <1>0, <2>5, <3>1 DEF Failing, TypeOK
    <2>8. glued' \subseteq DOMAIN jsonl'
      BY <1>4, <2>1, <2>2
    <2>9. ~ overlapped => Balanced(G', t', C', p')
      <3> SUFFICES ASSUME ~ overlapped PROVE Balanced(G', t', C', 0)
        BY <2>7
      <3>1. Balanced(G, t, C, p) /\ p = 0
        BY <1>3, <2>7
      <3>2. Balanced(G', t', C, 0)
        BY <1>1, <1>2, <2>4, <3>1, BalanceMoves
      <3>. QED  BY <2>6, <3>2
    <2>. QED  BY <1>7, <2>8, <2>9
  <1>13. ASSUME NEW f \in Flushers, NEW fragment \in BOOLEAN,
                AppendFails(f, fragment)
         PROVE  LossInv'
    <2>1. /\ UNCHANGED <<status, jsonl, glued, batch, stops, overlapped>>
          /\ batch[f] # {}
          /\ step[f] = "append"
          /\ step' = [step EXCEPT ![f] = "mark_failed"]
      BY <1>13 DEF AppendFails
    <2>2. G' = G /\ C' = C
      BY <2>1 DEF G, C, F, Failed, Rows
    <2>3. p' = 1
      BY <1>0, <1>5, <2>1 DEF Failing, TypeOK
    <2>4. ~ overlapped => Balanced(G', t', C', p')
      BY <1>1, <1>2, <1>3, <2>2, <2>3, BalanceMoves
    <2>. QED  BY <1>4, <1>7, <2>1, <2>4
  <1>14. ASSUME NEW f \in Flushers, NEW i \in batch[f], Mark(f, i)
         PROVE  LossInv'
    <2>1. /\ UNCHANGED <<jsonl, torn, glued, stops, overlapped>>
          /\ step[f] \in {"mark_written", "mark_failed"}
          /\ step' = [step EXCEPT ![f] = "append"]
      BY <1>14 DEF Mark
    <2>2. G' = G /\ t' = t
      BY <1>6, <2>1 DEF G
    <2>3. ASSUME ~ overlapped
          PROVE  p' = 0 /\ ((p = 0 /\ C' = C) \/ C' = C + 1)
      <3>1. /\ Rows' = Rows
            /\ i \in Rows
            /\ status'[i] = IF step[f] = "mark_written" THEN "written"
                                                        ELSE "failed"
            /\ \A j \in Rows \ {i} : status'[j] = status[j]
        BY <1>14, MarkRow
      <3>2. i \notin Failed
        BY <2>3 DEF AloneInv, Pending, Failed
      <3>3. /\ Failing <=> step[f] = "mark_failed"
            /\ \A g \in Flushers \ {f} : step[g] = "append"
        BY <1>14, <2>3, OnlyFailing
      <3>4. p' = 0
        BY <1>0, <1>5, <2>1, <3>3 DEF Failing, TypeOK
      <3>5. CASE step[f] = "mark_written"
        <4>1. Failed' = Failed
          BY <3>1, <3>2, <3>5 DEF Failed
        <4>2. C' = C /\ p = 0
          BY <1>5, <2>1, <3>3, <3>5, <4>1 DEF C, F
        <4>. QED  BY <3>4, <4>2
      <3>6. CASE step[f] = "mark_failed"
        <4>1. Failed' = Failed \cup {i}
          BY <3>1, <3>6 DEF Failed
        <4>2. F' = F + 1
          BY <1>1, <3>2, <4>1, FS_AddElement DEF F
        <4>3. C' = C + 1
          BY <1>1, <2>1, <4>2 DEF C
        <4>. QED  BY <3>4, <4>3
      <3>. QED  BY <2>1, <3>5, <3>6
    <2>4. ~ overlapped => Balanced(G', t', C', p')
      BY <1>1, <1>2, <1>3, <2>2, <2>3, BalanceMoves DEF Balanced
    <2>. QED  BY <1>4, <1>7, <2>1, <2>4
  <1>15. ASSUME NEW f \in Flushers, NEW fragment \in BOOLEAN, Stop(f, fragment)
         PROVE  LossInv'
    <2>1. /\ UNCHANGED <<status, jsonl, glued, overlapped>>
          /\ batch[f] # {}
          /\ step' = [step EXCEPT ![f] = "append"]
          /\ stops' = stops + 1
      BY <1>15 DEF Stop
    <2>2. step[f] # "append" => (torn' <=> torn)
      BY <1>15 DEF Stop
    <2>3. G' = G /\ C' = C + 1
      <3>1. G' = G /\ F' = F
        BY <2>1 DEF G, F, Failed, Rows
      <3>. QED  BY <1>1, <2>1, <3>1 DEF C
    <2>4. ASSUME ~ overlapped
          PROVE  p' = 0 /\ (p = 0 \/ t' = t)
      <3>1. /\ Failing <=> step[f] = "mark_failed"
            /\ \A g \in Flushers \ {f} : step[g] = "append"
        BY <2>1, <2>4, OnlyFailing
      <3>2. p' = 0
        BY <1>0, <1>5, <2>1, <3>1 DEF Failing, TypeOK
      <3>3. p = 0 \/ t' = t
        BY <1>5, <1>6, <2>2, <3>1
      <3>. QED  BY <3>2, <3>3
    <2>5. ~ overlapped => Balanced(G', t', C', p')
      BY <1>1, <1>2, <1>3, <2>3, <2>4, BalanceMoves
    <2>. QED  BY <1>4, <1>7, <2>1, <2>5
  <1>. QED
    BY <1>9, <1>10, <1>11, <1>12, <1>13, <1>14, <1>15 DEF Next

\* Every unreadable row has a glued line of its own.
LEMMA UnreadableHaveLines ==
    ASSUME OutboxInv, IsFiniteSet(glued)
    PROVE  /\ Cardinality({i \in Rows : Unreadable(i)}) \in Nat
           /\ Cardinality({i \in Rows : Unreadable(i)}) <= Cardinality(glued)
  <1> DEFINE U == {i \in Rows : Unreadable(i)}
             line == [i \in U |-> CHOOSE k \in glued : jsonl[k] = i]
  <1>1. \A i \in U : \E k \in glued : jsonl[k] = i
    BY DEF OutboxInv, WrittenIsInFile, InFile, Unreadable, LinesOf
  <1>2. \A i \in U : line[i] \in glued /\ jsonl[line[i]] = i
    BY <1>1
  <1>3. line \in [U -> glued]
    BY <1>2
  <1> HIDE DEF line, U
  <1>4. line \in Injection(U, glued)
    BY <1>2, <1>3 DEF Injection, IsInjective
  <1>5. Cardinality(U) \in Nat /\ Cardinality(U) <= Cardinality(glued)
    BY <1>4, FS_Injection, FS_CardinalityType
  <1>. QED  BY <1>5 DEF U

\* While flushes run one at a time, each failed append and each interrupted
\* flush spoils at most one later event, for any batch limit and any number of
\* events.
THEOREM BoundedLoss == Spec => []LossBounded
  <1>1. Init => AloneInv /\ LossInv
    <2> SUFFICES ASSUME Init PROVE AloneInv /\ LossInv
      OBVIOUS
    <2>1. AloneInv
      BY DEF Init, AloneInv
    <2>2. glued = {} /\ Failed = {} /\ stops = 0 /\ ~ torn
      BY DEF Init, Failed, Rows
    <2>3. Cardinality(glued) = 0 /\ Cardinality(Failed) = 0 /\ Flag(torn) = 0
      BY <2>2, FS_EmptySet, FlagValues
    <2>4. Flag(Failing) \in 0 .. 1
      BY FlagValues
    <2>5. Balanced(0, 0, 0, Flag(Failing))
      BY <2>4 DEF Balanced
    <2>. QED  BY <2>1, <2>2, <2>3, <2>5 DEF LossInv
  <1>2. OutboxInv /\ AloneInv /\ LossInv => LossBounded
    <2> SUFFICES ASSUME OutboxInv, AloneInv, LossInv, ~ overlapped
                 PROVE  Cardinality({i \in Rows : Unreadable(i)})
                           <= Cardinality(Failed) + stops
      BY DEF LossBounded, Failed
    <2>1. /\ IsFiniteSet(glued) /\ Cardinality(glued) \in Nat
          /\ Cardinality(Failed) \in Nat /\ stops \in Nat
      BY CountedAreFinite DEF OutboxInv, LossInv, TypeOK
    <2> DEFINE U == {i \in Rows : Unreadable(i)}
    <2>2. Cardinality(U) <= Cardinality(glued) /\ Cardinality(U) \in Nat
      BY <2>1, UnreadableHaveLines
    <2>3. Cardinality(glued) <= Cardinality(Failed) + stops
      BY DEF LossInv, Balanced
    <2> HIDE DEF U
    <2>4. Cardinality(U) <= Cardinality(Failed) + stops
      BY <2>1, <2>2, <2>3
    <2>. QED  BY <2>4 DEF U
  <1>. QED
    BY <1>1, <1>2, InitOutbox, StepOutbox, StepAlone, StepLoss, PTL DEF Spec

=============================================================================
