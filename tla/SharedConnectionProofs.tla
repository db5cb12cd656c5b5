------------------------ MODULE SharedConnectionProofs ------------------------
(***************************************************************************)
(* Proofs about SharedConnection. When every request goes through          *)
(* transaction(), the connection is an atomic store and the events are     *)
(* numbered without gap, for any number of concurrent requests. For every  *)
(* mix of the three kinds of request, only a sweep or a plain writer that  *)
(* failed leaves a transaction open, and losing an acknowledged change     *)
(* takes a rollback.                                                       *)
(***************************************************************************)
EXTENDS SharedConnection, TLAPS

-----------------------------------------------------------------------------
(* Types, whatever the requests *)

\* The next sequence number is positive and above all that are in use; it is
\* 1 or follows one in use.
LEMMA NextSequenceFacts ==
    ASSUME TypeOK, NEW n \in NextSequence
    PROVE  /\ n \in Nat \ {0}
           /\ \A e \in working.events : e.sequence < n
           /\ n = 1 \/ \E e \in working.events : e.sequence = n - 1
  <1>1. \A e \in working.events : e.sequence \in Nat
    BY DEF TypeOK, Database, Event
  <1>2. n = 1 \/ \E e \in working.events : n = e.sequence + 1
    BY DEF NextSequence
  <1>. QED  BY <1>1, <1>2 DEF NextSequence

\* A request that is about to insert its event has read a positive number.
SeqRead == \A r \in Requests : pc[r] = "insert" => seq[r] # 0

\* Every step keeps the types.
LEMMA StepTypes == TypeOK /\ SeqRead /\ [Next]_vars => TypeOK' /\ SeqRead'
  <1> SUFFICES ASSUME TypeOK, SeqRead, [Next]_vars PROVE TypeOK' /\ SeqRead'
    OBVIOUS
  <1> USE DEF TypeOK, SeqRead, Goto, Running, Ended
  <1>1. CASE UNCHANGED vars
    BY <1>1 DEF vars
  <1>2. CASE Crash
    BY <1>2 DEF Crash
  <1>3. ASSUME NEW r \in Requests,
               \/ Begin(r)
               \/ BeginRefused(r)
               \/ SweepNothing(r)
               \/ WriteRaises(r)
               \/ InsertEventRaises(r)
               \/ Commit(r)
               \/ Rollback(r)
        PROVE  TypeOK' /\ SeqRead'
    BY <1>3 DEF Begin, BeginRefused, SweepNothing, WriteRaises,
                InsertEventRaises, Commit, Rollback, AfterRaise
  <1>4. ASSUME NEW r \in Requests, Write(r) PROVE TypeOK' /\ SeqRead'
    <2>1. working' \in Database
      BY <1>4 DEF Write, Database
    <2>. QED  BY <1>4, <2>1 DEF Write
  <1>5. ASSUME NEW r \in Requests, ReadSequence(r) PROVE TypeOK' /\ SeqRead'
    <2>1. PICK n \in NextSequence : seq' = [seq EXCEPT ![r] = n]
      BY <1>5 DEF ReadSequence
    <2>2. n \in Nat \ {0}
      BY <2>1, NextSequenceFacts
    <2>. QED  BY <1>5, <2>1, <2>2 DEF ReadSequence
  <1>6. ASSUME NEW r \in Requests, InsertEvent(r) PROVE TypeOK' /\ SeqRead'
    <2>1. [request |-> r, sequence |-> seq[r]] \in Event
      BY <1>6 DEF InsertEvent, Event
    <2>2. working' \in Database
      BY <1>6, <2>1 DEF InsertEvent, Database
    <2>. QED  BY <1>6, <2>2 DEF InsertEvent
  <1>. QED  BY <1>1, <1>2, <1>3, <1>4, <1>5, <1>6 DEF Next

\* The types hold initially.
LEMMA InitTypes == Init => TypeOK /\ SeqRead
  <1>1. [changes |-> {}, events |-> {}] \in Database
    BY DEF Database
  <1>2. Init => pc \in [Requests -> {"ready"}] /\ seq \in [Requests -> {0}]
    BY DEF Init
  <1>3. Init => in_tx \in BOOLEAN
    BY DEF Init
  <1>4. Init => SeqRead
    BY <1>2 DEF SeqRead
  <1>. QED  BY <1>1, <1>2, <1>3, <1>4 DEF Init, TypeOK

\* The tables, labels and numbers keep their types however the requests mix.
THEOREM ConnectionTypes == Spec => []TypeOK
  BY InitTypes, StepTypes, PTL DEF Spec

-----------------------------------------------------------------------------
(* Only transactors *)

\* What the open transaction holds beyond the database, by the position of the
\* request that is in it.
Pending(r) ==
    /\ pc[r] = "write" => working = committed
    /\ pc[r] \in {"sequence", "insert"} =>
          /\ working.changes = committed.changes \cup {r}
          /\ working.events = committed.events
    /\ pc[r] = "insert" => seq[r] \in NextSequence
    /\ pc[r] = "commit" =>
          /\ working.changes = committed.changes \cup {r}
          /\ \E n \in Nat : working.events =
                committed.events \cup {[request |-> r, sequence |-> n]}

\* At most one request is between its BEGIN and its end, exactly while the
\* transaction is open, and the transaction holds what that request wrote.
OneAtATime ==
    /\ in_tx <=> \E r \in Requests : pc[r] \in Running
    /\ \A r, s \in Requests : pc[r] \in Running /\ pc[s] \in Running => r = s
    /\ ~ in_tx => working = committed
    /\ \A r \in Requests : Pending(r)

\* Every step of a connection that serves transactors only keeps OneAtATime.
LEMMA StepOneAtATime ==
    ASSUME Sweeps = {}, PlainWriters = {},
           TypeOK, SeqRead, OneAtATime, [Next]_vars
    PROVE  OneAtATime'
  <1> USE DEF Goto, Running, Ended
  <1>0. Requests = Transactors
    BY DEF Requests
  <1>1. CASE UNCHANGED vars
    BY <1>1 DEF vars, OneAtATime, Pending, NextSequence
  <1>2. CASE Crash
    BY <1>2 DEF Crash, OneAtATime, Pending, TypeOK
  <1>3. ASSUME NEW r \in Requests, Begin(r) PROVE OneAtATime'
    BY <1>3 DEF Begin, OneAtATime, Pending, TypeOK
  <1>4. ASSUME NEW r \in Requests, BeginRefused(r) PROVE OneAtATime'
    BY <1>4 DEF BeginRefused, OneAtATime, Pending, TypeOK, NextSequence
  <1>5. ASSUME NEW r \in Requests, Write(r) PROVE OneAtATime'
    <2>1. pc[r] = "write" /\ pc' = [pc EXCEPT ![r] = "sequence"]
      BY <1>0, <1>5 DEF Write, AtWrite
    <2>2. working = committed
      BY <2>1 DEF OneAtATime, Pending
    <2>3. /\ working'.changes = committed'.changes \cup {r}
          /\ working'.events = committed'.events
      BY <1>5, <2>2 DEF Write, TypeOK, Database
    <2>4. in_tx' = TRUE
      BY <1>5 DEF Write
    <2>. QED  BY <2>1, <2>3, <2>4 DEF OneAtATime, Pending, TypeOK
  <1>6. ASSUME NEW r \in Requests, WriteRaises(r) \/ InsertEventRaises(r)
        PROVE  OneAtATime'
    <2>1. pc[r] \in Running /\ pc' = [pc EXCEPT ![r] = "rollback"]
      BY <1>0, <1>6 DEF WriteRaises, InsertEventRaises, AtWrite, AfterRaise
    <2>2. in_tx' = TRUE /\ UNCHANGED <<working, committed, seq>>
      BY <1>6 DEF WriteRaises, InsertEventRaises
    <2>. QED  BY <2>1, <2>2 DEF OneAtATime, Pending, TypeOK
  <1>7. ASSUME NEW r \in Requests, ReadSequence(r) PROVE OneAtATime'
    <2>1. PICK n \in NextSequence : seq' = [seq EXCEPT ![r] = n]
      BY <1>7 DEF ReadSequence
    <2>2. seq'[r] \in NextSequence'
      BY <1>7, <2>1 DEF ReadSequence, NextSequence, TypeOK
    <2>. QED  BY <1>7, <2>2 DEF ReadSequence, OneAtATime, Pending, TypeOK
  <1>8. ASSUME NEW r \in Requests, InsertEvent(r) PROVE OneAtATime'
    <2>1. /\ working.changes = committed.changes \cup {r}
          /\ working.events = committed.events
      BY <1>8 DEF InsertEvent, OneAtATime, Pending
    <2>2. /\ working'.changes = committed'.changes \cup {r}
          /\ working'.events = committed'.events
                \cup {[request |-> r, sequence |-> seq[r]]}
      BY <1>8, <2>1 DEF InsertEvent, TypeOK, Database
    <2>3. seq[r] \in Nat
      BY DEF TypeOK
    <2>4. in_tx' = TRUE /\ pc[r] = "insert"
          /\ pc' = [pc EXCEPT ![r] = "commit"]
      BY <1>8 DEF InsertEvent
    <2>. QED  BY <2>2, <2>3, <2>4 DEF OneAtATime, Pending, TypeOK
  <1>9. ASSUME NEW r \in Requests, Commit(r) \/ Rollback(r)
        PROVE  OneAtATime'
    <2>1. /\ pc[r] \in Running
          /\ pc'[r] \notin Running
          /\ \A s \in Requests \ {r} : pc'[s] = pc[s]
          /\ in_tx' = FALSE
          /\ working' = committed'
      BY <1>9 DEF Commit, Rollback, TypeOK
    <2>2. \A s \in Requests : pc'[s] \notin Running
      BY <2>1 DEF OneAtATime
    <2>. QED  BY <2>1, <2>2 DEF OneAtATime, Pending
  <1>. QED
    BY <1>1, <1>2, <1>3, <1>4, <1>5, <1>6, <1>7, <1>8, <1>9
    DEF Next, SweepNothing

\* A connection that serves transactors only starts with nobody in a
\* transaction.
LEMMA InitOneAtATime == Init => OneAtATime
  BY DEF Init, OneAtATime, Pending, Running

-----------------------------------------------------------------------------
(* The atomic store *)

\* Every step of such a connection is a step of the atomic store or leaves the
\* store as it is.
LEMMA StepStore ==
    ASSUME Sweeps = {}, PlainWriters = {},
           TypeOK, OneAtATime, [Next]_vars
    PROVE  [Store!Next]_(Store!store)
  <1> DEFINE outcome == [r \in Requests |-> Outcome(pc[r])]
  <1>0. Requests = Transactors
    BY DEF Requests
  <1>1. ASSUME NEW r \in Requests, NEW label,
               pc' = [pc EXCEPT ![r] = label]
        PROVE  outcome' = [outcome EXCEPT ![r] = Outcome(label)]
    BY <1>1 DEF TypeOK
  <1>2. ASSUME NEW r \in Requests, NEW label,
               pc' = [pc EXCEPT ![r] = label],
               Outcome(label) = Outcome(pc[r])
        PROVE  outcome' = outcome
    BY <1>2 DEF TypeOK
  <1>3. CASE UNCHANGED vars
    BY <1>3 DEF vars, Store!store, Announced
  <1>4. CASE Crash
    <2>1. \A r \in Requests : outcome'[r] =
             IF outcome[r] = "pending" THEN "lost" ELSE outcome[r]
      BY <1>4 DEF Crash, Outcome, Ended, TypeOK, Running
    <2>2. outcome' = [r \in Requests |->
             IF outcome[r] = "pending" THEN "lost" ELSE outcome[r]]
      BY <2>1
    <2>. QED  BY <1>4, <2>2 DEF Crash, Store!Next, Store!Crash, Announced
  <1>5. ASSUME NEW r \in Requests, Begin(r) \/ Write(r) \/ WriteRaises(r)
                  \/ ReadSequence(r) \/ InsertEvent(r) \/ InsertEventRaises(r)
        PROVE  UNCHANGED Store!store
    <2>1. \E label \in {"write", "sequence", "insert", "commit", "rollback"} :
             pc' = [pc EXCEPT ![r] = label]
      BY <1>0, <1>5 DEF Begin, Write, WriteRaises, ReadSequence, InsertEvent,
                  InsertEventRaises, Goto, AfterRaise
    <2>2. Outcome(pc[r]) = "pending"
      BY <1>5 DEF Begin, Write, WriteRaises, ReadSequence, InsertEvent,
                  InsertEventRaises, AtWrite, Outcome
    <2>3. outcome' = outcome
      BY <1>2, <2>1, <2>2 DEF Outcome
    <2>4. committed' = committed
      BY <1>5 DEF Begin, Write, WriteRaises, ReadSequence, InsertEvent,
                  InsertEventRaises
    <2>. QED  BY <2>3, <2>4 DEF Store!store, Announced
  <1>6. ASSUME NEW r \in Requests, BeginRefused(r) \/ Rollback(r)
        PROVE  Store!Fail(r)
    <2>1. outcome[r] = "pending"
      BY <1>6 DEF BeginRefused, Rollback, Outcome
    <2>2. outcome' = [outcome EXCEPT ![r] = "error"]
      BY <1>1, <1>6 DEF BeginRefused, Rollback, Goto, Outcome
    <2>3. committed' = committed
      BY <1>6 DEF BeginRefused, Rollback
    <2>. QED  BY <2>1, <2>2, <2>3 DEF Store!Fail, Announced
  <1>7. ASSUME NEW r \in Requests, Commit(r) PROVE Store!Succeed(r)
    <2>1. outcome[r] = "pending"
      BY <1>7 DEF Commit, Outcome
    <2>2. outcome' = [outcome EXCEPT ![r] = "ok"]
      BY <1>1, <1>7 DEF Commit, Goto, Outcome
    <2>3. committed'.changes = committed.changes \cup {r}
      BY <1>7 DEF Commit, OneAtATime, Pending
    <2>4. PICK n \in Nat : committed'.events =
             committed.events \cup {[request |-> r, sequence |-> n]}
      BY <1>7 DEF Commit, OneAtATime, Pending
    <2>5. Announced(committed') = Announced(committed) \cup {r}
      <3> DEFINE new == [request |-> r, sequence |-> n]
      <3>1. new.request = r
        OBVIOUS
      <3>2. committed'.events = committed.events \cup {new}
        BY <2>4
      <3> HIDE DEF new
      <3>. QED  BY <3>1, <3>2 DEF Announced
    <2>. QED  BY <2>1, <2>2, <2>3, <2>5 DEF Store!Succeed, Announced
  <1>. QED
    BY <1>3, <1>4, <1>5, <1>6, <1>7
    DEF Next, SweepNothing, Store!Next

\* A connection whose requests all use transaction() implements the atomic
\* store, for any number of requests: every request ends with its change and
\* its event or with neither.
THEOREM TransactionsAreAtomic ==
    ASSUME Sweeps = {}, PlainWriters = {}
    PROVE  Spec => IsAtomicStore
  <1>1. Init => Store!Init
    BY DEF Init, Store!Init, Announced, Outcome
  <1>2. TypeOK /\ SeqRead /\ OneAtATime /\ [Next]_vars
           => OneAtATime' /\ [Store!Next]_(Store!store)
    BY StepOneAtATime, StepStore
  <1>. QED
    BY <1>1, <1>2, InitTypes, StepTypes, InitOneAtATime, PTL
    DEF Spec, IsAtomicStore, Store!Spec

\* The events of such a connection are numbered 1 .. n at all times.
THEOREM EventsAreNumbered ==
    ASSUME Sweeps = {}, PlainWriters = {}
    PROVE  Spec => []SequenceGapless
  <1>1. Init => SequenceGapless
    BY DEF Init, SequenceGapless
  <1>2. TypeOK /\ SeqRead /\ OneAtATime /\ SequenceGapless /\ [Next]_vars
           => SequenceGapless'
    <2> SUFFICES ASSUME TypeOK, OneAtATime, SequenceGapless, [Next]_vars
                 PROVE  SequenceGapless'
      OBVIOUS
    <2> DEFINE Gapless(events) ==
           \A e \in events :
              /\ e.sequence = 1 \/ \E f \in events : f.sequence = e.sequence - 1
              /\ \A f \in events : f.sequence = e.sequence => f = e
    <2>1. Gapless(committed.events) /\ Gapless(working.events)
      BY DEF SequenceGapless
    <2>2. ASSUME NEW r \in Requests, InsertEvent(r)
          PROVE  Gapless(working'.events)
      <3> DEFINE new == [request |-> r, sequence |-> seq[r]]
      <3>1. seq[r] \in NextSequence
        BY <2>2 DEF InsertEvent, OneAtATime, Pending
      <3>2. /\ seq[r] \in Nat \ {0}
            /\ \A e \in working.events : e.sequence < seq[r]
            /\ seq[r] = 1 \/ \E e \in working.events : e.sequence = seq[r] - 1
        BY <3>1, NextSequenceFacts
      <3>3. working'.events = working.events \cup {new}
        BY <2>2 DEF InsertEvent, TypeOK, Database
      <3>4. \A e \in working.events : e.sequence \in Nat
        BY DEF TypeOK, Database, Event
      <3>5. new.sequence = seq[r]
        OBVIOUS
      <3> HIDE DEF new
      <3>. QED  BY <2>1, <3>2, <3>3, <3>4, <3>5
    <2>3. ASSUME NEW r \in Requests, Write(r)
          PROVE  working'.events = working.events
      BY <2>3 DEF Write, TypeOK, Database
    <2>4. \A db \in {committed', working'} : Gapless(db.events)
      <3>1. CASE UNCHANGED vars \/ Crash
        BY <2>1, <3>1 DEF vars, Crash
      <3>2. ASSUME NEW r \in Requests,
                   \/ Begin(r)
                   \/ BeginRefused(r)
                   \/ SweepNothing(r)
                   \/ WriteRaises(r)
                   \/ ReadSequence(r)
                   \/ InsertEventRaises(r)
                   \/ Commit(r)
                   \/ Rollback(r)
            PROVE  /\ committed' \in {committed, working}
                   /\ working' \in {committed, working}
        BY <3>2 DEF Begin, BeginRefused, SweepNothing, WriteRaises,
                    ReadSequence, InsertEventRaises, Commit, Rollback
      <3>3. ASSUME NEW r \in Requests, Write(r) \/ InsertEvent(r)
            PROVE  Gapless(committed'.events) /\ Gapless(working'.events)
        <4>1. committed' = committed
          BY <3>3 DEF Write, InsertEvent
        <4>. QED  BY <2>1, <2>2, <2>3, <3>3, <4>1
      <3> HIDE DEF Gapless
      <3>. QED  BY <2>1, <3>1, <3>2, <3>3 DEF Next
    <2>. QED  BY <2>4 DEF SequenceGapless
  <1>3. TypeOK /\ SeqRead /\ OneAtATime /\ [Next]_vars => OneAtATime'
    BY StepOneAtATime
  <1>. QED
    BY <1>1, <1>2, <1>3, InitTypes, StepTypes, InitOneAtATime, PTL DEF Spec

-----------------------------------------------------------------------------
(* Any mix of transactors, sweeps and plain writers *)

\* Whatever the mix, an open transaction has somebody in it or was left by a
\* sweep or a plain writer that failed: no transaction() block ever leaves one
\* behind.
THEOREM NoOrphans == Spec => []NoOrphanTransaction
  <1>1. Init => NoOrphanTransaction
    BY DEF Init, NoOrphanTransaction
  <1>2. TypeOK /\ NoOrphanTransaction /\ [Next]_vars => NoOrphanTransaction'
    <2> SUFFICES ASSUME TypeOK, NoOrphanTransaction, [Next]_vars
                 PROVE  NoOrphanTransaction'
      OBVIOUS
    <2>1. CASE UNCHANGED vars
      BY <2>1 DEF vars, NoOrphanTransaction
    <2>2. ASSUME NEW r \in Requests,
                 \/ Begin(r)
                 \/ SweepNothing(r)
                 \/ Write(r)
                 \/ ReadSequence(r)
                 \/ InsertEvent(r)
          PROVE  NoOrphanTransaction'
      <3>1. pc'[r] \in Running
        BY <2>2 DEF Begin, SweepNothing, Write, ReadSequence, InsertEvent, Goto,
                    Running, TypeOK
      <3>. QED  BY <3>1 DEF NoOrphanTransaction
    <2>3. ASSUME NEW r \in Requests, BeginRefused(r)
          PROVE  NoOrphanTransaction'
      <3>1. pc' = [pc EXCEPT ![r] = "refused"] /\ UNCHANGED in_tx
        BY <2>3 DEF BeginRefused, Goto
      <3>2. pc[r] = "ready"
        BY <2>3 DEF BeginRefused
      <3>. QED  BY <3>1, <3>2 DEF NoOrphanTransaction, TypeOK, Running
    <2>4. ASSUME NEW r \in Requests, WriteRaises(r) \/ InsertEventRaises(r)
          PROVE  NoOrphanTransaction'
      <3>1. pc'[r] = IF r \in Transactors THEN "rollback" ELSE "failed"
        BY <2>4 DEF WriteRaises, InsertEventRaises, Goto, AfterRaise, TypeOK
      <3>2. r \notin Transactors => r \in Sweeps \cup PlainWriters
        BY DEF Requests
      <3>. QED  BY <3>1, <3>2 DEF NoOrphanTransaction, Running
    <2>5. CASE Crash \/ \E r \in Requests : Commit(r) \/ Rollback(r)
      <3>1. ~ in_tx'
        BY <2>5 DEF Crash, Commit, Rollback
      <3>. QED  BY <3>1 DEF NoOrphanTransaction
    <2>. QED  BY <2>1, <2>2, <2>3, <2>4, <2>5 DEF Next
  <1>. QED  BY <1>1, <1>2, InitTypes, StepTypes, PTL DEF Spec

\* No transaction() block has rolled back or is about to, and the process has
\* not ended under a request.
Calm ==
    \A r \in Requests :
        /\ pc[r] \notin {"rollback", "lost"}
        /\ pc[r] = "failed" => r \notin Transactors

HasEvent(db, r) == \E e \in db.events : e.request = r

\* While it is calm the open transaction only adds to the database, and what a
\* transactor has written is in it, or already in the database because another
\* request committed it.
CalmInv ==
    /\ committed.changes \subseteq working.changes
    /\ committed.events \subseteq working.events
    /\ \A r \in Transactors :
          /\ pc[r] \in {"sequence", "insert", "commit", "ok"} =>
                r \in working.changes
          /\ pc[r] \in {"commit", "ok"} => HasEvent(working, r)
          /\ pc[r] = "ok" => r \in committed.changes /\ HasEvent(committed, r)

\* Only a transactor ever rolls back.
RollbackInv == \A r \in Requests : pc[r] = "rollback" => r \in Transactors

\* The calm, once lost, does not come back, and while it lasts every step keeps
\* CalmInv.
LEMMA StepCalm ==
    ASSUME TypeOK, RollbackInv, Calm => CalmInv, [Next]_vars
    PROVE  RollbackInv' /\ (Calm' => CalmInv')
  <1> USE DEF Goto
  <1>0. Transactors \subseteq Requests
    BY DEF Requests
  <1>1. CASE UNCHANGED vars
    BY <1>1 DEF vars, RollbackInv, Calm, CalmInv, HasEvent
  <1>2. CASE Crash
    <2>1. RollbackInv'
      BY <1>2 DEF Crash, RollbackInv, Ended
    <2>2. ASSUME Calm' PROVE CalmInv'
      <3>1. \A r \in Requests : pc[r] \in Ended /\ pc'[r] = pc[r]
        BY <1>2, <2>2 DEF Crash, Calm
      <3>2. CalmInv
        BY <2>2, <3>1 DEF Calm
      <3>3. working' = committed /\ committed' = committed
        BY <1>2 DEF Crash
      <3>. QED  BY <1>0, <3>1, <3>2, <3>3 DEF CalmInv, HasEvent, Ended
    <2>. QED  BY <2>1, <2>2
  <1>3. ASSUME NEW r \in Requests, NEW label,
               pc' = [pc EXCEPT ![r] = label],
               pc[r] \notin {"rollback", "failed", "lost"},
               label = "rollback" => r \in Transactors
        PROVE  RollbackInv' /\ (Calm' => Calm)
    <2>1. pc'[r] = label /\ \A s \in Requests \ {r} : pc'[s] = pc[s]
      BY <1>3 DEF TypeOK
    <2>2. RollbackInv'
      BY <1>3, <2>1 DEF RollbackInv
    <2>3. Calm' => Calm
      BY <1>3, <2>1 DEF Calm
    <2>. QED  BY <2>2, <2>3
  <1>4. ASSUME NEW r \in Requests,
               \/ Begin(r)
               \/ BeginRefused(r)
               \/ SweepNothing(r)
               \/ ReadSequence(r)
        PROVE  RollbackInv' /\ (Calm' => CalmInv')
    <2>1. PICK label \in {"write", "refused", "commit", "insert"} :
             /\ pc' = [pc EXCEPT ![r] = label]
             /\ label = "commit" => r \in Sweeps
             /\ label = "insert" => pc[r] = "sequence"
      BY <1>4 DEF Begin, BeginRefused, SweepNothing, ReadSequence
    <2>2. pc[r] \in {"ready", "sequence"} /\ UNCHANGED <<committed, working>>
      BY <1>4 DEF Begin, BeginRefused, SweepNothing, ReadSequence
    <2>3. r \in Sweeps => r \notin Transactors
      BY KindsDisjoint
    <2>4. RollbackInv' /\ (Calm' => Calm)
      BY <1>3, <2>1, <2>2
    <2>5. CalmInv => CalmInv'
      BY <1>0, <2>1, <2>2, <2>3 DEF CalmInv, HasEvent, TypeOK
    <2>. QED  BY <2>4, <2>5
  <1>5. ASSUME NEW r \in Requests, Write(r)
        PROVE  RollbackInv' /\ (Calm' => CalmInv')
    <2>1. /\ pc[r] \in {"write", "ready"}
          /\ UNCHANGED committed
      BY <1>5 DEF Write, AtWrite
    <2>2. PICK label \in {"commit", "sequence"} :
             /\ pc' = [pc EXCEPT ![r] = label]
             /\ label = "commit" => r \notin Transactors
      BY <1>5, KindsDisjoint DEF Write
    <2>3. /\ working'.changes = working.changes \cup {r}
          /\ working'.events = working.events
      BY <1>5 DEF Write, TypeOK, Database
    <2>4. RollbackInv' /\ (Calm' => Calm)
      BY <1>3, <2>1, <2>2
    <2>5. CalmInv => CalmInv'
      BY <1>0, <2>1, <2>2, <2>3 DEF CalmInv, HasEvent, TypeOK
    <2>. QED  BY <2>4, <2>5
  <1>6. ASSUME NEW r \in Requests, WriteRaises(r) \/ InsertEventRaises(r)
        PROVE  RollbackInv' /\ (Calm' => CalmInv')
    <2>1. /\ pc[r] \in {"write", "ready", "insert"}
          /\ pc' = [pc EXCEPT ![r] = AfterRaise(r)]
          /\ UNCHANGED <<committed, working>>
      BY <1>6 DEF WriteRaises, InsertEventRaises, AtWrite
    <2>2. AfterRaise(r) = "rollback" => r \in Transactors
      BY DEF AfterRaise
    <2>3. RollbackInv' /\ (Calm' => Calm)
      BY <1>3, <2>1, <2>2
    <2>4. AfterRaise(r) \in {"rollback", "failed"}
      BY DEF AfterRaise
    <2>5. CalmInv => CalmInv'
      BY <1>0, <2>1, <2>4 DEF CalmInv, HasEvent, TypeOK
    <2>. QED  BY <2>3, <2>5
  <1>7. ASSUME NEW r \in Requests, InsertEvent(r)
        PROVE  RollbackInv' /\ (Calm' => CalmInv')
    <2>1. /\ pc[r] = "insert"
          /\ pc' = [pc EXCEPT ![r] = "commit"]
          /\ UNCHANGED committed
      BY <1>7 DEF InsertEvent
    <2> DEFINE new == [request |-> r, sequence |-> seq[r]]
    <2>2. /\ working'.changes = working.changes
          /\ working'.events = working.events \cup {new}
      BY <1>7 DEF InsertEvent, TypeOK, Database
    <2>3. new.request = r
      OBVIOUS
    <2> HIDE DEF new
    <2>4. RollbackInv' /\ (Calm' => Calm)
      BY <1>3, <2>1
    <2>5. CalmInv => CalmInv'
      BY <1>0, <2>1, <2>2, <2>3 DEF CalmInv, HasEvent, TypeOK
    <2>. QED  BY <2>4, <2>5
  <1>8. ASSUME NEW r \in Requests, Commit(r)
        PROVE  RollbackInv' /\ (Calm' => CalmInv')
    <2>1. /\ pc[r] = "commit"
          /\ pc' = [pc EXCEPT ![r] = "ok"]
          /\ committed' = working
          /\ UNCHANGED working
      BY <1>8 DEF Commit
    <2>2. RollbackInv' /\ (Calm' => Calm)
      BY <1>3, <2>1
    <2>3. CalmInv => CalmInv'
      BY <1>0, <2>1 DEF CalmInv, HasEvent, TypeOK
    <2>. QED  BY <2>2, <2>3
  <1>9. ASSUME NEW r \in Requests, Rollback(r)
        PROVE  RollbackInv' /\ (Calm' => CalmInv')
    <2>1. /\ pc[r] = "rollback" /\ r \in Transactors
          /\ pc' = [pc EXCEPT ![r] = "failed"]
      BY <1>9 DEF Rollback, RollbackInv
    <2>2. pc'[r] = "failed" /\ \A s \in Requests \ {r} : pc'[s] = pc[s]
      BY <2>1 DEF TypeOK
    <2>3. RollbackInv' /\ ~ Calm'
      BY <2>1, <2>2 DEF RollbackInv, Calm
    <2>. QED  BY <2>3
  <1>. QED
    BY <1>1, <1>2, <1>4, <1>5, <1>6, <1>7, <1>8, <1>9 DEF Next

\* Losing an acknowledged write takes a rollback or the end of the process:
\* until then every transaction() request answered ok is durable with its
\* event, for any mix of requests, whoever commits whose statements.
THEOREM Durable == Spec => []AcknowledgedIsDurable
  <1>1. Init => RollbackInv /\ (Calm => CalmInv)
    BY DEF Init, RollbackInv, CalmInv, Requests
  <1>2. (Calm => CalmInv) => AcknowledgedIsDurable
    BY DEF Calm, CalmInv, HasEvent, AcknowledgedIsDurable, Announced
  <1>3. TypeOK /\ RollbackInv /\ (Calm => CalmInv) /\ [Next]_vars
           => RollbackInv' /\ (Calm' => CalmInv')
    BY StepCalm
  <1>4. (Calm => CalmInv)' <=> (Calm' => CalmInv')
    OBVIOUS
  <1>. QED  BY <1>1, <1>2, <1>3, <1>4, InitTypes, StepTypes, PTL DEF Spec

=============================================================================
