--------------------------- MODULE SharedConnection ---------------------------
(***************************************************************************)
(* The one SQLite connection of the control-plane process.                 *)
(*                                                                         *)
(* app/lifespan.py opens a single sqlite3.Connection (check_same_thread =  *)
(* False) and app/deps.py hands it to every endpoint.  The endpoints are   *)
(* plain functions, so that the server runs them in a pool of threads: the *)
(* statements of concurrent requests interleave on the connection, which   *)
(* has at most one open transaction, and commit() and rollback() act on    *)
(* whatever that transaction holds, whoever wrote it.                      *)
(*                                                                         *)
(* A request makes one state change (its business rows, written together)  *)
(* and, unless it is a plain writer, one event_outbox row.  It writes in   *)
(* one of three ways:                                                      *)
(*   transactors    with transaction(conn): the scheduler, the host, the   *)
(*                  ledger, the receipts, the registries;                  *)
(*   sweeps         sweep_expired_leases: the transaction its first UPDATE *)
(*                  opens, and conn.commit();                              *)
(*   plain writers  upsert_worker_manifest, persist_route_plan,            *)
(*                  mark_written, mark_failed: one statement, no event,    *)
(*                  and conn.commit().                                     *)
(***************************************************************************)
EXTENDS Naturals

CONSTANTS Transactors, Sweeps, PlainWriters

ASSUME KindsDisjoint ==
    /\ Transactors \cap Sweeps = {}
    /\ (Transactors \cup Sweeps) \cap PlainWriters = {}

Requests == Transactors \cup Sweeps \cup PlainWriters

VARIABLES
    committed,  \* what the database file holds
    working,    \* what the connection sees: committed plus the open transaction
    in_tx,      \* conn.in_transaction
    pc,         \* the next statement of each request, or how it ended
    seq         \* sequence number a request has read, 0 before it

vars == <<committed, working, in_tx, pc, seq>>

-----------------------------------------------------------------------------
Event == [request: Requests, sequence: Nat \ {0}]
Database == [changes: SUBSET Requests, events: SUBSET Event]
Ended == {"ok", "refused", "failed", "lost"}
Running == {"write", "sequence", "insert", "commit", "rollback"}

\* Types of the two views of the database and of the requests.
TypeOK ==
    /\ committed \in Database
    /\ working \in Database
    /\ in_tx \in BOOLEAN
    /\ pc \in [Requests -> {"ready"} \cup Running \cup Ended]
    /\ seq \in [Requests -> Nat]

Init ==
    /\ committed = [changes |-> {}, events |-> {}]
    /\ working = [changes |-> {}, events |-> {}]
    /\ in_tx = FALSE
    /\ pc = [r \in Requests |-> "ready"]
    /\ seq = [r \in Requests |-> 0]

Goto(r, label) == pc' = [pc EXCEPT ![r] = label]

\* After an exception: transaction() rolls back, the others just leave.
AfterRaise(r) == IF r \in Transactors THEN "rollback" ELSE "failed"

-----------------------------------------------------------------------------
\* BEGIN IMMEDIATE
Begin(r) ==
    /\ r \in Transactors
    /\ pc[r] = "ready"
    /\ ~ in_tx
    /\ in_tx' = TRUE
    /\ Goto(r, "write")
    /\ UNCHANGED <<committed, working, seq>>

BeginRefused_RollsBack(r) ==
    /\ r \in Transactors
    /\ pc[r] = "ready"
    /\ in_tx
    /\ working' = committed
    /\ in_tx' = FALSE
    /\ Goto(r, "refused")
    /\ UNCHANGED <<committed, seq>>

BeginRefused_Joins(r) ==
    /\ r \in Transactors
    /\ pc[r] = "ready"
    /\ in_tx
    /\ Goto(r, "write")
    /\ UNCHANGED <<committed, working, in_tx, seq>>

\* BEGIN IMMEDIATE while the connection is in a transaction raises, outside
\* the try of transaction(): no rollback.
BeginRefused(r) ==
    /\ r \in Transactors
    /\ pc[r] = "ready"
    /\ in_tx
    /\ Goto(r, "refused")
    /\ UNCHANGED <<committed, working, in_tx, seq>>

\* A sweep that selects no row goes straight to conn.commit().
SweepNothing(r) ==
    /\ r \in Sweeps
    /\ pc[r] = "ready"
    /\ Goto(r, "commit")
    /\ UNCHANGED <<committed, working, in_tx, seq>>

AtWrite(r) == pc[r] = IF r \in Transactors THEN "write" ELSE "ready"

\* The business rows.  A data-changing statement outside a transaction opens
\* one.
Write(r) ==
    /\ AtWrite(r)
    /\ working' = [working EXCEPT !.changes = @ \cup {r}]
    /\ in_tx' = TRUE
    /\ Goto(r, IF r \in PlainWriters THEN "commit" ELSE "sequence")
    /\ UNCHANGED <<committed, seq>>

\* A lease conflict, a missing row, a constraint: the statement has no effect,
\* but the transaction it may have opened stays open.
WriteRaises(r) ==
    /\ AtWrite(r)
    /\ in_tx' = TRUE
    /\ Goto(r, AfterRaise(r))
    /\ UNCHANGED <<committed, working, seq>>

\* {COALESCE(MAX(sequence), 0) + 1} as a singleton set.
NextSequence ==
    {n \in {1} \cup {e.sequence + 1 : e \in working.events} :
        \A e \in working.events : e.sequence < n}

\* enqueue_event: _next_sequence is a statement of its own before the INSERT.
ReadSequence(r) ==
    /\ pc[r] = "sequence"
    /\ \E n \in NextSequence : seq' = [seq EXCEPT ![r] = n]
    /\ Goto(r, "insert")
    /\ UNCHANGED <<committed, working, in_tx>>

SequenceTaken(r) == \E e \in working.events : e.sequence = seq[r]

InsertEvent(r) ==
    /\ pc[r] = "insert"
    /\ ~ SequenceTaken(r)
    /\ working' = [working EXCEPT !.events =
          @ \cup {[request |-> r, sequence |-> seq[r]]}]
    /\ in_tx' = TRUE
    /\ Goto(r, "commit")
    /\ UNCHANGED <<committed, seq>>

\* The unique index on event_outbox(sequence).
InsertEventRaises(r) ==
    /\ pc[r] = "insert"
    /\ SequenceTaken(r)
    /\ in_tx' = TRUE
    /\ Goto(r, AfterRaise(r))
    /\ UNCHANGED <<committed, working, seq>>

\* conn.commit() and the end of the request.
Commit(r) ==
    /\ pc[r] = "commit"
    /\ committed' = working
    /\ in_tx' = FALSE
    /\ Goto(r, "ok")
    /\ UNCHANGED <<working, seq>>

Rollback_KeepsTransactionOpen(r) ==
    /\ pc[r] = "rollback"
    /\ working' = committed
    /\ Goto(r, "failed")
    /\ UNCHANGED <<committed, in_tx, seq>>

\* conn.rollback() and the end of the request.
Rollback(r) ==
    /\ pc[r] = "rollback"
    /\ working' = committed
    /\ in_tx' = FALSE
    /\ Goto(r, "failed")
    /\ UNCHANGED <<committed, seq>>

\* The process ends: the open transaction is gone, and so are the requests.
Crash ==
    /\ working' = committed
    /\ in_tx' = FALSE
    /\ pc' = [r \in Requests |-> IF pc[r] \in Ended THEN pc[r] ELSE "lost"]
    /\ UNCHANGED <<committed, seq>>

Next ==
    \/ \E r \in Requests :
          \/ Begin(r)
          \/ BeginRefused(r)
          \/ SweepNothing(r)
          \/ Write(r)
          \/ WriteRaises(r)
          \/ ReadSequence(r)
          \/ InsertEvent(r)
          \/ InsertEventRaises(r)
          \/ Commit(r)
          \/ Rollback(r)
    \/ Crash

Spec == Init /\ [][Next]_vars

-----------------------------------------------------------------------------
(* Properties *)

Announced(db) == {e.request : e \in db.events}

Outcome(label) ==
    CASE label = "ok" -> "ok"
      [] label \in {"refused", "failed"} -> "error"
      [] label = "lost" -> "lost"
      [] OTHER -> "pending"

\* The abstract store this connection is meant to be.
Store == INSTANCE AtomicStore WITH
    Requests <- Requests,
    changes <- committed.changes,
    announced <- Announced(committed),
    outcome <- [r \in Requests |-> Outcome(pc[r])]

\* When every request goes through transaction(), the connection is an atomic
\* store: whatever the interleaving of the threads and wherever the process
\* ends, a request answered ok has its change and its event, and any other
\* request has neither.
IsAtomicStore == Store!Spec

\* When every request goes through transaction(), the sequence numbers of the
\* events are 1 .. n in the database and in the open transaction, although a
\* number is read by one statement and inserted by another.
SequenceGapless ==
    \A db \in {committed, working} :
        \A e \in db.events :
            /\ e.sequence = 1 \/ \E f \in db.events : f.sequence = e.sequence - 1
            /\ \A f \in db.events : f.sequence = e.sequence => f = e

\* Sweeps and plain writers included: as long as no transaction() block has
\* rolled back and the process lives, every request answered ok is durable
\* with its event, even if other threads committed parts of it early.  Losing
\* an acknowledged write takes a rollback.
AcknowledgedIsDurable ==
    (\A r \in Requests : pc[r] \notin {"rollback", "lost"}
                         /\ (pc[r] = "failed" => r \notin Transactors)) =>
        \A r \in Requests : pc[r] = "ok" /\ r \in Transactors =>
            r \in committed.changes \cap Announced(committed)

\* Sweeps and plain writers included: a transaction is left open with nobody
\* in it only by a sweep or plain writer that failed or by a late statement
\* after one; a connection that only ever sees transaction() blocks is never
\* left inside a transaction that no request will end.
NoOrphanTransaction ==
    in_tx => \/ \E r \in Requests : pc[r] \in Running
             \/ \E r \in Sweeps \cup PlainWriters : pc[r] = "failed"

\* No state transition stays committed without its event_outbox row: once
\* every request has ended, the committed changes of transactors and sweeps
\* are all announced.
NoUnannouncedChange ==
    (\A r \in Requests : pc[r] \in Ended) =>
        committed.changes \ PlainWriters \subseteq Announced(committed)

=============================================================================
