----------------------------- MODULE EventOutbox -----------------------------
(***************************************************************************)
(* The event outbox and its JSONL flusher (src/tokenbank/events).          *)
(*                                                                         *)
(* Transactions insert pending rows, numbered 1 .. n (SharedConnection).   *)
(* flush_pending_events selects a batch of pending rows, and for each row  *)
(* appends a line to the JSONL file and then, in a transaction of its own, *)
(* marks the row written or failed.  It can be interrupted anywhere: the   *)
(* process ends, or the database is locked when a row is to be marked.     *)
(* Nothing keeps two flushes from running at the same time.                *)
(***************************************************************************)
EXTENDS Naturals, Sequences, FiniteSets

CONSTANTS
    Flushers,   \* callers of flush_pending_events
    Limit,      \* its limit argument
    MaxEvents,  \* bound: rows inserted
    MaxStops    \* bound: interrupted flushes

ASSUME OutboxAssumption ==
    /\ IsFiniteSet(Flushers)
    /\ Limit \in Nat \ {0}
    /\ MaxEvents \in Nat
    /\ MaxStops \in Nat

VARIABLES
    status,  \* status column of event_outbox; row i has sequence number i
    jsonl,   \* the lines of the file: the row each was written for
    torn,    \* the file ends in a fragment of a line
    glued,   \* indices of the lines that were appended to such a fragment
    batch,   \* rows each flush has selected and not finished
    step,    \* what each flush does next with the first row of its batch
    stops,   \* interrupted flushes so far
    overlapped  \* history: two flushes have run at the same time

vars == <<status, jsonl, torn, glued, batch, step, stops, overlapped>>

Rows == DOMAIN status

\* Types of the outbox rows, the file and the flushes of events/outbox.py and
\* events/jsonl.py.
TypeOK ==
    /\ status \in Seq({"pending", "written", "failed"})
    /\ jsonl \in Seq(Nat)
    /\ torn \in BOOLEAN
    /\ glued \subseteq Nat
    /\ batch \in [Flushers -> SUBSET Nat]
    /\ step \in [Flushers -> {"append", "mark_written", "mark_failed"}]
    /\ stops \in Nat
    /\ overlapped \in BOOLEAN

Init ==
    /\ status = <<>>
    /\ jsonl = <<>>
    /\ torn = FALSE
    /\ glued = {}
    /\ batch = [f \in Flushers |-> {}]
    /\ step = [f \in Flushers |-> "append"]
    /\ stops = 0
    /\ overlapped = FALSE

-----------------------------------------------------------------------------
\* enqueue_event, committed
Enqueue ==
    /\ Len(status) < MaxEvents
    /\ status' = Append(status, "pending")
    /\ UNCHANGED <<jsonl, torn, glued, batch, step, stops, overlapped>>

Pending == {i \in Rows : status[i] = "pending"}

\* pending_events: ORDER BY sequence LIMIT ?
PendingEvents == {i \in Pending : Cardinality({j \in Pending : j < i}) < Limit}

Select_NewestFirst(f) ==
    /\ batch[f] = {}
    /\ Pending # {}
    /\ batch' = [batch EXCEPT ![f] =
          {i \in Pending : Cardinality({j \in Pending : j > i}) < Limit}]
    /\ overlapped' = (overlapped \/ \E g \in Flushers \ {f} : batch[g] # {})
    /\ UNCHANGED <<status, jsonl, torn, glued, step, stops>>

Select(f) ==
    /\ batch[f] = {}
    /\ Pending # {}
    /\ batch' = [batch EXCEPT ![f] = PendingEvents]
    /\ overlapped' = (overlapped \/ \E g \in Flushers \ {f} : batch[g] # {})
    /\ UNCHANGED <<status, jsonl, torn, glued, step, stops>>

\* i is the row the flush is at.
At(f, i) == i \in batch[f] /\ \A j \in batch[f] : i <= j

AppendLine_NoNewline(f, i) ==
    /\ At(f, i)
    /\ step[f] = "append"
    /\ jsonl' = Append(jsonl, i)
    /\ glued' = IF torn THEN glued \cup {Len(jsonl) + 1} ELSE glued
    /\ torn' = TRUE
    /\ step' = [step EXCEPT ![f] = "mark_written"]
    /\ UNCHANGED <<status, batch, stops, overlapped>>

\* append_event_jsonl: if the file does not end in a newline the document is
\* glued to what is there.
AppendLine(f, i) ==
    /\ At(f, i)
    /\ step[f] = "append"
    /\ jsonl' = Append(jsonl, i)
    /\ glued' = IF torn THEN glued \cup {Len(jsonl) + 1} ELSE glued
    /\ torn' = FALSE
    /\ step' = [step EXCEPT ![f] = "mark_written"]
    /\ UNCHANGED <<status, batch, stops, overlapped>>

AppendFails_FallsThrough(f, fragment) ==
    /\ batch[f] # {}
    /\ step[f] = "append"
    /\ torn' = (torn \/ fragment)
    /\ step' = [step EXCEPT ![f] = "mark_written"]
    /\ UNCHANGED <<status, jsonl, glued, batch, stops, overlapped>>

\* OSError: nothing of the line reached the file, or a fragment did.
AppendFails(f, fragment) ==
    /\ batch[f] # {}
    /\ step[f] = "append"
    /\ torn' = (torn \/ fragment)
    /\ step' = [step EXCEPT ![f] = "mark_failed"]
    /\ UNCHANGED <<status, jsonl, glued, batch, stops, overlapped>>

Mark_NotCommitted(f, i) ==
    /\ At(f, i)
    /\ step[f] \in {"mark_written", "mark_failed"}
    /\ batch' = [batch EXCEPT ![f] = @ \ {i}]
    /\ step' = [step EXCEPT ![f] = "append"]
    /\ UNCHANGED <<status, jsonl, torn, glued, stops, overlapped>>

\* mark_written, mark_failed: UPDATE and commit, whatever the row's status.
Mark(f, i) ==
    /\ At(f, i)
    /\ step[f] \in {"mark_written", "mark_failed"}
    /\ status' = [status EXCEPT ![i] =
          IF step[f] = "mark_written" THEN "written" ELSE "failed"]
    /\ batch' = [batch EXCEPT ![f] = @ \ {i}]
    /\ step' = [step EXCEPT ![f] = "append"]
    /\ UNCHANGED <<jsonl, torn, glued, stops, overlapped>>

\* The flush ends early; while it appends it can leave a fragment.
Stop(f, fragment) ==
    /\ batch[f] # {}
    /\ stops < MaxStops
    /\ fragment => step[f] = "append"
    /\ torn' = (torn \/ fragment)
    /\ batch' = [batch EXCEPT ![f] = {}]
    /\ step' = [step EXCEPT ![f] = "append"]
    /\ stops' = stops + 1
    /\ UNCHANGED <<status, jsonl, glued, overlapped>>

Next ==
    \/ Enqueue
    \/ \E f \in Flushers :
          \/ Select(f)
          \/ \E i \in batch[f] : AppendLine(f, i) \/ Mark(f, i)
          \/ \E fragment \in BOOLEAN : AppendFails(f, fragment) \/ Stop(f, fragment)

\* A flush that has begun goes on, and flush_pending_events is called again
\* and again.
Fairness ==
    \A f \in Flushers :
        /\ WF_vars(Select(f))
        /\ WF_vars(\E i \in batch[f] : AppendLine(f, i) \/ Mark(f, i))

Spec == Init /\ [][Next]_vars /\ Fairness

-----------------------------------------------------------------------------
(* Properties *)

InFile(i) == \E k \in DOMAIN jsonl : jsonl[k] = i

LinesOf(i) == {k \in DOMAIN jsonl : jsonl[k] = i}

\* No event is lost silently: a row marked written has a line in the file,
\* however many flushes run and wherever they were interrupted.
WrittenIsInFile == \A i \in Rows : status[i] = "written" => InFile(i)

\* As long as flushes run one at a time the file is in sequence order (an
\* interrupted flush repeats a line, it never goes back), and no row before a
\* line of the file is still to be written.
FileInOrder ==
    ~ overlapped =>
        /\ \A k, l \in DOMAIN jsonl : k < l => jsonl[k] <= jsonl[l]
        /\ \A k \in DOMAIN jsonl : \A i \in Pending : jsonl[k] <= i

\* A row that is marked written but has no line that can be read back.
Unreadable(i) == status[i] = "written" /\ LinesOf(i) \subseteq glued

\* append_event_jsonl does not look at how the file ends, so that a line
\* appended after a fragment is lost although its row is marked written.  As
\* long as flushes run one at a time, each append that failed (its own row is
\* marked failed) or was interrupted spoils at most one later event.
LossBounded ==
    ~ overlapped =>
        Cardinality({i \in Rows : Unreadable(i)})
            <= Cardinality({i \in Rows : status[i] = "failed"}) + stops

\* A row does not stay pending for ever while somebody keeps flushing: it is
\* marked written or failed, however the flushes race and are interrupted.
EventsSettle ==
    \A i \in 1 .. MaxEvents :
        i \in Rows ~> i \in Rows /\ status[i] # "pending"

=============================================================================
