------------------------------ MODULE Scheduler ------------------------------
(***************************************************************************)
(* The scheduler of the TokenBank control plane                            *)
(* (src/tokenbank/scheduler): execution attempts, assignments and their    *)
(* leases, results, and the late-result quarantine.                        *)
(*                                                                         *)
(* Every method of class Scheduler reads what it needs on its connection   *)
(* FIRST and only then opens its transaction (BEGIN IMMEDIATE).  Two       *)
(* requests served by two threads or two processes therefore interleave    *)
(* between the read and the transaction.  A request is an entry of req     *)
(* that carries what its read found; the transaction is one atomic step    *)
(* that applies it, stale or not.  A method that reads only immutable      *)
(* columns before its transaction (reject_assignment) is one step.         *)
(***************************************************************************)
EXTENDS Integers, FiniteSets

CONSTANTS
    WorkUnits,        \* work units the host has persisted (status submitted)
    AttemptIds,       \* pool of attempt ids (att_<uuid>)
    AssignmentIds,    \* pool of assignment ids (asg_<uuid>)
    Workers,          \* worker ids
    Handlers,         \* threads or processes that can serve a request
    LeaseDuration,    \* lease_duration_ms, in clock ticks
    MaxLeaseVersion,  \* bound: lease_version beyond which no progress is sent
    MaxReplays,       \* bound: spool replays recorded per assignment
    MaxClock          \* bound: clock ticks

ASSUME BoundsAssumption ==
    /\ LeaseDuration \in Nat
    /\ MaxLeaseVersion \in Nat
    /\ MaxReplays \in Nat
    /\ MaxClock \in Nat

VARIABLES
    attempts,      \* table execution_attempts
    assignments,   \* table assignments
    work_units,    \* status column of table work_units
    results,       \* table result_envelopes
    quarantine,    \* table result_quarantine: the ids of the results it holds
    wu_event,      \* type of the newest event_outbox row of each work unit
    attempt_event, \* the same for each attempt, among the status-bearing types
    assignment_event, \* the same for each assignment
    grants,        \* lease tokens handed out so far for each assignment id
    clock,         \* wall clock
    req            \* the request each handler is serving

events == <<wu_event, attempt_event, assignment_event>>
tables == <<attempts, assignments, work_units, results, quarantine>>
vars == <<attempts, assignments, work_units, results, quarantine,
          wu_event, attempt_event, assignment_event, grants, clock, req>>

-----------------------------------------------------------------------------
(* Rows *)

AttemptStatuses ==
    {"created", "scheduled", "assigned", "running",
     "succeeded", "failed", "quarantined"}

AssignmentStatuses ==
    {"created", "accepted", "running", "completed",
     "rejected", "expired", "quarantined"}

WorkUnitStatuses == {"submitted", "assigned", "running", "succeeded"}

AttemptRow ==
    [work_unit: WorkUnits, attempt_number: Nat, status: AttemptStatuses]

\* lease_token is the serial number of the token whose hash the row stores,
\* 0 for the NULL of a row that was never accepted.
AssignmentRow ==
    [attempt: AttemptIds, worker: Workers, status: AssignmentStatuses,
     lease_version: Nat, lease_token: Nat, lease_expires_at: Nat]

\* What the worker hands in: the envelope an adapter built, by the status it
\* names itself (ResultEnvelopeStatus), whose id is a hash of the assignment,
\* the output and the status; or a bare output replayed from the spool, whose
\* id is random.
ResultKinds == {"succeeded", "failed", "quarantined", "replay"}

\* n numbers the replays of an assignment; the envelopes have n = 0.
ResultId == [assignment: AssignmentIds, kind: ResultKinds, n: Nat]

ResultRow ==
    [assignment: AssignmentIds, kind: ResultKinds, n: Nat,
     status: {"succeeded", "failed", "quarantined"}]

WorkUnitEvents ==
    {"work_unit.created", "work_unit.assigned",
     "work_unit.running", "work_unit.succeeded"}

AttemptEvents ==
    {"attempt.created", "scheduler.retry_scheduled",
     "scheduler.fallback_scheduled", "assignment.created",
     "assignment.accepted", "assignment.rejected",
     "result.submitted", "result.quarantined"}

AssignmentEvents ==
    {"assignment.created", "assignment.accepted", "assignment.rejected",
     "assignment.progress", "assignment.expired",
     "result.submitted", "result.quarantined"}

(* Requests between their read and their transaction *)

IdleRequest == [op: {"idle"}]
AttemptRequest ==
    [op: {"create_attempt"}, work_unit: WorkUnits, attempt_number: Nat,
     event: {"attempt.created", "scheduler.retry_scheduled",
             "scheduler.fallback_scheduled"}]
AssignRequest == [op: {"assign"}, attempt: AttemptIds, worker: Workers]
AcceptRequest == [op: {"accept"}, assignment: AssignmentIds, expires: Nat]
ProgressRequest ==
    [op: {"progress"}, assignment: AssignmentIds, expected: Nat, expires: Nat]
SubmitRequest ==
    [op: {"submit"}, assignment: AssignmentIds, kind: ResultKinds,
     late: BOOLEAN]
SweepRequest == [op: {"sweep"}, rows: SUBSET AssignmentIds]

Request ==
    IdleRequest \cup AttemptRequest \cup AssignRequest \cup AcceptRequest
        \cup ProgressRequest \cup SubmitRequest \cup SweepRequest

Idle == [op |-> "idle"]

\* A table is a function from the keys of its rows to the rows.
IsTable(table, Keys, Row) ==
    /\ DOMAIN table \subseteq Keys
    /\ table \in [DOMAIN table -> Row]
Insert(table, key, row) ==
    [k \in DOMAIN table \cup {key} |-> IF k = key THEN row ELSE table[k]]

\* Types of the tables, the requests and the clock.
TypeOK ==
    /\ IsTable(attempts, AttemptIds, AttemptRow)
    /\ IsTable(assignments, AssignmentIds, AssignmentRow)
    /\ work_units \in [WorkUnits -> WorkUnitStatuses]
    /\ results \subseteq ResultRow
    /\ quarantine \subseteq ResultId
    /\ wu_event \in [WorkUnits -> WorkUnitEvents]
    /\ IsTable(attempt_event, AttemptIds, AttemptEvents)
    /\ IsTable(assignment_event, AssignmentIds, AssignmentEvents)
    /\ grants \in [AssignmentIds -> Nat]
    /\ clock \in Nat
    /\ req \in [Handlers -> Request]

Init ==
    /\ attempts = [a \in {} |-> {}]
    /\ assignments = [a \in {} |-> {}]
    /\ work_units = [w \in WorkUnits |-> "submitted"]
    /\ results = {}
    /\ quarantine = {}
    /\ wu_event = [w \in WorkUnits |-> "work_unit.created"]
    /\ attempt_event = [a \in {} |-> {}]
    /\ assignment_event = [a \in {} |-> {}]
    /\ grants = [a \in AssignmentIds |-> 0]
    /\ clock = 0
    /\ req = [h \in Handlers |-> Idle]

-----------------------------------------------------------------------------
(* Helpers *)

IsIdle(h) == req[h].op = "idle"
Serve(h, r) == req' = [req EXCEPT ![h] = r]
Done(h) == req' = [req EXCEPT ![h] = Idle]

AttemptsOf(w) == {a \in DOMAIN attempts : attempts[a].work_unit = w}
WorkUnitOf(asg) == attempts[assignments[asg].attempt].work_unit

ResultIdOf(r) == [assignment |-> r.assignment, kind |-> r.kind, n |-> r.n]

NextAttemptNumber_Max(w) ==
    {n \in {1} \cup {attempts[a].attempt_number : a \in AttemptsOf(w)} :
        \A a \in AttemptsOf(w) : attempts[a].attempt_number <= n}

\* {COALESCE(MAX(attempt_number), 0) + 1} over the attempts of w, as a
\* singleton set.
NextAttemptNumber(w) ==
    {n \in {1} \cup {attempts[a].attempt_number + 1 : a \in AttemptsOf(w)} :
        \A a \in AttemptsOf(w) : attempts[a].attempt_number < n}

NewerAttemptExists(w, n) ==
    \E a \in AttemptsOf(w) : attempts[a].attempt_number > n

\* A result is late when a newer attempt of its work unit exists.
IsLate(asg) ==
    NewerAttemptExists(WorkUnitOf(asg),
                       attempts[assignments[asg].attempt].attempt_number)

\* verify_lease_token and verify_lease_token_hash: 0 stands for a missing
\* token on either side, which never matches.
VerifyLeaseToken(stored, presented) ==
    /\ stored # 0
    /\ presented # 0
    /\ stored = presented

LeaseVersionMatches_OrNewer(asg, expected) ==
    assignments[asg].lease_version >= expected

\* The WHERE clause of conditional_assignment_update.
LeaseVersionMatches(asg, expected) ==
    assignments[asg].lease_version = expected

SetAttemptStatus(a, status) ==
    attempts' = [attempts EXCEPT ![a].status = status]

\* lifecycle.update_work_unit_status: the row and its event in one go.
SetWorkUnitStatus(w, status, event) ==
    /\ work_units' = [work_units EXCEPT ![w] = status]
    /\ wu_event' = [wu_event EXCEPT ![w] = event]

-----------------------------------------------------------------------------
(* create_attempt, schedule_retry, schedule_fallback *)

\* The number is read before the transaction that uses it.
ReadAttemptNumber(h, w, event) ==
    /\ IsIdle(h)
    /\ \E n \in NextAttemptNumber(w) :
          Serve(h, [op |-> "create_attempt", work_unit |-> w,
                    attempt_number |-> n, event |-> event])
    /\ UNCHANGED <<tables, events, grants, clock>>

\* The host schedules the first attempt of a work unit it has just persisted,
\* once.
StartFirstAttempt(h, w) ==
    /\ AttemptsOf(w) = {}
    /\ \A g \in Handlers : req[g].op = "create_attempt" => req[g].work_unit # w
    /\ ReadAttemptNumber(h, w, "attempt.created")

ScheduleRetry(h, a) ==
    /\ a \in DOMAIN attempts
    /\ ReadAttemptNumber(h, attempts[a].work_unit, "scheduler.retry_scheduled")

ScheduleFallback(h, a) ==
    /\ a \in DOMAIN attempts
    /\ ReadAttemptNumber(h, attempts[a].work_unit,
                         "scheduler.fallback_scheduled")

CommitAttempt(h, a) ==
    /\ req[h].op = "create_attempt"
    /\ a \in AttemptIds \ DOMAIN attempts
    /\ attempts' = Insert(attempts, a,
          [work_unit |-> req[h].work_unit,
           attempt_number |-> req[h].attempt_number,
           status |-> IF req[h].event = "attempt.created"
                      THEN "created" ELSE "scheduled"])
    /\ attempt_event' = Insert(attempt_event, a, req[h].event)
    /\ Done(h)
    /\ UNCHANGED <<assignments, work_units, results, quarantine,
                   wu_event, assignment_event, grants, clock>>

-----------------------------------------------------------------------------
(* create_assignment, assign_next_work *)

\* Both callers pick an attempt that is waiting: the host the one it has just
\* created, assign_next_work any created or scheduled one.
StartAssign(h, a, wk) ==
    /\ IsIdle(h)
    /\ a \in DOMAIN attempts
    /\ attempts[a].status \in {"created", "scheduled"}
    /\ Serve(h, [op |-> "assign", attempt |-> a, worker |-> wk])
    /\ UNCHANGED <<tables, events, grants, clock>>

CommitAssign(h, asg) ==
    LET a == req[h].attempt IN
    /\ req[h].op = "assign"
    /\ asg \in AssignmentIds \ DOMAIN assignments
    /\ assignments' = Insert(assignments, asg,
          [attempt |-> a, worker |-> req[h].worker, status |-> "created",
           lease_version |-> 0, lease_token |-> 0, lease_expires_at |-> 0])
    /\ SetAttemptStatus(a, "assigned")
    /\ SetWorkUnitStatus(attempts[a].work_unit, "assigned",
                         "work_unit.assigned")
    /\ attempt_event' = [attempt_event EXCEPT ![a] = "assignment.created"]
    /\ assignment_event' = Insert(assignment_event, asg, "assignment.created")
    /\ Done(h)
    /\ UNCHANGED <<results, quarantine, grants, clock>>

-----------------------------------------------------------------------------
(* accept_assignment *)

\* The status test accept_assignment makes before its transaction.
AcceptableStatuses == {"created"}

\* expires is computed here, before the transaction.  The clients in the
\* repository never send expected_lease_version with accept, so it is the
\* default, 0.
StartAccept(h, asg, wk) ==
    /\ IsIdle(h)
    /\ asg \in DOMAIN assignments
    /\ assignments[asg].worker = wk
    /\ assignments[asg].status \in AcceptableStatuses
    /\ Serve(h, [op |-> "accept", assignment |-> asg,
                 expires |-> clock + LeaseDuration])
    /\ UNCHANGED <<tables, events, grants, clock>>

\* A version conflict raises inside the transaction and is RequestFails.
CommitAccept(h) ==
    LET asg == req[h].assignment
        a == assignments[asg].attempt
    IN
    /\ req[h].op = "accept"
    /\ LeaseVersionMatches(asg, 0)
    /\ grants' = [grants EXCEPT ![asg] = @ + 1]
    /\ assignments' = [assignments EXCEPT
          ![asg].status = "accepted",
          ![asg].lease_version = @ + 1,
          ![asg].lease_token = grants[asg] + 1,
          ![asg].lease_expires_at = req[h].expires]
    /\ SetAttemptStatus(a, "running")
    /\ SetWorkUnitStatus(WorkUnitOf(asg), "running", "work_unit.running")
    /\ attempt_event' = [attempt_event EXCEPT ![a] = "assignment.accepted"]
    /\ assignment_event' =
          [assignment_event EXCEPT ![asg] = "assignment.accepted"]
    /\ Done(h)
    /\ UNCHANGED <<results, quarantine, clock>>

-----------------------------------------------------------------------------
(* reject_assignment: no status, token or version test, and the lease       *)
(* columns and the work unit stay as they are.                              *)

RejectAssignment(h, asg, wk) ==
    LET a == assignments[asg].attempt IN
    /\ IsIdle(h)
    /\ asg \in DOMAIN assignments
    /\ assignments[asg].worker = wk
    /\ assignments' = [assignments EXCEPT ![asg].status = "rejected"]
    /\ SetAttemptStatus(a, "failed")
    /\ attempt_event' = [attempt_event EXCEPT ![a] = "assignment.rejected"]
    /\ assignment_event' =
          [assignment_event EXCEPT ![asg] = "assignment.rejected"]
    /\ UNCHANGED <<work_units, results, quarantine, wu_event, grants, clock, req>>

-----------------------------------------------------------------------------
(* progress_assignment: no status test *)

\* The worker sends a version some earlier answer gave it, possibly not the
\* newest.
StartProgress(h, asg, wk, token, expected) ==
    /\ IsIdle(h)
    /\ asg \in DOMAIN assignments
    /\ assignments[asg].worker = wk
    /\ VerifyLeaseToken(assignments[asg].lease_token, token)
    /\ expected \in 1 .. assignments[asg].lease_version
    /\ expected < MaxLeaseVersion
    /\ Serve(h, [op |-> "progress", assignment |-> asg, expected |-> expected,
                 expires |-> clock + LeaseDuration])
    /\ UNCHANGED <<tables, events, grants, clock>>

CommitProgress_KeepsVersion(h) ==
    LET asg == req[h].assignment IN
    /\ req[h].op = "progress"
    /\ LeaseVersionMatches(asg, req[h].expected)
    /\ assignments' = [assignments EXCEPT
          ![asg].status = "running",
          ![asg].lease_expires_at = req[h].expires]
    /\ assignment_event' =
          [assignment_event EXCEPT ![asg] = "assignment.progress"]
    /\ Done(h)
    /\ UNCHANGED <<attempts, work_units, results, quarantine,
                   wu_event, attempt_event, grants, clock>>

CommitProgress(h) ==
    LET asg == req[h].assignment IN
    /\ req[h].op = "progress"
    /\ LeaseVersionMatches(asg, req[h].expected)
    /\ assignments' = [assignments EXCEPT
          ![asg].status = "running",
          ![asg].lease_version = @ + 1,
          ![asg].lease_expires_at = req[h].expires]
    /\ assignment_event' =
          [assignment_event EXCEPT ![asg] = "assignment.progress"]
    /\ Done(h)
    /\ UNCHANGED <<attempts, work_units, results, quarantine,
                   wu_event, attempt_event, grants, clock>>

-----------------------------------------------------------------------------
(* submit_result: the token and the lateness are read before the            *)
(* transaction; the status of the assignment is not tested.                 *)

StartSubmit_LateIfRetried(h, asg, wk, token, kind) ==
    /\ IsIdle(h)
    /\ asg \in DOMAIN assignments
    /\ assignments[asg].worker = wk
    /\ VerifyLeaseToken(assignments[asg].lease_token, token)
    /\ Serve(h, [op |-> "submit", assignment |-> asg, kind |-> kind,
                 late |-> AttemptsOf(WorkUnitOf(asg))
                             # {assignments[asg].attempt}])
    /\ UNCHANGED <<tables, events, grants, clock>>

StartSubmit_ReplayInTime(h, asg, wk, token, kind) ==
    /\ IsIdle(h)
    /\ asg \in DOMAIN assignments
    /\ assignments[asg].worker = wk
    /\ VerifyLeaseToken(assignments[asg].lease_token, token)
    /\ Serve(h, [op |-> "submit", assignment |-> asg, kind |-> kind,
                 late |-> kind # "replay" /\ IsLate(asg)])
    /\ UNCHANGED <<tables, events, grants, clock>>

StartSubmit(h, asg, wk, token, kind) ==
    /\ IsIdle(h)
    /\ asg \in DOMAIN assignments
    /\ assignments[asg].worker = wk
    /\ VerifyLeaseToken(assignments[asg].lease_token, token)
    /\ Serve(h, [op |-> "submit", assignment |-> asg, kind |-> kind,
                 late |-> IsLate(asg)])
    /\ UNCHANGED <<tables, events, grants, clock>>

\* The primary key of the new row: an envelope's id is a hash of its content,
\* so that a second insert of it fails (RequestFails); a replay gets a new
\* random id.
FreshResultKey(asg, kind, n) ==
    /\ IF kind = "replay" THEN n \in 1 .. MaxReplays ELSE n = 0
    /\ [assignment |-> asg, kind |-> kind, n |-> n]
          \notin {ResultIdOf(r) : r \in results}

QuarantineLateResult_SucceedsWorkUnit(asg, kind, n) ==
    LET a == assignments[asg].attempt IN
    /\ assignments' = [assignments EXCEPT ![asg].status = "quarantined"]
    /\ SetAttemptStatus(a, "quarantined")
    /\ SetWorkUnitStatus(WorkUnitOf(asg), "succeeded", "work_unit.succeeded")
    /\ quarantine' = quarantine \cup
          {[assignment |-> asg, kind |-> kind, n |-> n]}
    /\ attempt_event' = [attempt_event EXCEPT ![a] = "result.quarantined"]
    /\ assignment_event' =
          [assignment_event EXCEPT ![asg] = "result.quarantined"]

\* _quarantine_late_result
QuarantineLateResult(asg, kind, n) ==
    LET a == assignments[asg].attempt IN
    /\ assignments' = [assignments EXCEPT ![asg].status = "quarantined"]
    /\ SetAttemptStatus(a, "quarantined")
    /\ quarantine' = quarantine \cup
          {[assignment |-> asg, kind |-> kind, n |-> n]}
    /\ attempt_event' = [attempt_event EXCEPT ![a] = "result.quarantined"]
    /\ assignment_event' =
          [assignment_event EXCEPT ![asg] = "result.quarantined"]
    /\ UNCHANGED <<work_units, wu_event>>

\* The branch of a result that is not late.
CompleteAssignment(asg) ==
    LET a == assignments[asg].attempt IN
    /\ assignments' = [assignments EXCEPT ![asg].status = "completed"]
    /\ SetAttemptStatus(a, "succeeded")
    /\ SetWorkUnitStatus(WorkUnitOf(asg), "succeeded", "work_unit.succeeded")
    /\ attempt_event' = [attempt_event EXCEPT ![a] = "result.submitted"]
    /\ assignment_event' =
          [assignment_event EXCEPT ![asg] = "result.submitted"]
    /\ UNCHANGED quarantine

\* The status column of the new row: an envelope's own status is stored as it
\* is, "quarantined" included, unless the result is late.
ResultStatus(kind, late) ==
    IF late THEN "quarantined"
    ELSE IF kind = "replay" THEN "succeeded" ELSE kind

CommitSubmit(h, n) ==
    LET asg == req[h].assignment
        kind == req[h].kind
    IN
    /\ req[h].op = "submit"
    /\ FreshResultKey(asg, kind, n)
    /\ results' = results \cup
          {[assignment |-> asg, kind |-> kind, n |-> n,
            status |-> ResultStatus(kind, req[h].late)]}
    /\ IF req[h].late THEN QuarantineLateResult(asg, kind, n)
                      ELSE CompleteAssignment(asg)
    /\ Done(h)
    /\ UNCHANGED <<grants, clock>>

-----------------------------------------------------------------------------
(* sweeper.sweep_expired_leases: the rows are selected first and updated in *)
(* the implicit transaction the first UPDATE opens, without a second test.  *)

OverdueLeases == {asg \in DOMAIN assignments :
    /\ assignments[asg].status \in {"accepted", "running"}
    /\ assignments[asg].lease_expires_at < clock}

StartSweep(h) ==
    /\ IsIdle(h)
    /\ OverdueLeases # {}
    /\ Serve(h, [op |-> "sweep", rows |-> OverdueLeases])
    /\ UNCHANGED <<tables, events, grants, clock>>

CommitSweep_NoEvent(h) ==
    /\ req[h].op = "sweep"
    /\ assignments' = [asg \in DOMAIN assignments |->
          IF asg \in req[h].rows
          THEN [assignments[asg] EXCEPT !.status = "expired"]
          ELSE assignments[asg]]
    /\ Done(h)
    /\ UNCHANGED <<attempts, work_units, results, quarantine, events,
                   grants, clock>>

CommitSweep(h) ==
    LET rows == req[h].rows IN
    /\ req[h].op = "sweep"
    /\ assignments' = [asg \in DOMAIN assignments |->
          IF asg \in rows THEN [assignments[asg] EXCEPT !.status = "expired"]
          ELSE assignments[asg]]
    /\ assignment_event' = [asg \in DOMAIN assignment_event |->
          IF asg \in rows THEN "assignment.expired"
          ELSE assignment_event[asg]]
    /\ Done(h)
    /\ UNCHANGED <<attempts, work_units, results, quarantine,
                   wu_event, attempt_event, grants, clock>>

-----------------------------------------------------------------------------
\* A request that ends without effect: a lease_version conflict or a duplicate
\* key raised inside the transaction and rolled back, a locked database, or
\* the end of the process that served it.
RequestFails(h) ==
    /\ ~IsIdle(h)
    /\ Done(h)
    /\ UNCHANGED <<tables, events, grants, clock>>

Tick ==
    /\ clock < MaxClock
    /\ clock' = clock + 1
    /\ UNCHANGED <<tables, events, grants, req>>

AttemptNext(h) ==
    \/ \E w \in WorkUnits : StartFirstAttempt(h, w)
    \/ \E a \in AttemptIds :
          \/ ScheduleRetry(h, a)
          \/ ScheduleFallback(h, a)
          \/ CommitAttempt(h, a)
          \/ \E wk \in Workers : StartAssign(h, a, wk)

AssignmentNext(h) ==
    \E asg \in AssignmentIds :
        \/ CommitAssign(h, asg)
        \/ \E wk \in Workers :
              \/ StartAccept(h, asg, wk)
              \/ RejectAssignment(h, asg, wk)
              \/ \E token \in 0 .. grants[asg] :
                    \/ \E v \in 1 .. MaxLeaseVersion :
                          StartProgress(h, asg, wk, token, v)
                    \/ \E kind \in ResultKinds :
                          StartSubmit(h, asg, wk, token, kind)

Next ==
    \/ Tick
    \/ \E h \in Handlers :
          \/ AttemptNext(h)
          \/ AssignmentNext(h)
          \/ CommitAccept(h)
          \/ CommitProgress(h)
          \/ \E n \in 0 .. MaxReplays : CommitSubmit(h, n)
          \/ StartSweep(h)
          \/ CommitSweep(h)
          \/ RequestFails(h)

Spec == Init /\ [][Next]_vars

-----------------------------------------------------------------------------
(* Properties, however the requests interleave; those that need requests that
   do not overlap are in module MCScheduler *)

\* An assignment is leased at most once: of all the accept requests that race
\* for it after reading status created, the lease_version test of
\* conditional_assignment_update lets one through, so that one token is ever
\* handed out.
LeaseGrantedOnce ==
    \A asg \in AssignmentIds : grants[asg] <= 1

\* No result is recorded for an assignment that was never accepted, whatever
\* token (or none) comes with it: the token test of submit_result.
ResultsAreLeased ==
    \A r \in results :
        /\ r.assignment \in DOMAIN assignments
        /\ grants[r.assignment] >= 1

\* The results held in the result_quarantine table.
IsHeld(r) == ResultIdOf(r) \in quarantine

\* The result_quarantine table and the status column tell one story: a row is
\* held only for a recorded result, every result that is held was produced by
\* an attempt that a newer attempt of the same work unit has overtaken (the
\* newest attempt's result is never held, even on a stale read), and a result
\* recorded as quarantined is either held or was handed in with that status by
\* its worker.
QuarantineSound ==
    /\ quarantine \subseteq {ResultIdOf(r) : r \in results}
    /\ \A q \in quarantine : IsLate(q.assignment)
    /\ \A r \in results :
          r.status = "quarantined" <=> IsHeld(r) \/ r.kind = "quarantined"

\* Status columns are backed by results: a work unit is succeeded, and an
\* assignment completed, only with a result on record that result_quarantine
\* does not hold (whatever status its envelope names: one that its worker
\* marked failed or quarantined completes its work unit too); an assignment is
\* quarantined only with one that it holds; and no result is on record for an
\* assignment that nobody has accepted.
StatusBackedByResult ==
    /\ ResultsAreLeased
    /\ \A w \in WorkUnits : work_units[w] = "succeeded" =>
          \E r \in results : ~ IsHeld(r) /\ WorkUnitOf(r.assignment) = w
    /\ \A asg \in DOMAIN assignments :
          /\ assignments[asg].status = "completed" =>
                \E r \in results : r.assignment = asg /\ ~ IsHeld(r)
          /\ assignments[asg].status = "quarantined" =>
                \E r \in results : r.assignment = asg /\ IsHeld(r)

WorkUnitStatusAfter(event) ==
    CASE event = "work_unit.created" -> "submitted"
      [] event = "work_unit.assigned" -> "assigned"
      [] event = "work_unit.running" -> "running"
      [] event = "work_unit.succeeded" -> "succeeded"

AttemptStatusAfter(event) ==
    CASE event = "attempt.created" -> "created"
      [] event = "scheduler.retry_scheduled" -> "scheduled"
      [] event = "scheduler.fallback_scheduled" -> "scheduled"
      [] event = "assignment.created" -> "assigned"
      [] event = "assignment.accepted" -> "running"
      [] event = "assignment.rejected" -> "failed"
      [] event = "result.submitted" -> "succeeded"
      [] event = "result.quarantined" -> "quarantined"

AssignmentStatusAfter(event) ==
    CASE event = "assignment.created" -> "created"
      [] event = "assignment.accepted" -> "accepted"
      [] event = "assignment.rejected" -> "rejected"
      [] event = "assignment.progress" -> "running"
      [] event = "assignment.expired" -> "expired"
      [] event = "result.submitted" -> "completed"
      [] event = "result.quarantined" -> "quarantined"

\* The event_outbox explains the tables: every status the scheduler keeps is
\* the one its newest event announces, so that no state transition is
\* committed without its event row and none is announced that was not made.
EventsExplainTables ==
    /\ \A w \in WorkUnits : work_units[w] = WorkUnitStatusAfter(wu_event[w])
    /\ DOMAIN attempt_event = DOMAIN attempts
    /\ \A a \in DOMAIN attempts :
          attempts[a].status = AttemptStatusAfter(attempt_event[a])
    /\ DOMAIN assignment_event = DOMAIN assignments
    /\ \A asg \in DOMAIN assignments :
          assignments[asg].status = AssignmentStatusAfter(assignment_event[asg])

Lease(row) == <<row.lease_token, row.lease_expires_at>>

LeaseStep ==
    \A asg \in DOMAIN assignments :
        LET old == assignments[asg]
            new == assignments'[asg]
        IN  \/ new.lease_version = old.lease_version /\ Lease(new) = Lease(old)
            \/ new.lease_version = old.lease_version + 1

\* The lease of an assignment changes only with its lease_version, by one
\* version at a time, and a version is never taken back: a worker whose
\* version is current knows the lease nobody else has touched.
LeaseMovesWithVersion == [][LeaseStep]_vars

=============================================================================
