--------------------------- MODULE SchedulerProofs ---------------------------
(***************************************************************************)
(* Proofs about Scheduler, for every set of work units, ids, workers and   *)
(* handlers and every value of the bounds.  The last one is about requests *)
(* that do not overlap, for which it takes the history variable of         *)
(* MCScheduler.                                                            *)
(***************************************************************************)
EXTENDS MCScheduler, TLAPS

-----------------------------------------------------------------------------
(* Tables *)

\* Setting the status of an attempt keeps its identity.
LEMMA AttemptStatusUpdate ==
    ASSUME NEW table, IsTable(table, AttemptIds, AttemptRow),
           NEW a \in DOMAIN table, NEW status \in AttemptStatuses
    PROVE  LET new == [table EXCEPT ![a].status = status]
           IN  /\ IsTable(new, AttemptIds, AttemptRow)
               /\ DOMAIN new = DOMAIN table
               /\ new[a].status = status
               /\ \A b \in DOMAIN table :
                     /\ new[b].work_unit = table[b].work_unit
                     /\ new[b].attempt_number = table[b].attempt_number
                     /\ b # a => new[b] = table[b]
  BY DEF IsTable, AttemptRow

-----------------------------------------------------------------------------
\* References between rows, and from the requests being served to rows: no
\* request ever names a row that is not there.
RefOK ==
    /\ \A asg \in DOMAIN assignments :
          assignments[asg].attempt \in DOMAIN attempts
    /\ DOMAIN attempt_event = DOMAIN attempts
    /\ DOMAIN assignment_event = DOMAIN assignments
    /\ \A r \in results : r.assignment \in DOMAIN assignments
    /\ \A h \in Handlers :
          /\ req[h].op = "assign" => req[h].attempt \in DOMAIN attempts
          /\ req[h].op \in {"accept", "progress", "submit"} =>
                req[h].assignment \in DOMAIN assignments

Typed == TypeOK /\ RefOK

\* The empty tables are well typed and refer to nothing.
LEMMA InitTyped == Init => Typed
  BY BoundsAssumption
  DEF Init, Typed, TypeOK, RefOK, IsTable, WorkUnitStatuses, WorkUnitEvents,
      Request, IdleRequest, Idle

\* A request that has only read keeps the types, if the rows it carries exist.
LEMMA StartTyped ==
    ASSUME Typed, NEW h \in Handlers, NEW r \in Request,
           Serve(h, r), UNCHANGED <<tables, events, grants, clock>>,
           r.op = "assign" => r.attempt \in DOMAIN attempts,
           r.op \in {"accept", "progress", "submit"} =>
                r.assignment \in DOMAIN assignments
    PROVE  Typed'
  BY DEF Typed, TypeOK, RefOK, IsTable, Serve, tables, events

\* The op of a request determines its fields.
LEMMA RequestByOp ==
    ASSUME TypeOK, NEW h \in Handlers
    PROVE  /\ req[h].op = "create_attempt" => req[h] \in AttemptRequest
           /\ req[h].op = "assign" => req[h] \in AssignRequest
           /\ req[h].op = "accept" => req[h] \in AcceptRequest
           /\ req[h].op = "progress" => req[h] \in ProgressRequest
           /\ req[h].op = "submit" => req[h] \in SubmitRequest
           /\ req[h].op = "sweep" => req[h] \in SweepRequest
  BY DEF TypeOK, Request, IdleRequest, AttemptRequest, AssignRequest,
         AcceptRequest, ProgressRequest, SubmitRequest, SweepRequest

\* A handler that has finished is idle, and the others go on.
LEMMA DoneRequests ==
    ASSUME TypeOK, NEW h \in Handlers, Done(h)
    PROVE  /\ req' \in [Handlers -> Request]
           /\ req'[h].op = "idle"
           /\ \A g \in Handlers \ {h} : req'[g] = req[g]
  BY DEF TypeOK, Done, Idle, Request, IdleRequest

\* The transaction of create_attempt keeps types and references.
LEMMA AttemptTyped ==
    ASSUME Typed, NEW h \in Handlers, NEW a \in AttemptIds, CommitAttempt(h, a)
    PROVE  Typed'
  <1>1. req[h] \in AttemptRequest
    BY RequestByOp DEF Typed, CommitAttempt
  <1> DEFINE row == [work_unit |-> req[h].work_unit,
                     attempt_number |-> req[h].attempt_number,
                     status |-> IF req[h].event = "attempt.created"
                                THEN "created" ELSE "scheduled"]
             event == req[h].event
  <1>2. row \in AttemptRow /\ event \in AttemptEvents
    BY <1>1 DEF AttemptRequest, AttemptRow, AttemptStatuses, AttemptEvents
  <1>3. attempts' = Insert(attempts, a, row)
        /\ attempt_event' = Insert(attempt_event, a, event)
    BY DEF CommitAttempt
  <1> HIDE DEF row, event
  <1>4. /\ IsTable(attempts', AttemptIds, AttemptRow)
        /\ DOMAIN attempts' = DOMAIN attempts \cup {a}
    BY <1>2, <1>3 DEF Typed, TypeOK, IsTable, Insert
  <1>5. /\ IsTable(attempt_event', AttemptIds, AttemptEvents)
        /\ DOMAIN attempt_event' = DOMAIN attempt_event \cup {a}
    BY <1>2, <1>3 DEF Typed, TypeOK, IsTable, Insert
  <1>6. TypeOK'
    BY <1>4, <1>5, DoneRequests DEF Typed, TypeOK, CommitAttempt
  <1>7. RefOK'
    BY <1>4, <1>5, DoneRequests DEF Typed, RefOK, CommitAttempt
  <1>. QED  BY <1>6, <1>7 DEF Typed

\* The transaction of create_assignment keeps types and references.
LEMMA AssignTyped ==
    ASSUME Typed, NEW h \in Handlers, NEW asg \in AssignmentIds,
           CommitAssign(h, asg)
    PROVE  Typed'
  <1> DEFINE a == req[h].attempt
             row == [attempt |-> a, worker |-> req[h].worker,
                     status |-> "created", lease_version |-> 0,
                     lease_token |-> 0, lease_expires_at |-> 0]
  <1>1. req[h] \in AssignRequest /\ a \in DOMAIN attempts
    BY RequestByOp DEF Typed, RefOK, CommitAssign
  <1>2. row \in AssignmentRow
    BY <1>1 DEF AssignRequest, AssignmentRow, AssignmentStatuses
  <1>3. /\ assignments' = Insert(assignments, asg, row)
        /\ assignment_event' = Insert(assignment_event, asg, "assignment.created")
        /\ attempts' = [attempts EXCEPT ![a].status = "assigned"]
        /\ attempt_event' = [attempt_event EXCEPT ![a] = "assignment.created"]
    BY DEF CommitAssign, SetAttemptStatus
  <1>4. row.attempt = a
    OBVIOUS
  <1> HIDE DEF a, row
  <1>5. /\ IsTable(assignments', AssignmentIds, AssignmentRow)
        /\ DOMAIN assignments' = DOMAIN assignments \cup {asg}
        /\ assignments'[asg] = row
        /\ \A b \in DOMAIN assignments \ {asg} : assignments'[b] = assignments[b]
    BY <1>2, <1>3 DEF Typed, TypeOK, IsTable, Insert
  <1>6. /\ IsTable(assignment_event', AssignmentIds, AssignmentEvents)
        /\ DOMAIN assignment_event' = DOMAIN assignment_event \cup {asg}
    BY <1>3 DEF Typed, TypeOK, IsTable, Insert, AssignmentEvents
  <1>7. /\ IsTable(attempts', AttemptIds, AttemptRow)
        /\ DOMAIN attempts' = DOMAIN attempts
    BY <1>1, <1>3, AttemptStatusUpdate DEF Typed, TypeOK, AttemptStatuses
  <1>8. /\ IsTable(attempt_event', AttemptIds, AttemptEvents)
        /\ DOMAIN attempt_event' = DOMAIN attempt_event
    BY <1>1, <1>3 DEF Typed, TypeOK, RefOK, IsTable, AttemptEvents
  <1>9. /\ work_units' \in [WorkUnits -> WorkUnitStatuses]
        /\ wu_event' \in [WorkUnits -> WorkUnitEvents]
    BY DEF Typed, TypeOK, CommitAssign, SetWorkUnitStatus, WorkUnitStatuses,
           WorkUnitEvents
  <1>10. TypeOK'
    BY <1>5, <1>6, <1>7, <1>8, <1>9, DoneRequests
    DEF Typed, TypeOK, CommitAssign
  <1>11. RefOK'
    BY <1>1, <1>4, <1>5, <1>6, <1>7, <1>8, DoneRequests
    DEF Typed, RefOK, CommitAssign
  <1>. QED  BY <1>10, <1>11 DEF Typed

\* What the four transactions that set the status of one assignment and of its
\* attempt have in common.
LEMMA StatusTyped ==
    ASSUME Typed, NEW h \in Handlers, NEW asg \in DOMAIN assignments,
           IsTable(assignments', AssignmentIds, AssignmentRow),
           DOMAIN assignments' = DOMAIN assignments,
           \A b \in DOMAIN assignments :
              assignments'[b].attempt = assignments[b].attempt,
           NEW status \in AttemptStatuses,
           SetAttemptStatus(assignments[asg].attempt, status),
           NEW e \in AttemptEvents, NEW f \in AssignmentEvents,
           attempt_event' =
              [attempt_event EXCEPT ![assignments[asg].attempt] = e],
           assignment_event' = [assignment_event EXCEPT ![asg] = f]
    PROVE  /\ IsTable(attempts', AttemptIds, AttemptRow)
           /\ IsTable(attempt_event', AttemptIds, AttemptEvents)
           /\ IsTable(assignment_event', AssignmentIds, AssignmentEvents)
           /\ DOMAIN attempts' = DOMAIN attempts
           /\ DOMAIN attempt_event' = DOMAIN attempts
           /\ DOMAIN assignment_event' = DOMAIN assignments
           /\ \A b \in DOMAIN assignments' :
                 assignments'[b].attempt \in DOMAIN attempts'
  <1> DEFINE a == assignments[asg].attempt
  <1>1. a \in DOMAIN attempts
    BY DEF Typed, RefOK
  <1>2. attempts' = [attempts EXCEPT ![a].status = status]
    BY DEF SetAttemptStatus
  <1>3. attempt_event' = [attempt_event EXCEPT ![a] = e]
    OBVIOUS
  <1> HIDE DEF a
  <1>4. /\ IsTable(attempts', AttemptIds, AttemptRow)
        /\ DOMAIN attempts' = DOMAIN attempts
    BY <1>1, <1>2, AttemptStatusUpdate DEF Typed, TypeOK
  <1>5. /\ IsTable(attempt_event', AttemptIds, AttemptEvents)
        /\ DOMAIN attempt_event' = DOMAIN attempts
    BY <1>1, <1>3 DEF Typed, TypeOK, RefOK, IsTable
  <1>6. /\ IsTable(assignment_event', AssignmentIds, AssignmentEvents)
        /\ DOMAIN assignment_event' = DOMAIN assignments
    BY DEF Typed, TypeOK, RefOK, IsTable
  <1>7. \A b \in DOMAIN assignments' :
           assignments'[b].attempt \in DOMAIN attempts'
    BY <1>4 DEF Typed, RefOK
  <1>. QED  BY <1>4, <1>5, <1>6, <1>7

\* The transaction of accept_assignment keeps types and references.
LEMMA AcceptTyped ==
    ASSUME Typed, NEW h \in Handlers, CommitAccept(h)
    PROVE  Typed'
  <1> DEFINE asg == req[h].assignment
             expires == req[h].expires
  <1>1. req[h] \in AcceptRequest /\ asg \in DOMAIN assignments
    BY RequestByOp DEF Typed, RefOK, CommitAccept
  <1>2. expires \in Nat /\ asg \in AssignmentIds /\ grants[asg] \in Nat
    BY <1>1 DEF AcceptRequest, Typed, TypeOK
  <1>3. /\ assignments' = [assignments EXCEPT
              ![asg].status = "accepted",
              ![asg].lease_version = @ + 1,
              ![asg].lease_token = grants[asg] + 1,
              ![asg].lease_expires_at = expires]
        /\ grants' = [grants EXCEPT ![asg] = @ + 1]
        /\ SetAttemptStatus(assignments[asg].attempt, "running")
        /\ attempt_event' = [attempt_event EXCEPT
              ![assignments[asg].attempt] = "assignment.accepted"]
        /\ assignment_event' =
              [assignment_event EXCEPT ![asg] = "assignment.accepted"]
    BY DEF CommitAccept
  <1> HIDE DEF asg, expires
  <1>4. /\ IsTable(assignments', AssignmentIds, AssignmentRow)
        /\ DOMAIN assignments' = DOMAIN assignments
        /\ \A b \in DOMAIN assignments :
              assignments'[b].attempt = assignments[b].attempt
    BY <1>1, <1>2, <1>3
    DEF Typed, TypeOK, IsTable, AssignmentRow, AssignmentStatuses
  <1>5. grants' \in [AssignmentIds -> Nat]
    BY <1>2, <1>3 DEF Typed, TypeOK
  <1>6. /\ work_units' \in [WorkUnits -> WorkUnitStatuses]
        /\ wu_event' \in [WorkUnits -> WorkUnitEvents]
    BY DEF Typed, TypeOK, CommitAccept, SetWorkUnitStatus, WorkUnitStatuses,
           WorkUnitEvents
  <1>7. /\ IsTable(attempts', AttemptIds, AttemptRow)
        /\ IsTable(attempt_event', AttemptIds, AttemptEvents)
        /\ IsTable(assignment_event', AssignmentIds, AssignmentEvents)
        /\ DOMAIN attempts' = DOMAIN attempts
        /\ DOMAIN attempt_event' = DOMAIN attempts
        /\ DOMAIN assignment_event' = DOMAIN assignments
        /\ \A b \in DOMAIN assignments' :
              assignments'[b].attempt \in DOMAIN attempts'
    BY <1>1, <1>3, <1>4, StatusTyped
    DEF AttemptStatuses, AttemptEvents, AssignmentEvents
  <1>8. TypeOK'
    BY <1>4, <1>5, <1>6, <1>7, DoneRequests DEF Typed, TypeOK, CommitAccept
  <1>9. RefOK'
    <2>1. results' = results /\ Done(h)
      BY DEF CommitAccept
    <2>2. \A g \in Handlers : req'[g] = req[g] \/ req'[g].op = "idle"
      BY <2>1, DoneRequests DEF Typed
    <2>. QED  BY <1>4, <1>7, <2>1, <2>2 DEF Typed, RefOK
  <1>. QED  BY <1>8, <1>9 DEF Typed

\* reject_assignment keeps types and references.
LEMMA RejectTyped ==
    ASSUME Typed, NEW h \in Handlers, NEW asg \in AssignmentIds,
           NEW wk \in Workers, RejectAssignment(h, asg, wk)
    PROVE  Typed'
  <1>1. asg \in DOMAIN assignments
    BY DEF RejectAssignment
  <1>2. /\ assignments' = [assignments EXCEPT ![asg].status = "rejected"]
        /\ SetAttemptStatus(assignments[asg].attempt, "failed")
        /\ attempt_event' = [attempt_event EXCEPT
              ![assignments[asg].attempt] = "assignment.rejected"]
        /\ assignment_event' =
              [assignment_event EXCEPT ![asg] = "assignment.rejected"]
    BY DEF RejectAssignment
  <1>3. /\ IsTable(assignments', AssignmentIds, AssignmentRow)
        /\ DOMAIN assignments' = DOMAIN assignments
        /\ \A b \in DOMAIN assignments :
              assignments'[b].attempt = assignments[b].attempt
    <2>1. /\ IsTable(assignments, AssignmentIds, AssignmentRow)
          /\ "rejected" \in AssignmentStatuses
      BY DEF Typed, TypeOK, AssignmentStatuses
    <2>2. assignments' = [assignments EXCEPT ![asg].status = "rejected"]
      BY <1>2
    <2>. QED  BY <1>1, <2>1, <2>2 DEF IsTable, AssignmentRow
  <1>4. /\ IsTable(attempts', AttemptIds, AttemptRow)
        /\ IsTable(attempt_event', AttemptIds, AttemptEvents)
        /\ IsTable(assignment_event', AssignmentIds, AssignmentEvents)
        /\ DOMAIN attempts' = DOMAIN attempts
        /\ DOMAIN attempt_event' = DOMAIN attempts
        /\ DOMAIN assignment_event' = DOMAIN assignments
        /\ \A b \in DOMAIN assignments' :
              assignments'[b].attempt \in DOMAIN attempts'
    BY <1>1, <1>2, <1>3, StatusTyped
    DEF AttemptStatuses, AttemptEvents, AssignmentEvents
  <1>5. TypeOK'
    BY <1>3, <1>4 DEF Typed, TypeOK, RejectAssignment
  <1>6. RefOK'
    BY <1>3, <1>4 DEF Typed, RefOK, RejectAssignment
  <1>. QED  BY <1>5, <1>6 DEF Typed

\* The transaction of progress_assignment keeps types and references.
LEMMA ProgressTyped ==
    ASSUME Typed, NEW h \in Handlers, CommitProgress(h)
    PROVE  Typed'
  <1> DEFINE asg == req[h].assignment
             expires == req[h].expires
  <1>1. req[h] \in ProgressRequest /\ asg \in DOMAIN assignments
    BY RequestByOp DEF Typed, RefOK, CommitProgress
  <1>2. expires \in Nat
    BY <1>1 DEF ProgressRequest
  <1>3. /\ assignments' = [assignments EXCEPT
              ![asg].status = "running",
              ![asg].lease_version = @ + 1,
              ![asg].lease_expires_at = expires]
        /\ assignment_event' =
              [assignment_event EXCEPT ![asg] = "assignment.progress"]
    BY DEF CommitProgress
  <1> HIDE DEF asg, expires
  <1>4. /\ IsTable(assignments', AssignmentIds, AssignmentRow)
        /\ DOMAIN assignments' = DOMAIN assignments
        /\ \A b \in DOMAIN assignments :
              assignments'[b].attempt = assignments[b].attempt
    BY <1>1, <1>2, <1>3
    DEF Typed, TypeOK, IsTable, AssignmentRow, AssignmentStatuses
  <1>5. /\ IsTable(assignment_event', AssignmentIds, AssignmentEvents)
        /\ DOMAIN assignment_event' = DOMAIN assignments
    BY <1>1, <1>3 DEF Typed, TypeOK, RefOK, IsTable, AssignmentEvents
  <1>6. TypeOK'
    BY <1>4, <1>5, DoneRequests DEF Typed, TypeOK, CommitProgress
  <1>7. RefOK'
    <2>1. UNCHANGED <<attempts, attempt_event, results>> /\ Done(h)
      BY DEF CommitProgress
    <2>2. \A g \in Handlers : req'[g] = req[g] \/ req'[g].op = "idle"
      BY <2>1, DoneRequests DEF Typed
    <2>. QED  BY <1>4, <1>5, <2>1, <2>2 DEF Typed, RefOK
  <1>. QED  BY <1>6, <1>7 DEF Typed

\* Both branches of the transaction of submit_result keep types and references.
LEMMA SubmitTyped ==
    ASSUME Typed, NEW h \in Handlers, NEW n \in 0 .. MaxReplays,
           CommitSubmit(h, n)
    PROVE  Typed'
  <1> DEFINE asg == req[h].assignment
             kind == req[h].kind
             late == req[h].late
             row == [assignment |-> asg, kind |-> kind, n |-> n,
                     status |-> ResultStatus(kind, late)]
  <1>1. req[h] \in SubmitRequest /\ asg \in DOMAIN assignments
    BY RequestByOp DEF Typed, RefOK, CommitSubmit
  <1>2. asg \in AssignmentIds /\ kind \in ResultKinds /\ late \in BOOLEAN
        /\ n \in Nat
    BY <1>1, BoundsAssumption DEF SubmitRequest
  <1>3. results' = results \cup {row} /\ row.assignment = asg
    BY DEF CommitSubmit
  <1>4. row \in ResultRow
    BY <1>2 DEF ResultRow, ResultStatus, ResultKinds
  <1>5. IF late THEN QuarantineLateResult(asg, kind, n)
                ELSE CompleteAssignment(asg)
    BY DEF CommitSubmit
  <1> HIDE DEF asg, kind, late, row
  <1>6. results' \subseteq ResultRow
    BY <1>3, <1>4 DEF Typed, TypeOK
  <1>7. PICK sa \in AssignmentStatuses, st \in AttemptStatuses,
             e \in AttemptEvents \cap AssignmentEvents :
           /\ assignments' = [assignments EXCEPT ![asg].status = sa]
           /\ SetAttemptStatus(assignments[asg].attempt, st)
           /\ attempt_event' =
                 [attempt_event EXCEPT ![assignments[asg].attempt] = e]
           /\ assignment_event' = [assignment_event EXCEPT ![asg] = e]
    <2>1. CASE late
      <3>1. /\ assignments' = [assignments EXCEPT ![asg].status = "quarantined"]
            /\ SetAttemptStatus(assignments[asg].attempt, "quarantined")
            /\ attempt_event' = [attempt_event EXCEPT
                  ![assignments[asg].attempt] = "result.quarantined"]
            /\ assignment_event' =
                  [assignment_event EXCEPT ![asg] = "result.quarantined"]
        BY <1>5, <2>1 DEF QuarantineLateResult
      <3>. QED  BY <3>1 DEF AssignmentStatuses, AttemptStatuses,
                            AttemptEvents, AssignmentEvents
    <2>2. CASE ~ late
      <3>1. /\ assignments' = [assignments EXCEPT ![asg].status = "completed"]
            /\ SetAttemptStatus(assignments[asg].attempt, "succeeded")
            /\ attempt_event' = [attempt_event EXCEPT
                  ![assignments[asg].attempt] = "result.submitted"]
            /\ assignment_event' =
                  [assignment_event EXCEPT ![asg] = "result.submitted"]
        BY <1>5, <2>2 DEF CompleteAssignment
      <3>. QED  BY <3>1 DEF AssignmentStatuses, AttemptStatuses,
                            AttemptEvents, AssignmentEvents
    <2>. QED  BY <2>1, <2>2
  <1>8. /\ IsTable(assignments', AssignmentIds, AssignmentRow)
        /\ DOMAIN assignments' = DOMAIN assignments
        /\ \A b \in DOMAIN assignments :
              assignments'[b].attempt = assignments[b].attempt
    BY <1>1, <1>7 DEF Typed, TypeOK, IsTable, AssignmentRow
  <1>9. /\ IsTable(attempts', AttemptIds, AttemptRow)
        /\ IsTable(attempt_event', AttemptIds, AttemptEvents)
        /\ IsTable(assignment_event', AssignmentIds, AssignmentEvents)
        /\ DOMAIN attempts' = DOMAIN attempts
        /\ DOMAIN attempt_event' = DOMAIN attempts
        /\ DOMAIN assignment_event' = DOMAIN assignments
        /\ \A b \in DOMAIN assignments' :
              assignments'[b].attempt \in DOMAIN attempts'
    BY <1>1, <1>7, <1>8, StatusTyped
  <1>10. /\ work_units' \in [WorkUnits -> WorkUnitStatuses]
         /\ wu_event' \in [WorkUnits -> WorkUnitEvents]
    BY <1>5 DEF Typed, TypeOK, QuarantineLateResult, CompleteAssignment,
                SetWorkUnitStatus, WorkUnitStatuses, WorkUnitEvents
  <1>11. quarantine' \subseteq ResultId
    BY <1>2, <1>5 DEF Typed, TypeOK, QuarantineLateResult, CompleteAssignment,
                      ResultId
  <1>12. TypeOK'
    BY <1>6, <1>8, <1>9, <1>10, <1>11, DoneRequests
    DEF Typed, TypeOK, CommitSubmit
  <1>13. RefOK'
    BY <1>1, <1>3, <1>8, <1>9, DoneRequests DEF Typed, RefOK, CommitSubmit
  <1>. QED  BY <1>12, <1>13 DEF Typed

\* The updates of sweep_expired_leases keep types and references.
LEMMA SweepTyped ==
    ASSUME Typed, NEW h \in Handlers, CommitSweep(h)
    PROVE  Typed'
  <1>1. /\ IsTable(assignments', AssignmentIds, AssignmentRow)
        /\ DOMAIN assignments' = DOMAIN assignments
        /\ \A b \in DOMAIN assignments :
              assignments'[b].attempt = assignments[b].attempt
    BY DEF Typed, TypeOK, CommitSweep, IsTable, AssignmentRow,
           AssignmentStatuses
  <1>2. /\ IsTable(assignment_event', AssignmentIds, AssignmentEvents)
        /\ DOMAIN assignment_event' = DOMAIN assignments
    BY DEF Typed, TypeOK, RefOK, CommitSweep, IsTable, AssignmentEvents
  <1>3. TypeOK'
    BY <1>1, <1>2, DoneRequests DEF Typed, TypeOK, CommitSweep
  <1>4. RefOK'
    BY <1>1, <1>2, DoneRequests DEF Typed, RefOK, CommitSweep
  <1>. QED  BY <1>3, <1>4 DEF Typed

\* A handler that reads before its transaction: whatever it found, it serves a
\* request, and no table changes.
StartStep(h) ==
    \/ \E w \in WorkUnits : StartFirstAttempt(h, w)
    \/ \E a \in AttemptIds :
          \/ ScheduleRetry(h, a)
          \/ ScheduleFallback(h, a)
          \/ \E wk \in Workers : StartAssign(h, a, wk)
    \/ \E asg \in AssignmentIds, wk \in Workers :
          \/ StartAccept(h, asg, wk)
          \/ \E token \in 0 .. grants[asg] :
                \/ \E v \in 1 .. MaxLeaseVersion :
                      StartProgress(h, asg, wk, token, v)
                \/ \E kind \in ResultKinds :
                      StartSubmit(h, asg, wk, token, kind)
    \/ StartSweep(h)

\* The facts a request starts with: the rows it names exist, a result comes
\* with the token of a granted lease, lateness and attempt number are what
\* the tables say at this moment.
StartFacts(r) ==
    /\ r \in Request
    /\ r.op = "assign" => r.attempt \in DOMAIN attempts
    /\ r.op \in {"accept", "progress", "submit"} =>
          r.assignment \in DOMAIN assignments
    /\ r.op \in {"progress", "submit"} =>
          assignments[r.assignment].lease_token # 0
    /\ r.op = "submit" => (r.late <=> IsLate(r.assignment))
    /\ r.op = "create_attempt" => r.attempt_number \in NextAttemptNumber(r.work_unit)

\* What next_attempt_number returns is a number.
LEMMA NumberFacts ==
    ASSUME Typed, NEW h \in Handlers, NEW w \in WorkUnits,
           NEW event \in {"attempt.created", "scheduler.retry_scheduled",
                          "scheduler.fallback_scheduled"},
           ReadAttemptNumber(h, w, event)
    PROVE  /\ UNCHANGED <<tables, events, grants, clock>>
           /\ \E r : Serve(h, r) /\ StartFacts(r)
  <1>1. PICK n \in NextAttemptNumber(w) :
           Serve(h, [op |-> "create_attempt", work_unit |-> w,
                     attempt_number |-> n, event |-> event])
    BY DEF ReadAttemptNumber
  <1>2. n \in Nat
    BY DEF NextAttemptNumber, AttemptsOf, Typed, TypeOK, IsTable, AttemptRow
  <1> DEFINE r == [op |-> "create_attempt", work_unit |-> w,
                   attempt_number |-> n, event |-> event]
  <1>3. r \in AttemptRequest
    BY <1>2 DEF AttemptRequest
  <1>4. StartFacts(r)
    BY <1>3 DEF StartFacts, Request
  <1>. QED  BY <1>1, <1>4 DEF ReadAttemptNumber

\* What a request carries away from its read phase.
LEMMA StartStepFacts ==
    ASSUME Typed, NEW h \in Handlers, StartStep(h)
    PROVE  /\ UNCHANGED <<tables, events, grants, clock>>
           /\ \E r : Serve(h, r) /\ StartFacts(r)
  <1> USE BoundsAssumption
  <1>1. ASSUME NEW w \in WorkUnits, StartFirstAttempt(h, w)
        PROVE  ReadAttemptNumber(h, w, "attempt.created")
    BY <1>1 DEF StartFirstAttempt
  <1>2. ASSUME NEW a \in AttemptIds, ScheduleRetry(h, a)
        PROVE  /\ attempts[a].work_unit \in WorkUnits
               /\ ReadAttemptNumber(h, attempts[a].work_unit,
                                    "scheduler.retry_scheduled")
    BY <1>2 DEF ScheduleRetry, Typed, TypeOK, IsTable, AttemptRow
  <1>3. ASSUME NEW a \in AttemptIds, ScheduleFallback(h, a)
        PROVE  /\ attempts[a].work_unit \in WorkUnits
               /\ ReadAttemptNumber(h, attempts[a].work_unit,
                                    "scheduler.fallback_scheduled")
    BY <1>3 DEF ScheduleFallback, Typed, TypeOK, IsTable, AttemptRow
  <1>4. ASSUME NEW a \in AttemptIds, NEW wk \in Workers, StartAssign(h, a, wk)
        PROVE  /\ UNCHANGED <<tables, events, grants, clock>>
               /\ \E r : Serve(h, r) /\ StartFacts(r)
    <2> DEFINE r == [op |-> "assign", attempt |-> a, worker |-> wk]
    <2>1. r \in AssignRequest /\ a \in DOMAIN attempts
      BY <1>4 DEF StartAssign, AssignRequest
    <2>2. StartFacts(r)
      BY <2>1 DEF StartFacts, Request
    <2>. QED  BY <1>4, <2>2 DEF StartAssign
  <1>5. ASSUME NEW asg \in AssignmentIds, NEW wk \in Workers,
               StartAccept(h, asg, wk)
        PROVE  /\ UNCHANGED <<tables, events, grants, clock>>
               /\ \E r : Serve(h, r) /\ StartFacts(r)
    <2> DEFINE r == [op |-> "accept", assignment |-> asg,
                     expires |-> clock + LeaseDuration]
    <2>1. r \in AcceptRequest /\ asg \in DOMAIN assignments
      BY <1>5 DEF StartAccept, AcceptRequest, Typed, TypeOK
    <2>2. StartFacts(r)
      BY <2>1 DEF StartFacts, Request
    <2>. QED  BY <1>5, <2>2 DEF StartAccept
  <1>6. ASSUME NEW asg \in AssignmentIds, NEW wk \in Workers,
               NEW token \in 0 .. grants[asg], NEW v \in 1 .. MaxLeaseVersion,
               StartProgress(h, asg, wk, token, v)
        PROVE  /\ UNCHANGED <<tables, events, grants, clock>>
               /\ \E r : Serve(h, r) /\ StartFacts(r)
    <2> DEFINE r == [op |-> "progress", assignment |-> asg, expected |-> v,
                     expires |-> clock + LeaseDuration]
    <2>1. r \in ProgressRequest /\ asg \in DOMAIN assignments
      BY <1>6 DEF StartProgress, ProgressRequest, Typed, TypeOK
    <2>2. assignments[asg].lease_token # 0
      BY <1>6 DEF StartProgress, VerifyLeaseToken
    <2>3. StartFacts(r)
      BY <2>1, <2>2 DEF StartFacts, Request
    <2>. QED  BY <1>6, <2>3 DEF StartProgress
  <1>7. ASSUME NEW asg \in AssignmentIds, NEW wk \in Workers,
               NEW token \in 0 .. grants[asg], NEW kind \in ResultKinds,
               StartSubmit(h, asg, wk, token, kind)
        PROVE  /\ UNCHANGED <<tables, events, grants, clock>>
               /\ \E r : Serve(h, r) /\ StartFacts(r)
    <2> DEFINE r == [op |-> "submit", assignment |-> asg, kind |-> kind,
                     late |-> IsLate(asg)]
    <2>1. r \in SubmitRequest /\ asg \in DOMAIN assignments
      BY <1>7 DEF StartSubmit, SubmitRequest, IsLate, NewerAttemptExists
    <2>2. assignments[asg].lease_token # 0
      BY <1>7 DEF StartSubmit, VerifyLeaseToken
    <2>3. StartFacts(r)
      BY <2>1, <2>2 DEF StartFacts, Request
    <2>. QED  BY <1>7, <2>3 DEF StartSubmit
  <1>8. ASSUME StartSweep(h)
        PROVE  /\ UNCHANGED <<tables, events, grants, clock>>
               /\ \E r : Serve(h, r) /\ StartFacts(r)
    <2> DEFINE r == [op |-> "sweep", rows |-> OverdueLeases]
    <2>1. r \in SweepRequest
      BY DEF SweepRequest, OverdueLeases, Typed, TypeOK, IsTable
    <2>2. StartFacts(r)
      BY <2>1 DEF StartFacts, Request
    <2>. QED  BY <1>8, <2>2 DEF StartSweep
  <1>. QED
    BY <1>1, <1>2, <1>3, <1>4, <1>5, <1>6, <1>7, <1>8, NumberFacts
    DEF StartStep

\* The actions of Next, with the reads folded into StartStep.
LEMMA NextSplit ==
    ASSUME [Next]_vars
    PROVE  \/ UNCHANGED vars
           \/ Tick
           \/ \E h \in Handlers :
                 \/ StartStep(h)
                 \/ \E a \in AttemptIds : CommitAttempt(h, a)
                 \/ \E asg \in AssignmentIds : CommitAssign(h, asg)
                 \/ CommitAccept(h)
                 \/ \E asg \in AssignmentIds, wk \in Workers :
                       RejectAssignment(h, asg, wk)
                 \/ CommitProgress(h)
                 \/ \E n \in 0 .. MaxReplays : CommitSubmit(h, n)
                 \/ CommitSweep(h)
                 \/ RequestFails(h)
  BY DEF Next, AttemptNext, AssignmentNext, StartStep

\* Every step keeps types and references.
LEMMA StepTyped == Typed /\ [Next]_vars => Typed'
  <1> SUFFICES ASSUME Typed, [Next]_vars PROVE Typed'
    OBVIOUS
  <1>1. CASE UNCHANGED vars
    BY <1>1 DEF vars, Typed, TypeOK, RefOK, IsTable
  <1>2. CASE Tick
    BY <1>2 DEF Tick, tables, events, Typed, TypeOK, RefOK, IsTable
  <1>3. ASSUME NEW h \in Handlers, StartStep(h) PROVE Typed'
    BY <1>3, StartStepFacts, StartTyped DEF StartFacts
  <1>4. ASSUME NEW h \in Handlers, RequestFails(h) PROVE Typed'
    BY <1>4, DoneRequests
    DEF RequestFails, tables, events, Typed, TypeOK, RefOK, IsTable
  <1>. QED
    BY <1>1, <1>2, <1>3, <1>4, NextSplit, AttemptTyped, AssignTyped,
       AcceptTyped, RejectTyped, ProgressTyped, SubmitTyped, SweepTyped

\* Every value of every variable stays of its type, and no row or request
\* ever refers to a row that does not exist.
THEOREM TypeCorrect == Spec => []TypeOK
  <1>1. Typed => TypeOK
    BY DEF Typed
  <1>. QED  BY <1>1, InitTyped, StepTyped, PTL DEF Spec

-----------------------------------------------------------------------------
\* What a row is about never changes once it is inserted, and no row is
\* deleted: the facts every other invariant rests on.
KeepsIdentity ==
    /\ DOMAIN attempts \subseteq DOMAIN attempts'
    /\ \A a \in DOMAIN attempts :
          /\ attempts'[a].work_unit = attempts[a].work_unit
          /\ attempts'[a].attempt_number = attempts[a].attempt_number
    /\ DOMAIN assignments \subseteq DOMAIN assignments'
    /\ \A asg \in DOMAIN assignments :
          /\ assignments'[asg].attempt = assignments[asg].attempt
          /\ assignments'[asg].worker = assignments[asg].worker
    /\ results \subseteq results'

\* No step deletes a row or changes what identifies it.
LEMMA StepKeepsIdentity == Typed /\ [Next]_vars => KeepsIdentity
  <1> SUFFICES ASSUME Typed, [Next]_vars PROVE KeepsIdentity
    OBVIOUS
  <1>1. CASE UNCHANGED vars
    BY <1>1 DEF vars, KeepsIdentity
  <1>2. CASE Tick
    BY <1>2 DEF Tick, tables, KeepsIdentity
  <1>3. ASSUME NEW h \in Handlers, StartStep(h) PROVE KeepsIdentity
    BY <1>3, StartStepFacts DEF tables, KeepsIdentity
  <1>4. ASSUME NEW h \in Handlers, NEW a \in AttemptIds, CommitAttempt(h, a)
        PROVE  KeepsIdentity
    BY <1>4 DEF CommitAttempt, Insert, KeepsIdentity
  <1>5. ASSUME NEW h \in Handlers, NEW asg \in AssignmentIds,
               CommitAssign(h, asg)
        PROVE  KeepsIdentity
    BY <1>5 DEF CommitAssign, SetAttemptStatus, Insert, KeepsIdentity, Typed,
                TypeOK, IsTable, AttemptRow
  <1>6. ASSUME NEW h \in Handlers, CommitAccept(h) PROVE KeepsIdentity
    <2> DEFINE asg == req[h].assignment
    <2>1. /\ results' = results
          /\ attempts' = [attempts EXCEPT
                             ![assignments[asg].attempt].status = "running"]
      BY <1>6 DEF CommitAccept, SetAttemptStatus
    <2>2. \E v, t, e : assignments' = [assignments EXCEPT
             ![asg].status = "accepted", ![asg].lease_version = v,
             ![asg].lease_token = t, ![asg].lease_expires_at = e]
      BY <1>6 DEF CommitAccept
    <2> HIDE DEF asg
    <2>3. /\ DOMAIN assignments' = DOMAIN assignments
          /\ \A b \in DOMAIN assignments :
                /\ assignments'[b].attempt = assignments[b].attempt
                /\ assignments'[b].worker = assignments[b].worker
      BY <2>2 DEF Typed, TypeOK, IsTable, AssignmentRow
    <2>. QED
      BY <2>1, <2>3 DEF KeepsIdentity, Typed, TypeOK, IsTable, AttemptRow
  <1>7. ASSUME NEW h \in Handlers, NEW asg \in AssignmentIds,
               NEW wk \in Workers, RejectAssignment(h, asg, wk)
        PROVE  KeepsIdentity
    BY <1>7 DEF RejectAssignment, SetAttemptStatus, KeepsIdentity, Typed,
                TypeOK, IsTable, AttemptRow, AssignmentRow
  <1>8. ASSUME NEW h \in Handlers, CommitProgress(h) PROVE KeepsIdentity
    BY <1>8 DEF CommitProgress, KeepsIdentity, Typed, TypeOK, IsTable,
                AssignmentRow
  <1>9. ASSUME NEW h \in Handlers, NEW n \in 0 .. MaxReplays,
               CommitSubmit(h, n)
        PROVE  KeepsIdentity
    <2> DEFINE asg == req[h].assignment
    <2>1. results \subseteq results'
      BY <1>9 DEF CommitSubmit
    <2>2. \E sa, st :
             /\ assignments' = [assignments EXCEPT ![asg].status = sa]
             /\ attempts' = [attempts EXCEPT
                                ![assignments[asg].attempt].status = st]
      BY <1>9 DEF CommitSubmit, QuarantineLateResult, CompleteAssignment,
                  SetAttemptStatus
    <2> HIDE DEF asg
    <2>. QED
      BY <2>1, <2>2 DEF KeepsIdentity, Typed, TypeOK, IsTable, AttemptRow,
                        AssignmentRow
  <1>10. ASSUME NEW h \in Handlers, CommitSweep(h) PROVE KeepsIdentity
    BY <1>10 DEF CommitSweep, KeepsIdentity, Typed, TypeOK, IsTable,
                 AssignmentRow
  <1>11. ASSUME NEW h \in Handlers, RequestFails(h) PROVE KeepsIdentity
    BY <1>11 DEF RequestFails, tables, KeepsIdentity
  <1>. QED
    BY <1>1, <1>2, <1>3, <1>4, <1>5, <1>6, <1>7, <1>8, <1>9, <1>10, <1>11,
       NextSplit

-----------------------------------------------------------------------------
(* Leases *)

\* The token column counts the tokens handed out, lease_version is 0 exactly
\* before the first, and who may report progress or a result holds a token.
LeaseInv ==
    /\ \A asg \in DOMAIN assignments :
          /\ assignments[asg].lease_token = grants[asg]
          /\ assignments[asg].lease_version = 0 <=> grants[asg] = 0
    /\ \A asg \in AssignmentIds :
          /\ grants[asg] <= 1
          /\ asg \notin DOMAIN assignments => grants[asg] = 0
    /\ \A h \in Handlers :
          req[h].op \in {"progress", "submit"} =>
             grants[req[h].assignment] = 1
    /\ \A r \in results : grants[r.assignment] = 1

\* Every step keeps the lease invariant.
LEMMA StepLease == Typed /\ LeaseInv /\ [Next]_vars => LeaseInv'
  <1> SUFFICES ASSUME Typed, LeaseInv, [Next]_vars PROVE LeaseInv'
    OBVIOUS
  <1>1. CASE UNCHANGED vars
    BY <1>1 DEF vars, LeaseInv
  <1>2. CASE Tick
    BY <1>2 DEF Tick, tables, LeaseInv
  <1>3. ASSUME NEW h \in Handlers, StartStep(h) PROVE LeaseInv'
    <2>1. PICK r : Serve(h, r) /\ StartFacts(r)
      BY <1>3, StartStepFacts
    <2>2. UNCHANGED <<attempts, assignments, results, grants>>
      BY <1>3, StartStepFacts DEF tables
    <2>3. ASSUME r.op \in {"progress", "submit"}
          PROVE  grants[r.assignment] = 1
      <3>1. /\ r.assignment \in DOMAIN assignments
            /\ assignments[r.assignment].lease_token # 0
        BY <2>1, <2>3 DEF StartFacts
      <3>2. /\ r.assignment \in AssignmentIds
            /\ grants[r.assignment] \in Nat
        BY <3>1 DEF Typed, TypeOK, IsTable
      <3>. QED  BY <3>1, <3>2 DEF LeaseInv
    <2>. QED  BY <2>1, <2>2, <2>3 DEF Serve, LeaseInv, Typed, TypeOK
  <1>4. ASSUME NEW h \in Handlers, NEW a \in AttemptIds, CommitAttempt(h, a)
        PROVE  LeaseInv'
    BY <1>4, DoneRequests DEF CommitAttempt, LeaseInv, Typed
  <1>5. ASSUME NEW h \in Handlers, NEW asg \in AssignmentIds,
               CommitAssign(h, asg)
        PROVE  LeaseInv'
    BY <1>5, DoneRequests DEF CommitAssign, Insert, LeaseInv, Typed
  <1>6. ASSUME NEW h \in Handlers, CommitAccept(h) PROVE LeaseInv'
    <2> DEFINE asg == req[h].assignment
    <2>1. asg \in DOMAIN assignments /\ asg \in AssignmentIds
      BY <1>6 DEF CommitAccept, Typed, TypeOK, RefOK, IsTable
    <2>2. grants[asg] = 0
      BY <1>6, <2>1 DEF CommitAccept, LeaseVersionMatches, LeaseInv
    <2>3. /\ grants' = [grants EXCEPT ![asg] = 1]
          /\ results' = results
          /\ Done(h)
      BY <1>6, <2>2, <2>1 DEF CommitAccept, Typed, TypeOK
    <2>4. /\ DOMAIN assignments' = DOMAIN assignments
          /\ assignments'[asg].lease_token = 1
          /\ assignments'[asg].lease_version = assignments[asg].lease_version + 1
          /\ \A b \in DOMAIN assignments \ {asg} :
                assignments'[b] = assignments[b]
      BY <1>6, <2>1, <2>2
      DEF CommitAccept, Typed, TypeOK, IsTable, AssignmentRow
    <2>5. assignments[asg].lease_version \in Nat
      BY <2>1 DEF Typed, TypeOK, IsTable, AssignmentRow
    <2> HIDE DEF asg
    <2>6. \A g \in Handlers : req'[g].op \in {"progress", "submit"} =>
             grants'[req'[g].assignment] = 1
      BY <2>1, <2>3, DoneRequests DEF LeaseInv, Typed, TypeOK, RefOK, IsTable
    <2>7. \A r \in results' : grants'[r.assignment] = 1
      BY <2>1, <2>3 DEF LeaseInv, Typed, TypeOK, RefOK, IsTable
    <2>8. \A b \in AssignmentIds :
             /\ grants'[b] <= 1
             /\ b \notin DOMAIN assignments' => grants'[b] = 0
      BY <2>1, <2>3, <2>4 DEF LeaseInv, Typed, TypeOK
    <2>9. \A b \in DOMAIN assignments' :
             /\ assignments'[b].lease_token = grants'[b]
             /\ assignments'[b].lease_version = 0 <=> grants'[b] = 0
      BY <2>1, <2>3, <2>4, <2>5 DEF LeaseInv, Typed, TypeOK, IsTable
    <2>. QED  BY <2>6, <2>7, <2>8, <2>9 DEF LeaseInv
  <1>7. ASSUME NEW h \in Handlers, NEW asg \in AssignmentIds,
               NEW wk \in Workers, RejectAssignment(h, asg, wk)
        PROVE  LeaseInv'
    BY <1>7 DEF RejectAssignment, LeaseInv, Typed, TypeOK, IsTable,
                AssignmentRow
  <1>8. ASSUME NEW h \in Handlers, CommitProgress(h) PROVE LeaseInv'
    <2> DEFINE asg == req[h].assignment
    <2>1. asg \in DOMAIN assignments /\ grants[asg] = 1
      BY <1>8 DEF CommitProgress, Typed, RefOK, LeaseInv
    <2>2. /\ DOMAIN assignments' = DOMAIN assignments
          /\ assignments'[asg].lease_token = assignments[asg].lease_token
          /\ assignments'[asg].lease_version = assignments[asg].lease_version + 1
          /\ \A b \in DOMAIN assignments \ {asg} :
                assignments'[b] = assignments[b]
      BY <1>8, <2>1 DEF CommitProgress, Typed, TypeOK, IsTable, AssignmentRow
    <2>3. assignments[asg].lease_version \in Nat
      BY <2>1 DEF Typed, TypeOK, IsTable, AssignmentRow
    <2>4. UNCHANGED <<grants, results>> /\ Done(h)
      BY <1>8 DEF CommitProgress
    <2> HIDE DEF asg
    <2>. QED  BY <2>1, <2>2, <2>3, <2>4, DoneRequests DEF LeaseInv, Typed
  <1>9. ASSUME NEW h \in Handlers, NEW n \in 0 .. MaxReplays,
               CommitSubmit(h, n)
        PROVE  LeaseInv'
    <2> DEFINE asg == req[h].assignment
    <2>1. asg \in DOMAIN assignments /\ grants[asg] = 1
      BY <1>9 DEF CommitSubmit, Typed, RefOK, LeaseInv
    <2>2. \E sa : assignments' = [assignments EXCEPT ![asg].status = sa]
      BY <1>9 DEF CommitSubmit, QuarantineLateResult, CompleteAssignment
    <2>3. \A r \in results' : r \in results \/ r.assignment = asg
      BY <1>9 DEF CommitSubmit
    <2>4. UNCHANGED grants /\ Done(h)
      BY <1>9 DEF CommitSubmit
    <2> HIDE DEF asg
    <2>5. /\ DOMAIN assignments' = DOMAIN assignments
          /\ \A b \in DOMAIN assignments :
                /\ assignments'[b].lease_token = assignments[b].lease_token
                /\ assignments'[b].lease_version = assignments[b].lease_version
      BY <2>1, <2>2 DEF Typed, TypeOK, IsTable, AssignmentRow
    <2>. QED  BY <2>1, <2>3, <2>4, <2>5, DoneRequests DEF LeaseInv, Typed
  <1>10. ASSUME NEW h \in Handlers, CommitSweep(h) PROVE LeaseInv'
    <2>1. /\ DOMAIN assignments' = DOMAIN assignments
          /\ \A b \in DOMAIN assignments :
                /\ assignments'[b].lease_token = assignments[b].lease_token
                /\ assignments'[b].lease_version = assignments[b].lease_version
      BY <1>10 DEF CommitSweep, Typed, TypeOK, IsTable, AssignmentRow
    <2>2. UNCHANGED <<grants, results>> /\ Done(h)
      BY <1>10 DEF CommitSweep
    <2>. QED  BY <2>1, <2>2, DoneRequests DEF LeaseInv, Typed
  <1>11. ASSUME NEW h \in Handlers, RequestFails(h) PROVE LeaseInv'
    BY <1>11, DoneRequests DEF RequestFails, tables, LeaseInv, Typed
  <1>. QED
    BY <1>1, <1>2, <1>3, <1>4, <1>5, <1>6, <1>7, <1>8, <1>9, <1>10, <1>11,
       NextSplit

\* Of the accept requests that race for an assignment at most one ever gets a
\* lease token, for any number of handlers.
THEOREM OneLease == Spec => []LeaseGrantedOnce
  <1>1. Init => LeaseInv
    BY DEF Init, LeaseInv, Idle
  <1>2. Typed /\ LeaseInv => LeaseGrantedOnce
    BY DEF LeaseInv, LeaseGrantedOnce
  <1>. QED  BY <1>1, <1>2, InitTyped, StepTyped, StepLease, PTL DEF Spec

\* Nobody's result is ever recorded without a granted lease.
THEOREM LeasedResults == Spec => []ResultsAreLeased
  <1>1. Init => LeaseInv
    BY DEF Init, LeaseInv, Idle
  <1>2. Typed /\ LeaseInv => ResultsAreLeased
    BY DEF LeaseInv, ResultsAreLeased, Typed, RefOK
  <1>. QED  BY <1>1, <1>2, InitTyped, StepTyped, StepLease, PTL DEF Spec

\* Every step that changes a lease advances its version by one.
THEOREM LeaseVersioned == Spec => LeaseMovesWithVersion
  <1>1. Typed /\ [Next]_vars => [LeaseStep]_vars
    <2> SUFFICES ASSUME Typed, [Next]_vars PROVE UNCHANGED assignments \/ LeaseStep
      BY DEF LeaseStep
    <2>1. CASE UNCHANGED vars
      BY <2>1 DEF vars
    <2>2. CASE Tick
      BY <2>2 DEF Tick, tables
    <2>3. ASSUME NEW h \in Handlers,
                 \/ StartStep(h)
                 \/ \E a \in AttemptIds : CommitAttempt(h, a)
                 \/ RequestFails(h)
          PROVE  UNCHANGED assignments
      BY <2>3, StartStepFacts DEF CommitAttempt, RequestFails, tables
    <2>4. ASSUME NEW h \in Handlers, NEW asg \in AssignmentIds,
                 CommitAssign(h, asg)
          PROVE  LeaseStep
      BY <2>4 DEF LeaseStep, CommitAssign, Insert
    <2>5. ASSUME NEW h \in Handlers, CommitAccept(h) PROVE LeaseStep
      <3> DEFINE asg == req[h].assignment
      <3>1. \E t, e : assignments' = [assignments EXCEPT
               ![asg].status = "accepted", ![asg].lease_version = @ + 1,
               ![asg].lease_token = t, ![asg].lease_expires_at = e]
        BY <2>5 DEF CommitAccept
      <3> HIDE DEF asg
      <3>. QED  BY <3>1 DEF LeaseStep, Typed, TypeOK, IsTable, AssignmentRow, Lease
    <2>6. ASSUME NEW h \in Handlers, NEW asg \in AssignmentIds,
                 NEW wk \in Workers, RejectAssignment(h, asg, wk)
          PROVE  LeaseStep
      BY <2>6 DEF LeaseStep, RejectAssignment, Typed, TypeOK, IsTable, AssignmentRow, Lease
    <2>7. ASSUME NEW h \in Handlers, CommitProgress(h) PROVE LeaseStep
      BY <2>7 DEF LeaseStep, CommitProgress, Typed, TypeOK, RefOK, IsTable, AssignmentRow
    <2>8. ASSUME NEW h \in Handlers, NEW n \in 0 .. MaxReplays,
                 CommitSubmit(h, n)
          PROVE  LeaseStep
      <3> DEFINE asg == req[h].assignment
      <3>1. \E sa : assignments' = [assignments EXCEPT ![asg].status = sa]
        BY <2>8 DEF CommitSubmit, QuarantineLateResult, CompleteAssignment
      <3> HIDE DEF asg
      <3>. QED  BY <3>1 DEF LeaseStep, Typed, TypeOK, IsTable, AssignmentRow, Lease
    <2>9. ASSUME NEW h \in Handlers, CommitSweep(h) PROVE LeaseStep
      BY <2>9 DEF LeaseStep, CommitSweep, Typed, TypeOK, IsTable, AssignmentRow, Lease
    <2>. QED
      BY <2>1, <2>2, <2>3, <2>4, <2>5, <2>6, <2>7, <2>8, <2>9, NextSplit
  <1>. QED
    BY <1>1, InitTyped, StepTyped, PTL DEF Spec, LeaseMovesWithVersion

-----------------------------------------------------------------------------
(* Quarantine *)

\* A row that was overtaken stays overtaken.
LEMMA LateIsStable ==
    ASSUME Typed, Typed', KeepsIdentity,
           NEW asg \in DOMAIN assignments, IsLate(asg)
    PROVE  IsLate(asg)'
  <1> DEFINE a == assignments[asg].attempt
  <1>1. a \in DOMAIN attempts /\ a \in DOMAIN attempts'
        /\ assignments'[asg].attempt = a
    BY DEF Typed, RefOK, KeepsIdentity
  <1>2. PICK b \in DOMAIN attempts :
           /\ attempts[b].work_unit = attempts[a].work_unit
           /\ attempts[b].attempt_number > attempts[a].attempt_number
    BY DEF IsLate, WorkUnitOf, NewerAttemptExists, AttemptsOf
  <1>3. /\ b \in DOMAIN attempts'
        /\ attempts'[b].work_unit = attempts'[a].work_unit
        /\ attempts'[b].attempt_number > attempts'[a].attempt_number
    BY <1>1, <1>2 DEF KeepsIdentity
  <1>. QED  BY <1>1, <1>3 DEF IsLate, WorkUnitOf, NewerAttemptExists, AttemptsOf

\* Lateness found before the transaction still holds in it.
LateInv ==
    /\ QuarantineSound
    /\ \A h \in Handlers : req[h].op = "submit" /\ req[h].late =>
          IsLate(req[h].assignment)

\* Every step keeps the quarantine sound, stale reads included.
LEMMA StepLate == Typed /\ LateInv /\ [Next]_vars => LateInv'
  <1> SUFFICES ASSUME Typed, LateInv, [Next]_vars PROVE LateInv'
    OBVIOUS
  <1>1. Typed' /\ KeepsIdentity
    BY StepTyped, StepKeepsIdentity
  <1>2. \A q \in quarantine : q.assignment \in DOMAIN assignments
    BY DEF LateInv, QuarantineSound, ResultIdOf, Typed, RefOK
  <1>3. ASSUME results' = results, quarantine' = quarantine
        PROVE  QuarantineSound'
    <2>1. \A q \in quarantine : IsLate(q.assignment)'
      BY <1>1, <1>2, LateIsStable DEF LateInv, QuarantineSound
    <2>. QED  BY <1>3, <2>1 DEF LateInv, QuarantineSound, IsHeld
  <1>4. ASSUME NEW g \in Handlers, req[g].op = "submit", req[g].late,
               req'[g] = req[g]
        PROVE  IsLate(req[g].assignment)'
    <2>1. PICK asg \in DOMAIN assignments : asg = req[g].assignment
      BY <1>4 DEF Typed, RefOK
    <2>2. IsLate(asg)
      BY <1>4, <2>1 DEF LateInv
    <2>3. IsLate(asg)'
      BY <1>1, <2>1, <2>2, LateIsStable
    <2>. QED  BY <1>4, <2>1, <2>3
  <1>5. CASE UNCHANGED vars \/ Tick
    BY <1>3, <1>4, <1>5 DEF vars, Tick, tables, LateInv
  <1>6. ASSUME NEW h \in Handlers, StartStep(h) PROVE LateInv'
    <2>1. PICK r : Serve(h, r) /\ StartFacts(r)
      BY <1>6, StartStepFacts
    <2>2. UNCHANGED <<attempts, assignments, results, quarantine>>
      BY <1>6, StartStepFacts DEF tables
    <2>3. r.op = "submit" /\ r.late => IsLate(r.assignment)'
      BY <1>1, <2>1, LateIsStable DEF StartFacts
    <2>4. req'[h] = r /\ \A g \in Handlers \ {h} : req'[g] = req[g]
      BY <2>1 DEF Serve, Typed, TypeOK
    <2>. QED  BY <1>3, <1>4, <2>2, <2>3, <2>4 DEF LateInv
  <1>7. ASSUME NEW h \in Handlers, NEW n \in 0 .. MaxReplays,
               CommitSubmit(h, n)
        PROVE  LateInv'
    <2>1. PICK asg \in DOMAIN assignments, kind \in ResultKinds,
               late \in BOOLEAN :
             /\ asg = req[h].assignment
             /\ kind = req[h].kind
             /\ late = req[h].late
      BY <1>7, RequestByOp DEF CommitSubmit, Typed, RefOK, SubmitRequest
    <2> DEFINE id == [assignment |-> asg, kind |-> kind, n |-> n]
               row == [assignment |-> asg, kind |-> kind, n |-> n,
                       status |-> ResultStatus(kind, late)]
    <2>2. results' = results \cup {row}
      BY <1>7, <2>1 DEF CommitSubmit
    <2>3. quarantine' = IF late THEN quarantine \cup {id} ELSE quarantine
      BY <1>7, <2>1 DEF CommitSubmit, QuarantineLateResult, CompleteAssignment
    <2>4. /\ row.status = "quarantined" <=> late \/ row.kind = "quarantined"
          /\ ResultIdOf(row) = id
          /\ id.assignment = asg
      BY <2>1 DEF ResultStatus, ResultIdOf
    <2>5. ASSUME late PROVE IsLate(asg)'
      <3>1. IsLate(asg)
        BY <1>7, <2>1, <2>5 DEF CommitSubmit, LateInv
      <3>. QED  BY <1>1, <2>1, <3>1, LateIsStable
    <2>6. id \notin {ResultIdOf(r) : r \in results}
      BY <1>7, <2>1 DEF CommitSubmit, FreshResultKey
    <2> HIDE DEF id, row
    <2>7. \A q \in quarantine' : IsLate(q.assignment)'
      BY <1>1, <1>2, <2>3, <2>4, <2>5, LateIsStable
      DEF LateInv, QuarantineSound
    <2>8. QuarantineSound'
      <3>1. quarantine' \subseteq {ResultIdOf(r) : r \in results'}
        BY <2>2, <2>3, <2>4 DEF LateInv, QuarantineSound
      <3>2. \A r \in results : IsHeld(r)' <=> IsHeld(r)
        BY <2>3, <2>6 DEF IsHeld
      <3>3. IsHeld(row)' <=> late
        BY <2>3, <2>4, <2>6 DEF IsHeld, LateInv, QuarantineSound
      <3>4. \A r \in results' :
               r.status = "quarantined" <=> IsHeld(r)' \/ r.kind = "quarantined"
        BY <2>2, <2>4, <3>2, <3>3 DEF LateInv, QuarantineSound
      <3>. QED  BY <2>7, <3>1, <3>4 DEF QuarantineSound
    <2>9. Done(h)
      BY <1>7 DEF CommitSubmit
    <2>. QED  BY <1>4, <2>8, <2>9, DoneRequests DEF LateInv, Typed
  <1>8. ASSUME NEW h \in Handlers,
               \/ \E a \in AttemptIds : CommitAttempt(h, a)
               \/ \E asg \in AssignmentIds : CommitAssign(h, asg)
               \/ CommitAccept(h)
               \/ CommitProgress(h)
               \/ CommitSweep(h)
               \/ RequestFails(h)
        PROVE  LateInv'
    <2>1. UNCHANGED <<results, quarantine>> /\ Done(h)
      BY <1>8 DEF CommitAttempt, CommitAssign, CommitAccept, CommitProgress,
                  CommitSweep, RequestFails, tables
    <2>. QED  BY <1>3, <1>4, <2>1, DoneRequests DEF LateInv, Typed
  <1>9. ASSUME NEW h \in Handlers, NEW asg \in AssignmentIds,
               NEW wk \in Workers, RejectAssignment(h, asg, wk)
        PROVE  LateInv'
    BY <1>3, <1>4, <1>9 DEF RejectAssignment, LateInv
  <1>. QED  BY <1>5, <1>6, <1>7, <1>8, <1>9, NextSplit

\* However the requests interleave, what result_quarantine holds was overtaken
\* by a newer attempt of its work unit, and a result recorded as quarantined is
\* held there unless its worker marked it so.
THEOREM QuarantineIsSound == Spec => []QuarantineSound
  <1>1. Init => LateInv
    BY DEF Init, LateInv, QuarantineSound, Idle
  <1>2. LateInv => QuarantineSound
    BY DEF LateInv
  <1>. QED  BY <1>1, <1>2, InitTyped, StepTyped, StepLate, PTL DEF Spec

-----------------------------------------------------------------------------
(* The outbox explains the tables *)

\* The three parts of EventsExplainTables.
WorkUnitsExplained ==
    \A w \in WorkUnits : work_units[w] = WorkUnitStatusAfter(wu_event[w])
AttemptsExplained ==
    \A a \in DOMAIN attempts :
        attempts[a].status = AttemptStatusAfter(attempt_event[a])
AssignmentsExplained ==
    \A asg \in DOMAIN assignments :
        assignments[asg].status = AssignmentStatusAfter(assignment_event[asg])

Explained == WorkUnitsExplained /\ AttemptsExplained /\ AssignmentsExplained

\* The status each work unit event announces.
LEMMA WorkUnitAnnounced ==
    /\ WorkUnitStatusAfter("work_unit.created") = "submitted"
    /\ WorkUnitStatusAfter("work_unit.assigned") = "assigned"
    /\ WorkUnitStatusAfter("work_unit.running") = "running"
    /\ WorkUnitStatusAfter("work_unit.succeeded") = "succeeded"
  BY DEF WorkUnitStatusAfter

\* The status each attempt event announces.
LEMMA AttemptAnnounced ==
    /\ AttemptStatusAfter("attempt.created") = "created"
    /\ AttemptStatusAfter("scheduler.retry_scheduled") = "scheduled"
    /\ AttemptStatusAfter("scheduler.fallback_scheduled") = "scheduled"
    /\ AttemptStatusAfter("assignment.created") = "assigned"
    /\ AttemptStatusAfter("assignment.accepted") = "running"
    /\ AttemptStatusAfter("assignment.rejected") = "failed"
    /\ AttemptStatusAfter("result.submitted") = "succeeded"
    /\ AttemptStatusAfter("result.quarantined") = "quarantined"
  BY DEF AttemptStatusAfter

\* The status each assignment event announces.
LEMMA AssignmentAnnounced ==
    /\ AssignmentStatusAfter("assignment.created") = "created"
    /\ AssignmentStatusAfter("assignment.accepted") = "accepted"
    /\ AssignmentStatusAfter("assignment.rejected") = "rejected"
    /\ AssignmentStatusAfter("assignment.progress") = "running"
    /\ AssignmentStatusAfter("assignment.expired") = "expired"
    /\ AssignmentStatusAfter("result.submitted") = "completed"
    /\ AssignmentStatusAfter("result.quarantined") = "quarantined"
  BY DEF AssignmentStatusAfter

\* update_work_unit_status with an event that announces the status it sets.
LEMMA WorkUnitMoves ==
    ASSUME Typed, WorkUnitsExplained, NEW w, NEW status, NEW e,
           status = WorkUnitStatusAfter(e), SetWorkUnitStatus(w, status, e)
    PROVE  WorkUnitsExplained'
  BY DEF SetWorkUnitStatus, WorkUnitsExplained, Typed, TypeOK

\* An attempt's status set together with the event that announces it.
LEMMA AttemptMoves ==
    ASSUME Typed, AttemptsExplained, NEW a \in DOMAIN attempts,
           NEW status \in AttemptStatuses, NEW e,
           status = AttemptStatusAfter(e), SetAttemptStatus(a, status),
           attempt_event' = [attempt_event EXCEPT ![a] = e]
    PROVE  AttemptsExplained'
  <1>1. attempts' = [attempts EXCEPT ![a].status = status]
    BY DEF SetAttemptStatus
  <1>2. /\ DOMAIN attempts' = DOMAIN attempts
        /\ attempts'[a].status = status
        /\ \A b \in DOMAIN attempts : b # a => attempts'[b] = attempts[b]
    BY <1>1, AttemptStatusUpdate DEF Typed, TypeOK
  <1>3. /\ attempt_event'[a] = e
        /\ \A b \in DOMAIN attempts : b # a => attempt_event'[b] = attempt_event[b]
    BY DEF Typed, TypeOK, RefOK, IsTable
  <1>. QED  BY <1>2, <1>3 DEF AttemptsExplained

\* The same for an assignment, whatever else of its row changes.
LEMMA AssignmentMoves ==
    ASSUME Typed, AssignmentsExplained, NEW asg \in DOMAIN assignments, NEW e,
           DOMAIN assignments' = DOMAIN assignments,
           assignments'[asg].status = AssignmentStatusAfter(e),
           \A b \in DOMAIN assignments \ {asg} :
              assignments'[b] = assignments[b],
           assignment_event' = [assignment_event EXCEPT ![asg] = e]
    PROVE  AssignmentsExplained'
  <1>1. /\ assignment_event'[asg] = e
        /\ \A b \in DOMAIN assignments \ {asg} :
              assignment_event'[b] = assignment_event[b]
    BY DEF Typed, TypeOK, RefOK, IsTable
  <1>. QED  BY <1>1 DEF AssignmentsExplained

\* A status update of one assignment row leaves the other rows alone.
LEMMA AssignmentStatusUpdate ==
    ASSUME Typed, NEW asg \in DOMAIN assignments, NEW s,
           assignments' = [assignments EXCEPT ![asg].status = s]
    PROVE  /\ DOMAIN assignments' = DOMAIN assignments
           /\ assignments'[asg].status = s
           /\ \A b \in DOMAIN assignments \ {asg} :
                 assignments'[b] = assignments[b]
  BY DEF Typed, TypeOK, IsTable, AssignmentRow

\* Every transaction writes the event of every status it sets.
LEMMA StepExplained == Typed /\ Explained /\ [Next]_vars => Explained'
  <1> SUFFICES ASSUME Typed, Explained, [Next]_vars PROVE Explained'
    OBVIOUS
  <1>1. CASE UNCHANGED vars \/ Tick
    BY <1>1 DEF vars, Tick, tables, events, Explained, WorkUnitsExplained,
                AttemptsExplained, AssignmentsExplained
  <1>2. ASSUME NEW h \in Handlers, StartStep(h) \/ RequestFails(h)
        PROVE  Explained'
    <2>1. UNCHANGED <<tables, events>>
      BY <1>2, StartStepFacts DEF RequestFails
    <2>. QED  BY <2>1 DEF tables, events, Explained, WorkUnitsExplained,
                          AttemptsExplained, AssignmentsExplained
  <1>3. ASSUME NEW h \in Handlers, NEW a \in AttemptIds, CommitAttempt(h, a)
        PROVE  Explained'
    <2>1. req[h] \in AttemptRequest
      BY <1>3, RequestByOp DEF CommitAttempt, Typed
    <2>2. /\ attempts'[a].status = AttemptStatusAfter(attempt_event'[a])
          /\ DOMAIN attempts' = DOMAIN attempts \cup {a}
      BY <1>3, <2>1, AttemptAnnounced DEF CommitAttempt, Insert, AttemptRequest
    <2>3. \A b \in DOMAIN attempts : /\ attempts'[b] = attempts[b]
                                     /\ attempt_event'[b] = attempt_event[b]
      BY <1>3 DEF CommitAttempt, Insert, Typed, RefOK
    <2>4. AttemptsExplained'
      BY <2>2, <2>3 DEF Explained, AttemptsExplained
    <2>. QED  BY <1>3, <2>4 DEF CommitAttempt, Explained, WorkUnitsExplained,
                                AssignmentsExplained
  <1>4. ASSUME NEW h \in Handlers, NEW asg \in AssignmentIds,
               CommitAssign(h, asg)
        PROVE  Explained'
    <2> DEFINE a == req[h].attempt
    <2>1. a \in DOMAIN attempts
      BY <1>4 DEF CommitAssign, Typed, RefOK
    <2>2. /\ SetAttemptStatus(a, "assigned")
          /\ attempt_event' = [attempt_event EXCEPT ![a] = "assignment.created"]
          /\ SetWorkUnitStatus(attempts[a].work_unit, "assigned",
                               "work_unit.assigned")
      BY <1>4 DEF CommitAssign
    <2> HIDE DEF a
    <2>3. AttemptsExplained' /\ WorkUnitsExplained'
      BY <2>1, <2>2, AttemptMoves, WorkUnitMoves, AttemptAnnounced,
         WorkUnitAnnounced DEF Explained, AttemptStatuses
    <2>4. /\ DOMAIN assignments' = DOMAIN assignments \cup {asg}
          /\ assignments'[asg].status = "created"
          /\ assignment_event'[asg] = "assignment.created"
      BY <1>4 DEF CommitAssign, Insert
    <2>5. \A b \in DOMAIN assignments :
             /\ assignments'[b] = assignments[b]
             /\ assignment_event'[b] = assignment_event[b]
      BY <1>4 DEF CommitAssign, Insert, Typed, RefOK
    <2>6. AssignmentsExplained'
      BY <2>4, <2>5, AssignmentAnnounced DEF Explained, AssignmentsExplained
    <2>. QED  BY <2>3, <2>6 DEF Explained
  <1>5. ASSUME NEW h \in Handlers, CommitAccept(h) PROVE Explained'
    <2> DEFINE asg == req[h].assignment
    <2>1. asg \in DOMAIN assignments /\ assignments[asg].attempt \in DOMAIN attempts
      BY <1>5 DEF CommitAccept, Typed, RefOK
    <2>2. /\ SetAttemptStatus(assignments[asg].attempt, "running")
          /\ attempt_event' = [attempt_event EXCEPT
                ![assignments[asg].attempt] = "assignment.accepted"]
          /\ SetWorkUnitStatus(WorkUnitOf(asg), "running", "work_unit.running")
          /\ assignment_event' =
                [assignment_event EXCEPT ![asg] = "assignment.accepted"]
      BY <1>5 DEF CommitAccept
    <2>3. /\ DOMAIN assignments' = DOMAIN assignments
          /\ assignments'[asg].status = "accepted"
          /\ \A b \in DOMAIN assignments \ {asg} :
                assignments'[b] = assignments[b]
      BY <1>5, <2>1 DEF CommitAccept, Typed, TypeOK, IsTable, AssignmentRow
    <2> HIDE DEF asg
    <2>4. AttemptsExplained' /\ WorkUnitsExplained'
      BY <2>1, <2>2, AttemptMoves, WorkUnitMoves, AttemptAnnounced,
         WorkUnitAnnounced DEF Explained, AttemptStatuses
    <2>5. AssignmentsExplained'
      BY <2>1, <2>2, <2>3, AssignmentMoves, AssignmentAnnounced DEF Explained
    <2>. QED  BY <2>4, <2>5 DEF Explained
  <1>6. ASSUME NEW h \in Handlers, NEW asg \in AssignmentIds,
               NEW wk \in Workers, RejectAssignment(h, asg, wk)
        PROVE  Explained'
    <2>1. asg \in DOMAIN assignments /\ assignments[asg].attempt \in DOMAIN attempts
      BY <1>6 DEF RejectAssignment, Typed, RefOK
    <2>2. /\ SetAttemptStatus(assignments[asg].attempt, "failed")
          /\ attempt_event' = [attempt_event EXCEPT
                ![assignments[asg].attempt] = "assignment.rejected"]
          /\ assignments' = [assignments EXCEPT ![asg].status = "rejected"]
          /\ assignment_event' =
                [assignment_event EXCEPT ![asg] = "assignment.rejected"]
          /\ UNCHANGED <<work_units, wu_event>>
      BY <1>6 DEF RejectAssignment
    <2>3. AttemptsExplained'
      BY <2>1, <2>2, AttemptMoves, AttemptAnnounced
      DEF Explained, AttemptStatuses
    <2>4. AssignmentsExplained'
      <3>1. /\ DOMAIN assignments' = DOMAIN assignments
            /\ assignments'[asg].status = "rejected"
            /\ \A b \in DOMAIN assignments \ {asg} :
                  assignments'[b] = assignments[b]
        BY <2>1, <2>2, AssignmentStatusUpdate
      <3>. QED  BY <2>1, <2>2, <3>1, AssignmentMoves, AssignmentAnnounced
                DEF Explained
    <2>. QED  BY <2>2, <2>3, <2>4 DEF Explained, WorkUnitsExplained
  <1>7. ASSUME NEW h \in Handlers, CommitProgress(h) PROVE Explained'
    <2> DEFINE asg == req[h].assignment
    <2>1. asg \in DOMAIN assignments
      BY <1>7 DEF CommitProgress, Typed, RefOK
    <2>2. /\ assignment_event' =
                [assignment_event EXCEPT ![asg] = "assignment.progress"]
          /\ UNCHANGED <<attempts, work_units, wu_event, attempt_event>>
      BY <1>7 DEF CommitProgress
    <2>3. /\ DOMAIN assignments' = DOMAIN assignments
          /\ assignments'[asg].status = "running"
          /\ \A b \in DOMAIN assignments \ {asg} :
                assignments'[b] = assignments[b]
      BY <1>7, <2>1 DEF CommitProgress, Typed, TypeOK, IsTable, AssignmentRow
    <2> HIDE DEF asg
    <2>4. AssignmentsExplained'
      BY <2>1, <2>2, <2>3, AssignmentMoves, AssignmentAnnounced DEF Explained
    <2>. QED  BY <2>2, <2>4 DEF Explained, WorkUnitsExplained, AttemptsExplained
  <1>8. ASSUME NEW h \in Handlers, NEW n \in 0 .. MaxReplays,
               CommitSubmit(h, n)
        PROVE  Explained'
    <2> DEFINE asg == req[h].assignment
               kind == req[h].kind
    <2>1. asg \in DOMAIN assignments /\ assignments[asg].attempt \in DOMAIN attempts
      BY <1>8 DEF CommitSubmit, Typed, RefOK
    <2>2. \/ QuarantineLateResult(asg, kind, n)
          \/ CompleteAssignment(asg)
      BY <1>8 DEF CommitSubmit
    <2> HIDE DEF asg, kind
    <2>3. CASE QuarantineLateResult(asg, kind, n)
      <3>1. /\ SetAttemptStatus(assignments[asg].attempt, "quarantined")
            /\ attempt_event' = [attempt_event EXCEPT
                  ![assignments[asg].attempt] = "result.quarantined"]
            /\ assignments' = [assignments EXCEPT ![asg].status = "quarantined"]
            /\ assignment_event' =
                  [assignment_event EXCEPT ![asg] = "result.quarantined"]
            /\ UNCHANGED <<work_units, wu_event>>
        BY <2>3 DEF QuarantineLateResult
      <3>2. AttemptsExplained'
        BY <2>1, <3>1, AttemptMoves, AttemptAnnounced
        DEF Explained, AttemptStatuses
      <3>3. /\ DOMAIN assignments' = DOMAIN assignments
            /\ assignments'[asg].status = "quarantined"
            /\ \A b \in DOMAIN assignments \ {asg} :
                  assignments'[b] = assignments[b]
        BY <2>1, <3>1, AssignmentStatusUpdate
      <3>4. AssignmentsExplained'
        BY <2>1, <3>1, <3>3, AssignmentMoves, AssignmentAnnounced DEF Explained
      <3>. QED  BY <3>1, <3>2, <3>4 DEF Explained, WorkUnitsExplained
    <2>4. CASE CompleteAssignment(asg)
      <3>1. /\ SetAttemptStatus(assignments[asg].attempt, "succeeded")
            /\ attempt_event' = [attempt_event EXCEPT
                  ![assignments[asg].attempt] = "result.submitted"]
            /\ assignments' = [assignments EXCEPT ![asg].status = "completed"]
            /\ assignment_event' =
                  [assignment_event EXCEPT ![asg] = "result.submitted"]
            /\ SetWorkUnitStatus(WorkUnitOf(asg), "succeeded",
                                 "work_unit.succeeded")
        BY <2>4 DEF CompleteAssignment
      <3>2. AttemptsExplained' /\ WorkUnitsExplained'
        BY <2>1, <3>1, AttemptMoves, AttemptAnnounced, WorkUnitMoves,
           WorkUnitAnnounced DEF Explained, AttemptStatuses
      <3>3. /\ DOMAIN assignments' = DOMAIN assignments
            /\ assignments'[asg].status = "completed"
            /\ \A b \in DOMAIN assignments \ {asg} :
                  assignments'[b] = assignments[b]
        BY <2>1, <3>1, AssignmentStatusUpdate
      <3>4. AssignmentsExplained'
        BY <2>1, <3>1, <3>3, AssignmentMoves, AssignmentAnnounced DEF Explained
      <3>. QED  BY <3>2, <3>4 DEF Explained
    <2>. QED  BY <2>2, <2>3, <2>4
  <1>9. ASSUME NEW h \in Handlers, CommitSweep(h) PROVE Explained'
    <2> DEFINE rows == req[h].rows
    <2>1. /\ DOMAIN assignments' = DOMAIN assignments
          /\ \A b \in DOMAIN assignments :
                IF b \in rows
                THEN /\ assignments'[b].status = "expired"
                     /\ assignment_event'[b] = "assignment.expired"
                ELSE /\ assignments'[b] = assignments[b]
                     /\ assignment_event'[b] = assignment_event[b]
      BY <1>9 DEF CommitSweep, Typed, TypeOK, RefOK, IsTable, AssignmentRow
    <2> HIDE DEF rows
    <2>2. AssignmentsExplained'
      BY <2>1, AssignmentAnnounced DEF Explained, AssignmentsExplained
    <2>. QED  BY <1>9, <2>2 DEF CommitSweep, Explained, WorkUnitsExplained,
                                AttemptsExplained
  <1>. QED
    BY <1>1, <1>2, <1>3, <1>4, <1>5, <1>6, <1>7, <1>8, <1>9, NextSplit

\* Every status the scheduler keeps is the one its newest event announces, for
\* every number of handlers and however stale what they apply: no transaction
\* commits a transition without its event row, or an event without its
\* transition.
THEOREM EventsExplained == Spec => []EventsExplainTables
  <1>1. Init => Explained
    BY WorkUnitAnnounced
    DEF Init, Explained, WorkUnitsExplained, AttemptsExplained,
        AssignmentsExplained
  <1>2. Typed /\ Explained => EventsExplainTables
    BY DEF EventsExplainTables, Explained, WorkUnitsExplained,
           AttemptsExplained, AssignmentsExplained, Typed, RefOK
  <1>. QED  BY <1>1, <1>2, InitTyped, StepTyped, StepExplained, PTL DEF Spec

-----------------------------------------------------------------------------
(* Statuses are backed by results *)

\* A result on record for a work unit, or for an assignment, that counts, and
\* one that was set aside.
Counts(w) == \E r \in results : ~ IsHeld(r) /\ WorkUnitOf(r.assignment) = w
HasCounted(asg) == \E r \in results : r.assignment = asg /\ ~ IsHeld(r)
SetAside(asg) == \E r \in results : r.assignment = asg /\ IsHeld(r)

BackedInv ==
    /\ \A w \in WorkUnits : work_units[w] = "succeeded" => Counts(w)
    /\ \A asg \in DOMAIN assignments :
          /\ assignments[asg].status = "completed" => HasCounted(asg)
          /\ assignments[asg].status = "quarantined" => SetAside(asg)

\* No step puts a recorded result into result_quarantine, or takes it out.
LEMMA HeldIsStable ==
    ASSUME Typed, LateInv, [Next]_vars
    PROVE  \A r \in results : IsHeld(r)' <=> IsHeld(r)
  <1>1. ASSUME NEW h \in Handlers, NEW n \in 0 .. MaxReplays,
               CommitSubmit(h, n)
        PROVE  \A r \in results : IsHeld(r)' <=> IsHeld(r)
    <2> DEFINE id == [assignment |-> req[h].assignment,
                      kind |-> req[h].kind, n |-> n]
    <2>1. quarantine' = quarantine \cup {id} \/ quarantine' = quarantine
      BY <1>1 DEF CommitSubmit, QuarantineLateResult, CompleteAssignment
    <2>2. id \notin {ResultIdOf(r) : r \in results}
      BY <1>1 DEF CommitSubmit, FreshResultKey
    <2> HIDE DEF id
    <2>. QED  BY <2>1, <2>2 DEF IsHeld
  <1>2. \/ quarantine' = quarantine
        \/ \E h \in Handlers, n \in 0 .. MaxReplays : CommitSubmit(h, n)
    BY NextSplit, StartStepFacts
    DEF vars, Tick, tables, CommitAttempt, CommitAssign, CommitAccept,
        CommitProgress, CommitSweep, RequestFails, RejectAssignment
  <1>. QED  BY <1>1, <1>2 DEF IsHeld

\* No step takes the backing of a status away.
LEMMA BackingIsStable ==
    ASSUME Typed, LateInv, [Next]_vars
    PROVE  /\ \A w : Counts(w) => Counts(w)'
           /\ \A asg : HasCounted(asg) => HasCounted(asg)'
           /\ \A asg : SetAside(asg) => SetAside(asg)'
  <1>1. \A r \in results : /\ r \in results'
                           /\ WorkUnitOf(r.assignment)' = WorkUnitOf(r.assignment)
                           /\ IsHeld(r)' <=> IsHeld(r)
    BY StepKeepsIdentity, HeldIsStable
    DEF KeepsIdentity, Typed, RefOK, WorkUnitOf
  <1>. QED  BY <1>1 DEF Counts, HasCounted, SetAside

\* Every step keeps the statuses backed: the only transaction that sets one of
\* them records its result with it.
LEMMA StepBacked == Typed /\ LateInv /\ BackedInv /\ [Next]_vars => BackedInv'
  <1> SUFFICES ASSUME Typed, LateInv, BackedInv, [Next]_vars PROVE BackedInv'
    OBVIOUS
  <1>1. Typed' /\ KeepsIdentity
    BY StepTyped, StepKeepsIdentity
  <1>2. ASSUME \A w \in WorkUnits :
                  work_units'[w] = work_units[w] \/ work_units'[w] # "succeeded",
               \A asg \in DOMAIN assignments' :
                  \/ /\ asg \in DOMAIN assignments
                     /\ assignments'[asg].status = assignments[asg].status
                  \/ assignments'[asg].status \notin {"completed", "quarantined"}
        PROVE  BackedInv'
    BY <1>1, <1>2, BackingIsStable DEF BackedInv
  <1>3. CASE UNCHANGED vars \/ Tick
    BY <1>2, <1>3 DEF vars, Tick, tables
  <1>4. ASSUME NEW h \in Handlers, StartStep(h) \/ RequestFails(h)
        PROVE  BackedInv'
    <2>1. UNCHANGED tables
      BY <1>4, StartStepFacts DEF RequestFails
    <2>. QED  BY <1>2, <2>1 DEF tables
  <1>5. ASSUME NEW h \in Handlers, NEW a \in AttemptIds, CommitAttempt(h, a)
        PROVE  BackedInv'
    BY <1>2, <1>5 DEF CommitAttempt
  <1>6. ASSUME NEW h \in Handlers, NEW asg \in AssignmentIds,
               CommitAssign(h, asg)
        PROVE  BackedInv'
    <2>1. \A w \in WorkUnits :
             work_units'[w] = work_units[w] \/ work_units'[w] = "assigned"
      BY <1>6 DEF CommitAssign, SetWorkUnitStatus, Typed, TypeOK
    <2>2. \A b \in DOMAIN assignments' :
             \/ b \in DOMAIN assignments /\ assignments'[b] = assignments[b]
             \/ assignments'[b].status = "created"
      BY <1>6 DEF CommitAssign, Insert
    <2>. QED  BY <1>2, <2>1, <2>2
  <1>7. ASSUME NEW h \in Handlers, CommitAccept(h) PROVE BackedInv'
    <2> DEFINE asg == req[h].assignment
    <2>1. \A w \in WorkUnits :
             work_units'[w] = work_units[w] \/ work_units'[w] = "running"
      BY <1>7 DEF CommitAccept, SetWorkUnitStatus, Typed, TypeOK
    <2>2. asg \in DOMAIN assignments
      BY <1>7 DEF CommitAccept, Typed, RefOK
    <2>3. /\ DOMAIN assignments' = DOMAIN assignments
          /\ assignments'[asg].status = "accepted"
          /\ \A b \in DOMAIN assignments \ {asg} :
                assignments'[b] = assignments[b]
      BY <1>7, <2>2 DEF CommitAccept, Typed, TypeOK, IsTable, AssignmentRow
    <2> HIDE DEF asg
    <2>. QED  BY <1>2, <2>1, <2>3
  <1>8. ASSUME NEW h \in Handlers, NEW asg \in AssignmentIds,
               NEW wk \in Workers, RejectAssignment(h, asg, wk)
        PROVE  BackedInv'
    <2>1. /\ asg \in DOMAIN assignments
          /\ assignments' = [assignments EXCEPT ![asg].status = "rejected"]
          /\ UNCHANGED work_units
      BY <1>8 DEF RejectAssignment
    <2>2. /\ DOMAIN assignments' = DOMAIN assignments
          /\ assignments'[asg].status = "rejected"
          /\ \A b \in DOMAIN assignments \ {asg} :
                assignments'[b] = assignments[b]
      BY <2>1, AssignmentStatusUpdate
    <2>. QED  BY <1>2, <2>1, <2>2
  <1>9. ASSUME NEW h \in Handlers, CommitProgress(h) PROVE BackedInv'
    <2> DEFINE asg == req[h].assignment
    <2>1. asg \in DOMAIN assignments /\ UNCHANGED work_units
      BY <1>9 DEF CommitProgress, Typed, RefOK
    <2>2. /\ DOMAIN assignments' = DOMAIN assignments
          /\ assignments'[asg].status = "running"
          /\ \A b \in DOMAIN assignments \ {asg} :
                assignments'[b] = assignments[b]
      BY <1>9, <2>1 DEF CommitProgress, Typed, TypeOK, IsTable, AssignmentRow
    <2> HIDE DEF asg
    <2>. QED  BY <1>2, <2>1, <2>2
  <1>10. ASSUME NEW h \in Handlers, NEW n \in 0 .. MaxReplays,
                CommitSubmit(h, n)
         PROVE  BackedInv'
    <2>1. PICK asg \in DOMAIN assignments, kind \in ResultKinds,
               late \in BOOLEAN :
             /\ asg = req[h].assignment
             /\ kind = req[h].kind
             /\ late = req[h].late
      BY <1>10, RequestByOp DEF CommitSubmit, Typed, RefOK, SubmitRequest
    <2> DEFINE row == [assignment |-> asg, kind |-> kind, n |-> n,
                       status |-> ResultStatus(kind, late)]
    <2>2. row \in results'
      BY <1>10, <2>1 DEF CommitSubmit
    <2>3. row.assignment = asg /\ (IsHeld(row)' <=> late)
      <3> DEFINE id == [assignment |-> asg, kind |-> kind, n |-> n]
      <3>1. quarantine' = IF late THEN quarantine \cup {id} ELSE quarantine
        BY <1>10, <2>1 DEF CommitSubmit, QuarantineLateResult, CompleteAssignment
      <3>2. id \notin {ResultIdOf(r) : r \in results} /\ ResultIdOf(row) = id
        BY <1>10, <2>1 DEF CommitSubmit, FreshResultKey, ResultIdOf
      <3>. QED  BY <3>1, <3>2 DEF IsHeld, LateInv, QuarantineSound
    <2> HIDE DEF row
    <2>4. WorkUnitOf(asg)' = WorkUnitOf(asg)
      BY <1>1 DEF KeepsIdentity, Typed, RefOK, WorkUnitOf
    <2>5. CASE late
      <3>1. assignments' = [assignments EXCEPT ![asg].status = "quarantined"]
            /\ UNCHANGED work_units
        BY <1>10, <2>1, <2>5 DEF CommitSubmit, QuarantineLateResult
      <3>2. /\ DOMAIN assignments' = DOMAIN assignments
            /\ assignments'[asg].status = "quarantined"
            /\ \A b \in DOMAIN assignments \ {asg} :
                  assignments'[b] = assignments[b]
        BY <3>1, AssignmentStatusUpdate
      <3>3. SetAside(asg)'
        BY <2>2, <2>3, <2>5 DEF SetAside
      <3>. QED  BY <1>1, <3>1, <3>2, <3>3, BackingIsStable DEF BackedInv
    <2>6. CASE ~ late
      <3>1. /\ assignments' = [assignments EXCEPT ![asg].status = "completed"]
            /\ SetWorkUnitStatus(WorkUnitOf(asg), "succeeded",
                                 "work_unit.succeeded")
        BY <1>10, <2>1, <2>6 DEF CommitSubmit, CompleteAssignment
      <3>2. /\ DOMAIN assignments' = DOMAIN assignments
            /\ assignments'[asg].status = "completed"
            /\ \A b \in DOMAIN assignments \ {asg} :
                  assignments'[b] = assignments[b]
        BY <3>1, AssignmentStatusUpdate
      <3>3. \A w \in WorkUnits :
               w # WorkUnitOf(asg) => work_units'[w] = work_units[w]
        BY <3>1 DEF SetWorkUnitStatus, Typed, TypeOK
      <3>4. HasCounted(asg)' /\ Counts(WorkUnitOf(asg))'
        BY <2>2, <2>3, <2>4, <2>6 DEF HasCounted, Counts
      <3>5. \A w \in WorkUnits : work_units'[w] = "succeeded" => Counts(w)'
        BY <1>1, <2>4, <3>3, <3>4, BackingIsStable DEF BackedInv
      <3>6. \A b \in DOMAIN assignments' :
               /\ assignments'[b].status = "completed" => HasCounted(b)'
               /\ assignments'[b].status = "quarantined" => SetAside(b)'
        BY <1>1, <3>2, <3>4, BackingIsStable DEF BackedInv
      <3>. QED  BY <3>5, <3>6 DEF BackedInv
    <2>. QED  BY <2>5, <2>6
  <1>11. ASSUME NEW h \in Handlers, CommitSweep(h) PROVE BackedInv'
    <2>1. /\ DOMAIN assignments' = DOMAIN assignments
          /\ \A b \in DOMAIN assignments :
                \/ assignments'[b] = assignments[b]
                \/ assignments'[b].status = "expired"
          /\ UNCHANGED work_units
      BY <1>11 DEF CommitSweep, Typed, TypeOK, IsTable, AssignmentRow
    <2>. QED  BY <1>2, <2>1
  <1>. QED
    BY <1>3, <1>4, <1>5, <1>6, <1>7, <1>8, <1>9, <1>10, <1>11, NextSplit

\* A work unit is succeeded, and an assignment completed or quarantined, only
\* with the result on record that says so, whatever late results, sweeps,
\* rejections and stale requests come in between.
THEOREM StatusIsBacked == Spec => []StatusBackedByResult
  <1>1. Init => LeaseInv /\ LateInv /\ BackedInv
    BY DEF Init, LeaseInv, LateInv, QuarantineSound, BackedInv, Idle
  <1>2. Typed /\ LeaseInv /\ BackedInv => StatusBackedByResult
    BY DEF LeaseInv, BackedInv, StatusBackedByResult, ResultsAreLeased, Typed,
           RefOK, Counts, HasCounted, SetAside
  <1>. QED
    BY <1>1, <1>2, InitTyped, StepTyped, StepLease, StepLate, StepBacked, PTL
    DEF Spec

-----------------------------------------------------------------------------
(* Requests that do not overlap *)

\* While no two requests have overlapped, at most one is in progress, and what
\* submit_result has read of the lateness of its result still holds.
OneBusy == \A g, h \in Busy : g = h

TimelyStays ==
    \A h \in Handlers :
        req[h].op = "submit" /\ ~ req[h].late => ~ IsLate(req[h].assignment)

AloneInv == ~ overlapped => OneBusy /\ TimelyStays

\* Every step keeps what a request served alone has read.
LEMMA StepAlone == Typed /\ AloneInv /\ MCNext => AloneInv'
  <1> SUFFICES ASSUME Typed, OneBusy, TimelyStays, Next, ~ Overlap
               PROVE  OneBusy' /\ TimelyStays'
    BY DEF AloneInv, MCNext
  <1> USE DEF IsLate, NewerAttemptExists, WorkUnitOf, AttemptsOf
  <1>1. OneBusy'
    BY DEF Overlap, OneBusy
  <1>2. ASSUME UNCHANGED <<attempts, assignments, req>>
        PROVE  TimelyStays'
    BY <1>2 DEF TimelyStays
  <1>3. ASSUME NEW h \in Handlers, req[h] # Idle, Done(h)
        PROVE  TimelyStays'
    <2>1. ASSUME NEW g \in Handlers, req'[g].op = "submit" PROVE FALSE
      <3>1. g # h /\ req'[g] = req[g]
        BY <1>3, <2>1, DoneRequests DEF Typed
      <3>2. req[g] # Idle
        BY <2>1, <3>1 DEF Idle
      <3>. QED  BY <1>3, <3>1, <3>2 DEF Busy, OneBusy
    <2>. QED  BY <2>1 DEF TimelyStays
  <1>4. CASE UNCHANGED vars \/ Tick
    BY <1>1, <1>2, <1>4 DEF vars, Tick, tables
  <1>5. ASSUME NEW h \in Handlers, StartStep(h)
        PROVE  TimelyStays'
    <2>1. PICK r : Serve(h, r) /\ StartFacts(r)
      BY <1>5, StartStepFacts
    <2>2. UNCHANGED <<attempts, assignments>>
      BY <1>5, StartStepFacts DEF tables
    <2>3. req'[h] = r /\ \A g \in Handlers \ {h} : req'[g] = req[g]
      BY <2>1 DEF Serve, Typed, TypeOK
    <2>. QED  BY <2>1, <2>2, <2>3 DEF StartFacts, TimelyStays
  <1>6. ASSUME NEW h \in Handlers,
               \/ \E a \in AttemptIds : CommitAttempt(h, a)
               \/ \E asg \in AssignmentIds : CommitAssign(h, asg)
               \/ CommitAccept(h)
               \/ CommitProgress(h)
               \/ \E n \in 0 .. MaxReplays : CommitSubmit(h, n)
               \/ CommitSweep(h)
               \/ RequestFails(h)
        PROVE  TimelyStays'
    <2>1. Done(h)
      BY <1>6 DEF CommitAttempt, CommitAssign, CommitAccept, CommitProgress, CommitSubmit,
                  CommitSweep, RequestFails
    <2>2. req[h].op # "idle"
      BY <1>6 DEF CommitAttempt, CommitAssign, CommitAccept, CommitProgress, CommitSubmit,
                  CommitSweep, RequestFails, IsIdle
    <2>3. req[h] # Idle
      BY <2>2 DEF Idle
    <2>. QED  BY <1>3, <2>1, <2>3
  <1>7. ASSUME NEW h \in Handlers, NEW asg \in AssignmentIds,
               NEW wk \in Workers, RejectAssignment(h, asg, wk)
        PROVE  TimelyStays'
    <2>1. req' = req
      BY <1>7 DEF RejectAssignment
    <2>2. CASE Busy = {}
      <3>1. \A g \in Handlers : req[g] = Idle
        BY <2>2 DEF Busy
      <3>. QED  BY <2>1, <3>1 DEF Idle, TimelyStays
    <2>3. CASE Busy # {}
      <3>1. tables' = tables
        BY <2>1, <2>3 DEF Overlap
      <3>. QED  BY <1>2, <2>1, <3>1 DEF tables
    <2>. QED  BY <2>2, <2>3
  <1>. QED  BY <1>1, <1>4, <1>5, <1>6, <1>7, NextSplit

\* Requests that are served one after the other quarantine every late result;
\* to miss one takes a request between the test of submit_result and its
\* transaction.
THEOREM LateIsQuarantined == MCSpec => LateResultsQuarantined
  <1>1. MCInit => Typed /\ AloneInv
    BY InitTyped DEF MCInit, Init, AloneInv, OneBusy, TimelyStays, Busy, Idle
  <1>2. Typed /\ AloneInv /\ [MCNext]_<<vars, overlapped>> => Typed' /\ AloneInv'
    <2> SUFFICES ASSUME Typed, AloneInv, [MCNext]_<<vars, overlapped>>
                 PROVE  Typed' /\ AloneInv'
      OBVIOUS
    <2>1. CASE MCNext
      BY <2>1, StepTyped, StepAlone DEF MCNext
    <2>2. CASE UNCHANGED <<vars, overlapped>>
      <3>1. Typed'
        BY <2>2, StepTyped
      <3>2. AloneInv'
        BY <2>2 DEF AloneInv, OneBusy, TimelyStays, vars, Busy, IsLate, NewerAttemptExists, WorkUnitOf, AttemptsOf
      <3>. QED  BY <3>1, <3>2
    <2>. QED  BY <2>1, <2>2
  <1>3. Typed /\ AloneInv /\ [MCNext]_<<vars, overlapped>> =>
            [\A r \in results' \ results :
                ~ IsHeld(r)' => ~ IsLate(r.assignment) \/ overlapped]_vars
    <2> SUFFICES ASSUME Typed, AloneInv, Next, ~ overlapped, NEW r \in results' \ results,
                        ~ IsHeld(r)'
                 PROVE  ~ IsLate(r.assignment)
      BY DEF MCNext
    <2>1. ASSUME NEW h \in Handlers, NEW n \in 0 .. MaxReplays, CommitSubmit(h, n)
          PROVE  ~ IsLate(r.assignment)
      <3>1. r = [assignment |-> req[h].assignment, kind |-> req[h].kind, n |-> n,
                 status |-> ResultStatus(req[h].kind, req[h].late)]
        BY <2>1 DEF CommitSubmit
      <3>2. req[h].op = "submit" /\ ~ req[h].late
        BY <2>1, <3>1 DEF CommitSubmit, QuarantineLateResult, IsHeld, ResultIdOf
      <3>. QED  BY <3>1, <3>2 DEF AloneInv, TimelyStays
    <2>2. CASE results' = results
      BY <2>2
    <2>3. \/ results' = results
          \/ \E h \in Handlers, n \in 0 .. MaxReplays : CommitSubmit(h, n)
      BY NextSplit, StartStepFacts
      DEF vars, Tick, tables, CommitAttempt, CommitAssign, CommitAccept, CommitProgress,
          CommitSweep, RequestFails, RejectAssignment
    <2>. QED  BY <2>1, <2>2, <2>3
  <1>. QED  BY <1>1, <1>2, <1>3, PTL DEF MCSpec, LateResultsQuarantined

\* What a request that schedules an attempt has read: the number before its own
\* is taken, in any case, and its own is not, while it is served alone.
Preceded(w, n) ==
    n = 1 \/ \E b \in AttemptsOf(w) : attempts[b].attempt_number = n - 1

NumberInv ==
    /\ \A a \in DOMAIN attempts :
          Preceded(attempts[a].work_unit, attempts[a].attempt_number)
    /\ \A h \in Handlers : req[h].op = "create_attempt" =>
          Preceded(req[h].work_unit, req[h].attempt_number)

DistinctInv ==
    ~ overlapped =>
        /\ \A a, b \in DOMAIN attempts :
              a # b /\ attempts[a].work_unit = attempts[b].work_unit =>
                 attempts[a].attempt_number # attempts[b].attempt_number
        /\ \A h \in Handlers, b \in DOMAIN attempts :
              req[h].op = "create_attempt"
                 /\ attempts[b].work_unit = req[h].work_unit =>
              attempts[b].attempt_number # req[h].attempt_number

\* What next_attempt_number reads follows a number in use and is not in use.
LEMMA NumberReadFacts ==
    ASSUME Typed, NEW r, StartFacts(r), r.op = "create_attempt"
    PROVE  /\ Preceded(r.work_unit, r.attempt_number)
           /\ \A b \in AttemptsOf(r.work_unit) :
                 attempts[b].attempt_number # r.attempt_number
  <1>1. \A b \in AttemptsOf(r.work_unit) : attempts[b].attempt_number \in Nat
    BY DEF AttemptsOf, Typed, TypeOK, IsTable, AttemptRow
  <1>2. r.attempt_number \in NextAttemptNumber(r.work_unit)
    BY DEF StartFacts
  <1>. QED  BY <1>1, <1>2 DEF Preceded, NextAttemptNumber

\* The attempts a step leaves are those it found, except for the one that
\* CommitAttempt inserts.
LEMMA AttemptRows ==
    ASSUME Typed, [Next]_vars
    PROVE  \/ DOMAIN attempts' = DOMAIN attempts
           \/ \E h \in Handlers, a \in AttemptIds : CommitAttempt(h, a)
  <1>1. ASSUME NEW h \in Handlers, NEW n \in 0 .. MaxReplays,
               CommitSubmit(h, n)
        PROVE  DOMAIN attempts' = DOMAIN attempts
    BY <1>1 DEF CommitSubmit, QuarantineLateResult, CompleteAssignment,
                SetAttemptStatus
  <1>. QED
    BY <1>1, NextSplit, StartStepFacts
    DEF vars, Tick, tables, CommitAssign, CommitAccept, CommitProgress,
        CommitSweep, RequestFails, RejectAssignment, SetAttemptStatus

\* The requests a step leaves are those it found, except for one it starts.
LEMMA RequestRows ==
    ASSUME Typed, [Next]_vars, NEW g \in Handlers, req'[g] # req[g]
    PROVE  \/ req'[g] = Idle
           \/ /\ StartFacts(req'[g])
              /\ UNCHANGED attempts
  <1>1. CASE \E h \in Handlers : StartStep(h)
    <2>1. PICK h \in Handlers : StartStep(h)
      BY <1>1
    <2>2. PICK r : Serve(h, r) /\ StartFacts(r) /\ UNCHANGED attempts
      BY <2>1, StartStepFacts DEF tables
    <2>. QED  BY <2>2 DEF Serve, Typed, TypeOK
  <1>2. CASE \E h \in Handlers : Done(h)
    BY <1>2 DEF Done, Typed, TypeOK
  <1>3. \/ req' = req
        \/ \E h \in Handlers : StartStep(h) \/ Done(h)
    BY NextSplit
    DEF vars, Tick, CommitAttempt, CommitAssign, CommitAccept, CommitProgress,
        CommitSubmit, CommitSweep, RequestFails, RejectAssignment
  <1>. QED  BY <1>1, <1>2, <1>3

\* A number in use stays in use.
LEMMA PrecededIsStable ==
    ASSUME KeepsIdentity, NEW w, NEW n, Preceded(w, n)
    PROVE  Preceded(w, n)'
  BY DEF Preceded, AttemptsOf, KeepsIdentity

\* Every step keeps the numbers of the attempts without a gap.
LEMMA StepNumbers == Typed /\ NumberInv /\ [Next]_vars => NumberInv'
  <1> SUFFICES ASSUME Typed, NumberInv, [Next]_vars PROVE NumberInv'
    OBVIOUS
  <1>1. KeepsIdentity
    BY StepKeepsIdentity
  <1>2. ASSUME NEW a \in DOMAIN attempts'
        PROVE  Preceded(attempts[a].work_unit, attempts[a].attempt_number)'
    <2>1. CASE a \in DOMAIN attempts
      BY <1>1, <2>1, PrecededIsStable DEF NumberInv, KeepsIdentity
    <2>2. CASE a \notin DOMAIN attempts
      <3>1. PICK h \in Handlers, b \in AttemptIds : CommitAttempt(h, b)
        BY <1>2, <2>2, AttemptRows
      <3>2. /\ req[h].op = "create_attempt"
            /\ attempts'[a].work_unit = req[h].work_unit
            /\ attempts'[a].attempt_number = req[h].attempt_number
        BY <1>2, <2>2, <3>1 DEF CommitAttempt, Insert
      <3>3. Preceded(req[h].work_unit, req[h].attempt_number)
        BY <3>2 DEF NumberInv
      <3>. QED  BY <1>1, <3>2, <3>3, PrecededIsStable
    <2>. QED  BY <2>1, <2>2
  <1>3. ASSUME NEW g \in Handlers, req'[g].op = "create_attempt"
        PROVE  Preceded(req[g].work_unit, req[g].attempt_number)'
    <2>1. CASE req'[g] = req[g]
      BY <1>1, <1>3, <2>1, PrecededIsStable DEF NumberInv
    <2>2. CASE req'[g] # req[g]
      <3>1. StartFacts(req'[g])
        BY <1>3, <2>2, RequestRows DEF Idle
      <3>2. Preceded(req'[g].work_unit, req'[g].attempt_number)
        BY <1>3, <3>1, NumberReadFacts
      <3>. QED  BY <1>1, <3>2, PrecededIsStable
    <2>. QED  BY <2>1, <2>2
  <1>. QED  BY <1>2, <1>3 DEF NumberInv

\* Requests that do not overlap give no number twice.
LEMMA StepDistinct ==
    Typed /\ AloneInv /\ DistinctInv /\ MCNext => DistinctInv'
  <1> SUFFICES ASSUME Typed, OneBusy, DistinctInv, ~ overlapped, MCNext
               PROVE  DistinctInv'
    BY DEF AloneInv, MCNext, DistinctInv
  <1>1. KeepsIdentity /\ [Next]_vars
    BY StepKeepsIdentity DEF MCNext
  <1>2. CASE DOMAIN attempts' = DOMAIN attempts
    <2>1. ASSUME NEW g \in Handlers, NEW b \in DOMAIN attempts',
                 req'[g].op = "create_attempt",
                 attempts'[b].work_unit = req'[g].work_unit
          PROVE  attempts'[b].attempt_number # req'[g].attempt_number
      <3>1. CASE req'[g] = req[g]
        BY <1>1, <1>2, <2>1, <3>1 DEF DistinctInv, KeepsIdentity
      <3>2. CASE req'[g] # req[g]
        <4>1. StartFacts(req'[g]) /\ UNCHANGED attempts
          BY <1>1, <2>1, <3>2, RequestRows DEF Idle
        <4>. QED  BY <2>1, <4>1, NumberReadFacts DEF AttemptsOf
      <3>. QED  BY <3>1, <3>2
    <2>. QED  BY <1>1, <1>2, <2>1 DEF DistinctInv, KeepsIdentity
  <1>3. CASE \E h \in Handlers, a \in AttemptIds : CommitAttempt(h, a)
    <2>1. PICK h \in Handlers, a \in AttemptIds : CommitAttempt(h, a)
      BY <1>3
    <2>2. /\ req[h].op = "create_attempt"
          /\ DOMAIN attempts' = DOMAIN attempts \cup {a}
          /\ \A b \in DOMAIN attempts : attempts'[b] = attempts[b]
          /\ a \notin DOMAIN attempts
          /\ attempts'[a].work_unit = req[h].work_unit
          /\ attempts'[a].attempt_number = req[h].attempt_number
          /\ Done(h)
      BY <2>1 DEF CommitAttempt, Insert
    <2>3. \A g \in Handlers : req'[g] = Idle
      <3> SUFFICES ASSUME NEW g \in Handlers, g # h PROVE req[g] = Idle
        BY <2>2 DEF Done, Typed, TypeOK
      <3>. QED  BY <2>2 DEF OneBusy, Busy, Idle
    <2>4. \A b \in DOMAIN attempts :
             attempts[b].work_unit = req[h].work_unit =>
                attempts[b].attempt_number # req[h].attempt_number
      BY <2>2 DEF DistinctInv
    <2>. QED  BY <2>2, <2>3, <2>4 DEF DistinctInv, Idle
  <1>. QED  BY <1>1, <1>2, <1>3, AttemptRows

\* The attempts of a work unit are numbered without a gap, however the requests
\* interleave, and without a repetition while no two requests overlap.
THEOREM AttemptsAreNumbered == MCSpec => []AttemptsNumbered
  <1>1. MCInit => Typed /\ AloneInv /\ NumberInv /\ DistinctInv
    BY InitTyped DEF MCInit, Init, AloneInv, OneBusy, TimelyStays, Busy, Idle,
                     NumberInv, DistinctInv
  <1>2. Typed /\ AloneInv /\ NumberInv /\ DistinctInv
           /\ [MCNext]_<<vars, overlapped>>
        => Typed' /\ AloneInv' /\ NumberInv' /\ DistinctInv'
    <2>1. CASE MCNext
      BY <2>1, StepTyped, StepAlone, StepNumbers, StepDistinct DEF MCNext
    <2>2. CASE UNCHANGED <<vars, overlapped>>
      BY <2>2, StepTyped DEF AloneInv, OneBusy, TimelyStays, vars, Busy, IsLate,
            NewerAttemptExists, WorkUnitOf, AttemptsOf, NumberInv, DistinctInv,
            Preceded
    <2>. QED  BY <2>1, <2>2
  <1>3. NumberInv /\ DistinctInv => AttemptsNumbered
    BY DEF NumberInv, DistinctInv, AttemptsNumbered, Preceded, AttemptsOf
  <1>. QED  BY <1>1, <1>2, <1>3, PTL DEF MCSpec

=============================================================================
