---------------------------- MODULE HostPipeline -----------------------------
(***************************************************************************)
(* The path of a work unit through the host interface                      *)
(* (src/tokenbank/host/url_check.py, app/routers/host.py): submission,     *)
(* result, verification, and the summary the host asks for.                *)
(*                                                                         *)
(* A submission writes its rows in a transaction per stage, and can end    *)
(* with an error or with its process after each.  A result's lateness is   *)
(* read before the transaction that records it, and a retry can come       *)
(* between; the result is committed before it is verified; the verifier    *)
(* report and the summary are committed one after the other, by the        *)
(* request that brought the result or by a request of the host that finds  *)
(* no summary.  The scheduler is reduced to the assignments it makes and   *)
(* the results it records; what the verifier says of a result is the       *)
(* operator Recommendation of module Verifier, here a property of the      *)
(* result's body.                                                          *)
(***************************************************************************)
EXTENDS Naturals, Sequences, FiniteSets

CONSTANTS
    WorkUnits,
    Requests,    \* threads that serve a result or a summary request
    None,
    MaxResults,  \* bound: results recorded per work unit
    MaxErrors    \* bound: requests that end before they are through

ASSUME PipelineAssumption ==
    /\ MaxResults \in Nat /\ MaxErrors \in Nat
    /\ None \notin Nat /\ None \notin Requests

VARIABLES
    rows,       \* tables in which a work unit has its row
    submit,     \* what the submission of a work unit does next
    attempts,   \* attempts made for a work unit, each with its assignment
    lease,      \* attempts whose assignment has been accepted
    retried_at, \* created_at of the second attempt, 0 while there is none
    results,    \* result_envelopes in the order of their commits
    spooled,    \* attempts of which the worker keeps an output to replay
    reports,    \* verifier_reports: results that have one
    summaries,  \* host_result_summaries: result -> created_at
    request,    \* what each request does next
    clock,      \* the newest timestamp given to an attempt, result or summary
    shown,      \* history: result of the summary last given to the host
    errors      \* requests that have ended early

vars == <<rows, submit, attempts, retried_at, lease, results, spooled, reports,
          summaries, request, clock, shown, errors>>

\* The envelopes, by what the verifier recommends; the one whose worker has
\* marked it quarantined, with an output the verifier accepts; the bare output
\* of a replay.
Bodies == {"accept", "retry", "quarantine", "marked", "bare"}

\* "own_recipe" is a mark of the route_plan row: the plan's verifier recipe is
\* the one of the task type.
Tables == {"work_unit", "route_plan", "own_recipe", "approved", "denied", "attempt",
           "assignment"}
Stages == {"start", "route", "policy", "attempt", "assignment", "ended"}

Idle == [step |-> "idle"]

ResultsOf(w) == {i \in DOMAIN results : results[i].work_unit = w}

Newest(S, At(_)) == CHOOSE x \in S : \A y \in S : At(y) <= At(x)

\* ORDER BY created_at DESC LIMIT 1
NewestResult(w) == LET At(i) == results[i].created_at IN Newest(ResultsOf(w), At)

Init ==
    /\ rows = [w \in WorkUnits |-> {}]
    /\ submit = [w \in WorkUnits |-> "start"]
    /\ attempts = [w \in WorkUnits |-> 0]
    /\ retried_at = [w \in WorkUnits |-> 0]
    /\ lease = [w \in WorkUnits |-> {}]
    /\ results = <<>>
    /\ spooled = [w \in WorkUnits |-> {}]
    /\ reports = {}
    /\ summaries = <<>>
    /\ request = [r \in Requests |-> Idle]
    /\ clock = 0
    /\ shown = [w \in WorkUnits |-> None]
    /\ errors = 0

-----------------------------------------------------------------------------
(* Submission: _submit_demo_work_unit, one transaction per stage *)

Stage(w, here, new, next) ==
    /\ submit[w] = here
    /\ rows' = [rows EXCEPT ![w] = @ \cup new]
    /\ submit' = [submit EXCEPT ![w] = next]
    /\ UNCHANGED <<retried_at, results, spooled, reports, summaries, request, clock,
                   shown, errors>>

\* _persist_run_and_work_unit
PersistWorkUnit(w) ==
    Stage(w, "start", {"work_unit"}, "route") /\ UNCHANGED <<attempts, lease>>

\* plan_route has found a plan; _persist_route_plan
PersistRoutePlan(w, mark) ==
    Stage(w, "route", {"route_plan"} \cup mark, "policy") /\ UNCHANGED <<attempts, lease>>

PersistPolicyDecision_GoesOn(w, decision) ==
    /\ Stage(w, "policy", {decision}, "attempt")
    /\ UNCHANGED <<attempts, lease>>

\* _persist_policy_decision, and the test of the decision after it
PersistPolicyDecision(w, decision) ==
    /\ Stage(w, "policy", {decision}, IF decision = "approved" THEN "attempt" ELSE "ended")
    /\ UNCHANGED <<attempts, lease>>

\* Scheduler.create_attempt
CreateAttempt(w) ==
    Stage(w, "attempt", {"attempt"}, "assignment") /\ UNCHANGED <<attempts, lease>>

\* Scheduler.create_assignment: the worker can poll it.
CreateAssignment(w) ==
    /\ Stage(w, "assignment", {"assignment"}, "ended")
    /\ attempts' = [attempts EXCEPT ![w] = 1]
    /\ UNCHANGED lease

\* No route, no worker, an error of the database or the end of the process.
SubmissionEnds(w) ==
    /\ submit[w] \notin {"start", "ended"}
    /\ errors < MaxErrors
    /\ submit' = [submit EXCEPT ![w] = "ended"]
    /\ errors' = errors + 1
    /\ UNCHANGED <<rows, attempts, retried_at, lease, results, spooled, reports,
                   summaries, request, clock, shown>>

-----------------------------------------------------------------------------
(* Attempts and results: the scheduler, the worker and the gateway *)

\* Scheduler.schedule_retry and an assignment for the new attempt
Retry(w) ==
    /\ attempts[w] = 1
    /\ attempts' = [attempts EXCEPT ![w] = 2]
    /\ retried_at' = [retried_at EXCEPT ![w] = clock + 1]
    /\ clock' = clock + 1
    /\ UNCHANGED <<rows, submit, lease, results, spooled, reports, summaries,
                   request, shown, errors>>

\* accept_assignment, by the worker or by the control-plane gateway
Accept(w, a) ==
    /\ a \in 1 .. attempts[w] \ lease[w]
    /\ lease' = [lease EXCEPT ![w] = @ \cup {a}]
    /\ UNCHANGED <<rows, submit, attempts, retried_at, results, spooled, reports,
                   summaries, request, clock, shown, errors>>

\* Requests that have read what they need and have not recorded their result
Pending(w) ==
    {r \in Requests : request[r].step = "commit" /\ request[r].work_unit = w}

Submitted(w, a) ==
    \/ \E i \in ResultsOf(w) : results[i].attempt = a
    \/ \E r \in Pending(w) : request[r].attempt = a

NewerAttemptExists_Later(w, a) == a + 1 < attempts[w]

\* _newer_attempt_exists
NewerAttemptExists(w, a) == a < attempts[w]

\* What submit_result does before its transaction: the lateness of the result
\* is read, and the created_at of its row taken.
ReadLateness(r, w, a, body) ==
    /\ request[r] = Idle
    /\ Cardinality(ResultsOf(w)) + Cardinality(Pending(w)) < MaxResults
    /\ request' = [request EXCEPT ![r] =
          [step |-> "commit", work_unit |-> w, attempt |-> a, body |-> body,
           late |-> NewerAttemptExists(w, a), created_at |-> clock + 1,
           reply |-> "worker"]]
    /\ clock' = clock + 1
    /\ UNCHANGED <<rows, submit, attempts, retried_at, lease, results, reports,
                   summaries, shown, errors>>

\* The request of the worker, or execute_control_plane_gateway_assignment_once,
\* brings the envelope of an execution.
SubmitResult(r, w, a, body) ==
    /\ a \in lease[w] /\ a \notin spooled[w] /\ ~ Submitted(w, a)
    /\ ReadLateness(r, w, a, body)
    /\ UNCHANGED spooled

\* replay_spool submits the bare output, which it keeps until it is answered.
ReplayResult(r, w, a) ==
    /\ a \in spooled[w]
    /\ ReadLateness(r, w, a, "bare")
    /\ spooled' = [spooled EXCEPT ![w] = @ \ {a}]

\* The transaction of submit_result: the envelope of a late result is stored
\* with status quarantined.  The request goes on to verify what it recorded.
CommitResult(r) ==
    /\ request[r].step = "commit"
    /\ results' = Append(results,
          [work_unit |-> request[r].work_unit, attempt |-> request[r].attempt,
           body |-> request[r].body, late |-> request[r].late,
           created_at |-> request[r].created_at])
    /\ request' = [request EXCEPT ![r] =
          [step |-> "verify", result |-> Len(results) + 1, reply |-> "worker"]]
    /\ UNCHANGED <<rows, submit, attempts, retried_at, lease, spooled, reports,
                   summaries, clock, shown, errors>>

-----------------------------------------------------------------------------
(* Verification and summary: finalize_url_check_result *)

\* VerifierRunner.run does not look at the envelope's status; the result hash
\* of a late result was computed before its status became quarantined, so that
\* it does not match unless the worker had given it that status.
RecommendationOf(i) ==
    IF results[i].body = "marked" THEN "accept"
    ELSE IF results[i].late THEN "quarantine" ELSE results[i].body

EnvelopeQuarantined(i) == results[i].late \/ results[i].body = "marked"

\* _summary_status
SummaryStatus(i) ==
    IF RecommendationOf(i) = "quarantine" \/ EnvelopeQuarantined(i) THEN "quarantined"
    ELSE IF RecommendationOf(i) = "accept" THEN "succeeded" ELSE "failed"

\* _load_supported_context: the work unit, a route plan with the recipe of its
\* task type and a policy decision
ContextLoaded(w) ==
    /\ {"work_unit", "route_plan", "own_recipe"} \subseteq rows[w]
    /\ rows[w] \cap {"approved", "denied"} # {}

Verifiable(i) == results[i].body # "bare" /\ ContextLoaded(results[i].work_unit)

\* Nothing to verify: finalize_url_check_result returns None.
NothingToVerify(r) ==
    /\ request[r].step = "verify"
    /\ ~ Verifiable(request[r].result)
    /\ request' = [request EXCEPT ![r] = Idle]
    /\ UNCHANGED <<rows, submit, attempts, retried_at, lease, results, spooled, reports,
                   summaries, clock, shown, errors>>

\* _persist_verifier_report, then _build_host_summary
PersistVerifierReport(r) ==
    /\ request[r].step = "verify"
    /\ Verifiable(request[r].result)
    /\ reports' = reports \cup {request[r].result}
    /\ request' = [request EXCEPT ![r] =
          [step |-> "summary", result |-> @.result, reply |-> @.reply,
           generated_at |-> clock + 1]]
    /\ clock' = clock + 1
    /\ UNCHANGED <<rows, submit, attempts, retried_at, lease, results, spooled, summaries,
                   shown, errors>>

\* _persist_host_result_summary: one row per result and recommendation; ON
\* CONFLICT keeps created_at.  A request of the host returns the summary.
PersistSummary(r) ==
    /\ request[r].step = "summary"
    /\ LET i == request[r].result
       IN  /\ summaries' = [j \in DOMAIN summaries \cup {i} |->
                 IF j \in DOMAIN summaries THEN summaries[j]
                 ELSE request[r].generated_at]
           /\ shown' = IF request[r].reply = "worker" THEN shown
                       ELSE [shown EXCEPT ![results[i].work_unit] = i]
    /\ request' = [request EXCEPT ![r] = Idle]
    /\ UNCHANGED <<rows, submit, attempts, retried_at, lease, results, spooled, reports, clock,
                   errors>>

\* What a request of a worker brought, before or after its commit.
Carried(r) ==
    IF request[r].step = "commit" THEN request[r] ELSE results[request[r].result]

\* The request raises or its process ends; its client gets an error, and a
\* worker spools what it has just submitted.
RequestEnds(r) ==
    /\ request[r] # Idle
    /\ errors < MaxErrors
    /\ errors' = errors + 1
    /\ spooled' = IF request[r].reply = "host" THEN spooled
                  ELSE [spooled EXCEPT ![Carried(r).work_unit] =
                           @ \cup {Carried(r).attempt}]
    /\ request' = [request EXCEPT ![r] = Idle]
    /\ UNCHANGED <<rows, submit, attempts, retried_at, lease, results, reports, summaries,
                   clock, shown>>

-----------------------------------------------------------------------------
(* The host asks: get_host_result_summary *)

SummariesOf(w) == {i \in DOMAIN summaries : results[i].work_unit = w}

NewestSummary(w) == LET At(i) == summaries[i] IN Newest(SummariesOf(w), At)

\* There is a summary: the newest by created_at is returned.
ReadSummary(w) ==
    /\ SummariesOf(w) # {}
    /\ shown' = [shown EXCEPT ![w] = NewestSummary(w)]
    /\ UNCHANGED <<rows, submit, attempts, retried_at, lease, results, spooled, reports,
                   summaries, request, clock, errors>>

ReadAndFinalize_Unreported(r, w) ==
    /\ request[r] = Idle
    /\ SummariesOf(w) = {}
    /\ ResultsOf(w) # {}
    /\ NewestResult(w) \notin reports
    /\ request' = [request EXCEPT ![r] =
          [step |-> "verify", result |-> NewestResult(w), reply |-> "host"]]
    /\ UNCHANGED <<rows, submit, attempts, retried_at, lease, results, spooled, reports,
                   summaries, clock, shown, errors>>

\* There is none: the newest result, whatever its status, is finalized.
ReadAndFinalize(r, w) ==
    /\ request[r] = Idle
    /\ SummariesOf(w) = {}
    /\ ResultsOf(w) # {}
    /\ request' = [request EXCEPT ![r] =
          [step |-> "verify", result |-> NewestResult(w), reply |-> "host"]]
    /\ UNCHANGED <<rows, submit, attempts, retried_at, lease, results, spooled, reports,
                   summaries, clock, shown, errors>>

Submission(w) ==
    \/ PersistWorkUnit(w)
    \/ \E mark \in {{}, {"own_recipe"}} : PersistRoutePlan(w, mark)
    \/ \E decision \in {"approved", "denied"} : PersistPolicyDecision(w, decision)
    \/ CreateAttempt(w)
    \/ CreateAssignment(w)
    \/ SubmissionEnds(w)

Execution(w) ==
    \/ Retry(w)
    \/ \E a \in 1 .. attempts[w] :
          \/ Accept(w, a)
          \/ \E r \in Requests :
                \/ ReplayResult(r, w, a)
                \/ \E body \in Bodies \ {"bare"} : SubmitResult(r, w, a, body)

Finalize(r) == NothingToVerify(r) \/ PersistVerifierReport(r) \/ PersistSummary(r)

Next ==
    \/ \E w \in WorkUnits : Submission(w) \/ Execution(w) \/ ReadSummary(w)
    \/ \E r \in Requests :
          \/ CommitResult(r)
          \/ Finalize(r)
          \/ RequestEnds(r)
          \/ \E w \in WorkUnits : ReadAndFinalize(r, w)

\* A request that has begun goes on, and the host keeps asking.
Fairness ==
    /\ \A r \in Requests : WF_vars(CommitResult(r) \/ Finalize(r))
    /\ \A w \in WorkUnits :
          /\ WF_vars(ReadSummary(w))
          /\ SF_vars(\E r \in Requests : ReadAndFinalize(r, w))

Spec == Init /\ [][Next]_vars /\ Fairness

-----------------------------------------------------------------------------
(* Properties *)

\* Types of the tables and requests; in particular a decision is approved or
\* denied, and reports and summaries are of results that exist.
TypeOK ==
    /\ rows \in [WorkUnits -> SUBSET Tables]
    /\ submit \in [WorkUnits -> Stages]
    /\ attempts \in [WorkUnits -> 0 .. 2]
    /\ retried_at \in [WorkUnits -> Nat]
    /\ lease \in [WorkUnits -> SUBSET {1, 2}]
    /\ results \in Seq([work_unit : WorkUnits, attempt : {1, 2}, body : Bodies,
                        late : BOOLEAN, created_at : Nat])
    /\ \A i \in DOMAIN results : results[i].created_at <= clock
    /\ spooled \in [WorkUnits -> SUBSET {1, 2}]
    /\ reports \subseteq DOMAIN results
    /\ DOMAIN summaries \subseteq DOMAIN results
    /\ \A i \in DOMAIN summaries : summaries[i] \in 1 .. clock
    /\ DOMAIN request = Requests
    /\ \A r \in Requests :
          \/ request[r] = Idle
          \/ request[r] \in [step : {"commit"}, work_unit : WorkUnits,
                             attempt : {1, 2}, body : Bodies, late : BOOLEAN,
                             created_at : 1 .. clock, reply : {"worker"}]
          \/ request[r] \in [step : {"verify"}, result : DOMAIN results,
                             reply : {"worker", "host"}]
          \/ request[r] \in [step : {"summary"}, result : DOMAIN results,
                             reply : {"worker", "host"}, generated_at : 1 .. clock]
    /\ clock \in Nat
    /\ shown \in [WorkUnits -> Nat \cup {None}]
    /\ errors \in 0 .. MaxErrors

\* No work is handed out unless it was routed and the policy approved it:
\* whatever ended a submission, an attempt or an assignment is backed by a
\* work unit, a route plan and an approval, and a denied work unit has none.
WorkIsApproved ==
    \A w \in WorkUnits :
        /\ rows[w] \cap {"attempt", "assignment"} # {} \/ attempts[w] > 0 =>
              /\ {"work_unit", "route_plan", "approved"} \subseteq rows[w]
              /\ "denied" \notin rows[w]
        /\ ResultsOf(w) # {} => "assignment" \in rows[w]

\* What the host is shown as succeeded is a result of the work unit it asks
\* for, with the verifier report on record, of an attempt that was approved,
\* leased, and the newest one when submit_result looked: only a retry
\* scheduled after that look, before the transaction or later, can have
\* overtaken it.
SucceededIsVerified ==
    \A w \in WorkUnits :
        shown[w] # None /\ SummaryStatus(shown[w]) = "succeeded" =>
            LET result == results[shown[w]]
            IN  /\ shown[w] \in reports
                /\ result.work_unit = w
                /\ "approved" \in rows[w]
                /\ result.attempt \in lease[w]
                /\ result.attempt = attempts[w] \/ result.created_at < retried_at[w]

\* A summary is committed only after the report it speaks of, and only for a
\* result the verifier could read; both stay.
SummaryHasReport ==
    /\ DOMAIN summaries \subseteq reports
    /\ \A i \in reports : results[i].body # "bare"

\* Once the host has been given a summary it is never told pending again.
ShownIsNotWithdrawn ==
    [][\A w \in WorkUnits : shown[w] # None =>
          shown'[w] # None /\ SummariesOf(w)' # {}]_vars

NewestIsEnveloped(w) == ResultsOf(w) # {} /\ results[NewestResult(w)].body # "bare"

\* A host that keeps asking gets a summary although the request that brought
\* the result ended before the verification, as long as the newest result is
\* not the bare body of a replay and the plan's recipe is the task's own.
ResultIsShown ==
    \A w \in WorkUnits :
        <>[](NewestIsEnveloped(w) /\ "own_recipe" \in rows[w]) => <>(shown[w] # None)

=============================================================================
