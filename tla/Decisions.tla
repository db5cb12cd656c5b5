------------------------------ MODULE Decisions ------------------------------
(***************************************************************************)
(* The decisions on one work unit, end to end: a host's request is let in  *)
(* by one of two doors, routed, judged by the policy, executed, verified   *)
(* and billed.  The modules Policy, RouteScoring, Adapters, Verifier and   *)
(* Usage say what each decision is; this one says which configuration each *)
(* of them is made with.                                                   *)
(*                                                                         *)
(* The server loads and validates its configuration once                   *)
(* (src/tokenbank/app/lifespan.py) and judges with what it loaded, but the *)
(* router reads the files again for every plan (RouterService.from_dirs in *)
(* src/tokenbank/host/url_check.py).  The host adapter reads and does not  *)
(* validate (src/tokenbank/host_adapter/core.py).                          *)
(***************************************************************************)
EXTENDS Verifier, Usage, ConfigChecks

CONSTANTS
    Config,      \* the configurations, by name
    Texts,       \* the texts of requests and of outputs
    Edits,       \* names of the configurations that an edit may put on disk
    Requests,    \* what hosts ask for
    Returned     \* Returned[t]: what a worker may return for task type t

VARIABLES
    disk,        \* name of the configuration in the files
    edited,      \* the files were changed
    loaded,      \* name of the one that the running server has loaded, or None
    request, quote, work,
    judge,       \* name of the one that the policy is taken from
    plan, decision, result, report, entry,
    stage

\* Rules and manifests with the fields and figures that the loaders insist on
\* (RouteCandidate of models/route_plan.py, BackendManifest and BackendHealth
\* of models/backend.py), rules with ids of their own, by which the scorer
\* tells candidates apart, and for each task type the recipe of its name, which
\* is the only one that a verdict is given with (finalize_url_check_result).
WellFormed(conf) ==
    /\ {"backends", "workers", "rules", "verifier_mapping", "routebook_forbidden",
        "scored"} \subseteq DOMAIN conf
    /\ \A b \in DOMAIN conf.backends :
          /\ b \in Nat
          /\ {"class", "tasks", "cost", "privacy", "health", "latency"}
                \subseteq DOMAIN conf.backends[b]
          /\ conf.backends[b].cost \in Nat
          /\ conf.backends[b].latency \in Nat \cup {None}
    /\ DOMAIN conf.workers \ {Gateway} \subseteq Nat
    /\ \A rule \in conf.rules :
          /\ {"id", "task_type", "backend_id", "backend_class", "worker_id", "priority"}
                \subseteq DOMAIN rule
          /\ rule.id \in Nat
          /\ rule.priority \in Nat \ {0}
          /\ \A other \in conf.rules : other.id = rule.id => other = rule
    /\ \A t \in SupportedTasks : conf.verifier_mapping[t] \in {t, None}

ASSUME DecisionsAssumption ==
    /\ None \notin {Gateway, "approved", "denied"} \cup SupportedTasks \cup Nat
    /\ Gateway \notin Nat
    /\ Edits \subseteq DOMAIN Config
    /\ \A name \in DOMAIN Config : WellFormed(Config[name])

\* CostSource of models/common.py
CostSources ==
    {"measured", "estimated", "policy_default", "zero_internal_phase0", "not_applicable"}

UsageRecords ==
    [estimated_cost_micros : Int, actual_cost_micros : Int, input_units : Int,
     output_units : Int, cost_source : CostSources]

\* The figures of a WorkUnitResultEnvelope and of its usage records.
IsBody(body) ==
    /\ body.actual_cost_micros \in Int /\ body.cost_estimate_micros \in Int
    /\ body.usage_records \in Seq(UsageRecords)

\* A field of a payload is a text or a list of texts, as its name says, of
\* another type, or null.
IsPayload(fields) ==
    \A k \in DOMAIN fields :
        fields[k] \in (IF k \in Lists THEN Seq(Texts) ELSE Texts) \cup {Malformed, Blank, None}

\* What an adapter makes a claim of.
ClaimRecords ==
    [claim_text : Texts, entity : Texts, claim_type : Texts, confidence : Int,
     source_post_refs : Seq(Texts), evidence_hint : Texts]

\* None, Malformed and Blank are values of their own: no text, number, truth value,
\* list, claim, or what a page shows (at most three texts).  Prices are
\* integers, which TaskAnalyzer makes of them, and so are the figures of a
\* body: what is none is negative by the convention of module Usage.
ASSUME ValuesAssumption ==
    /\ {"", "TokenBank", "src_claim_1"} \cup ToSet(DefaultTopicLabels)
          \cup ToSet(DefaultClaimTypes) \subseteq Texts
    /\ None # Malformed /\ None # Blank /\ Malformed # Blank
    /\ {None, Malformed, Blank} \cap (Texts \cup Int \cup BOOLEAN) = {}
    /\ \A absent \in {None, Malformed, Blank} :
          /\ absent \notin Seq(Texts)
          /\ absent \notin ClaimRecords /\ absent \notin Seq(ClaimRecords)
          /\ \A s, t, u \in Texts : absent # {s, t, u}
    /\ None \notin Requests
    /\ \A r \in Requests :
          /\ IsPayload(r.payload.fields)
          /\ r.payload.inline_input = None \/ IsPayload(r.payload.inline_input)
          /\ r.payload.input = None \/ IsPayload(r.payload.input)
    /\ \A t \in SupportedTasks : \A body \in Returned[t] : IsBody(body)
    /\ \A name \in DOMAIN Config : \A b \in DOMAIN Config[name].backends :
          Config[name].prices[b].input \in Int /\ Config[name].prices[b].output \in Int

vars == << disk, edited, loaded, request, quote, work, judge, plan, decision, result,
           report, entry, stage >>

Init ==
    /\ disk \in DOMAIN Config
    /\ edited = FALSE
    /\ loaded = None
    /\ request = None /\ quote = None /\ work = None /\ judge = None /\ plan = None
    /\ decision = None /\ result = None /\ report = None /\ entry = None
    /\ stage = "idle"

-----------------------------------------------------------------------------
(* Actions *)

\* lifespan: a configuration with an issue ends the start
StartServer ==
    /\ stage = "idle" /\ loaded = None /\ request = None
    /\ ConfigIssues(Config[disk]) = {}
    /\ loaded' = disk
    /\ UNCHANGED << disk, edited, request, quote, work, judge, plan, decision, result,
                    report, entry, stage >>

\* Someone changes the files; nothing tells the server.
EditConfig ==
    /\ stage = "idle" /\ ~ edited /\ request = None
    /\ disk' \in Edits \ {disk}
    /\ edited' = TRUE
    /\ UNCHANGED << loaded, request, quote, work, judge, plan, decision, result, report,
                    entry, stage >>

\* HostAdapterCore.estimate_route
EstimateRoute(r) ==
    LET unit == WorkUnit(TaskTypeOf(r), InlineInput(r))
        estimated == EstimatedPlan(Config[disk], unit)
    IN  /\ stage = "idle" /\ request = None
        /\ IngressErrors(r) = {}
        /\ RouteErrors(Config[disk], unit) = {}
        /\ request' = r
        /\ quote' = [selected |-> estimated.selected,
                     cost |-> CostEstimate(Config[disk], unit, PlanRoute(Config[disk], unit))]
        /\ UNCHANGED << disk, edited, loaded, work, judge, plan, decision, result, report,
                        entry, stage >>

\* HostAdapterCore.submit_work_unit
SubmitToAdapter(r) ==
    /\ stage = "idle" /\ request \in {None, r}
    /\ request' = r
    /\ IF IngressErrors(r) # {}
       THEN stage' = "refused" /\ UNCHANGED << work, judge >>
       ELSE /\ work' = WorkUnit(TaskTypeOf(r), Submitted(TaskTypeOf(r), InlineInput(r)))
            /\ judge' = disk
            /\ stage' = "submitted"
    /\ UNCHANGED << disk, edited, loaded, quote, plan, decision, result, report, entry >>

\* submit_work_unit of app/routers/host.py
SubmitToServer(r) ==
    /\ stage = "idle" /\ loaded # None /\ request \in {None, r}
    /\ request' = r
    /\ IF ServerErrors(r) # {}
       THEN stage' = "refused" /\ UNCHANGED << work, judge >>
       ELSE /\ work' = WorkUnit(r.payload.task_type,
                             Submitted(r.payload.task_type, ServerInput(r)))
            /\ judge' = loaded
            /\ stage' = "submitted"
    /\ UNCHANGED << disk, edited, loaded, quote, plan, decision, result, report, entry >>

\* plan_route, with the files as they are now
Plan ==
    /\ stage = "submitted"
    /\ IF RouteErrors(Config[disk], work) # {}
       THEN stage' = "unroutable" /\ UNCHANGED plan
       ELSE plan' = PlanRoute(Config[disk], work) /\ stage' = "planned"
    /\ UNCHANGED << disk, edited, loaded, request, quote, work, judge, decision, result,
                    report, entry >>

\* _evaluate_vs0_policy, _worker_manifest: a backend that only the files have
\* is an error, and so is such a worker unless it has registered a manifest,
\* of which only the worker_id is looked at
Judge ==
    /\ stage = "planned"
    /\ \E registered \in BOOLEAN :
       LET conf == Config[judge]
           c == Selected(plan)
       IN  IF \/ c.backend_id \notin DOMAIN conf.backends
              \/ c.worker_id \notin DOMAIN conf.workers /\ ~ registered
           THEN stage' = "error" /\ UNCHANGED decision
           ELSE IF PolicyFailures(conf, work, plan) # {}
                THEN stage' = "denied" /\ decision' = "denied"
                ELSE stage' = "assigned" /\ decision' = "approved"
    /\ UNCHANGED << disk, edited, loaded, request, quote, work, judge, plan, result, report,
                    entry >>

\* The result of running the adapter of the selected backend
ResultOfAdapter ==
    LET c == Selected(plan)
    IN  /\ result' = [envelope |-> Executed(c.backend_class, work, c.worker_id), own |-> TRUE]
        /\ stage' = "completed"
        /\ UNCHANGED << disk, edited, loaded, request, quote, work, judge, plan, decision,
                        report, entry >>

\* LocalToolExecutor.execute_envelope
ExecuteByWorker ==
    /\ stage = "assigned"
    /\ Selected(plan).worker_id # Gateway
    /\ MayRun(Selected(plan).worker_id, Selected(plan).backend_class)
    /\ ResultOfAdapter

\* execute_control_plane_gateway_assignment_once
ExecuteByGateway ==
    /\ stage = "assigned"
    /\ Selected(plan).worker_id = Gateway
    /\ MayRun(Selected(plan).worker_id, Selected(plan).backend_class)
    /\ ResultOfAdapter

\* The PermissionError of the one, the ValueError of the other
ExecutionRefused ==
    /\ stage = "assigned"
    /\ ~ MayRun(Selected(plan).worker_id, Selected(plan).backend_class)
    /\ stage' = "error"
    /\ UNCHANGED << disk, edited, loaded, request, quote, work, judge, plan, decision, result,
                    report, entry >>

\* A worker returns an envelope of its own making.
ReturnOther ==
    /\ stage = "assigned" /\ quote = None /\ ~ edited
    /\ Selected(plan).worker_id # Gateway
    /\ \E e \in Returned[work.task_type] : result' = [envelope |-> e, own |-> FALSE]
    /\ stage' = "completed"
    /\ UNCHANGED << disk, edited, loaded, request, quote, work, judge, plan, decision,
                    report, entry >>

\* finalize_url_check_result: VerifierRunner.run
Verify ==
    /\ stage = "completed"
    /\ LET checks == Checks(plan.task_type, result.envelope, decision)
       IN  report' = [checks |-> checks,
                      recommendation |-> Recommendation(plan.task_type, checks)]
    /\ stage' = "verified"
    /\ UNCHANGED << disk, edited, loaded, request, quote, work, judge, plan, decision,
                    result, entry >>

\* UsageLedgerService.record_for_work_unit
Bill ==
    /\ stage = "verified"
    /\ entry' = UsageFigures(result.envelope)
    /\ stage' = "billed"
    /\ UNCHANGED << disk, edited, loaded, request, quote, work, judge, plan, decision,
                    result, report >>

Next ==
    \/ StartServer
    \/ EditConfig
    \/ \E r \in Requests : EstimateRoute(r)
    \/ \E r \in Requests : SubmitToAdapter(r)
    \/ \E r \in Requests : SubmitToServer(r)
    \/ Plan
    \/ Judge
    \/ ExecuteByWorker
    \/ ExecuteByGateway
    \/ ExecutionRefused
    \/ ReturnOther
    \/ Verify
    \/ Bill

Spec == Init /\ [][Next]_vars

-----------------------------------------------------------------------------
(* Invariants *)

Accepts == {"accept", "accept_with_warning"}

\* An approved assignment is at a worker whose manifest declares its backend
\* and its class (resolver.py): models of a provider at the gateway only, and
\* local backends at another worker unless a rule names the gateway.  A work
\* unit above L0 has the verifier of its task type.
ApprovedIsPlaced ==
    decision = "approved" =>
        LET c == Selected(plan)
            conf == Config[disk]
        IN  /\ c.worker_id \in DOMAIN conf.workers
            /\ Supports(conf, c.worker_id, c.backend_id)
            /\ c.backend_class \in GatewayClasses => c.worker_id = Gateway
            /\ c.worker_id = Gateway /\ c.backend_class \notin GatewayClasses =>
                   \E rule \in conf.rules : rule.id = c.id /\ rule.worker_id = Gateway
            /\ plan.verifier_recipe_id = plan.task_type

\* The router reads the files anew and the server judges with what it loaded:
\* what is approved is allowed by both, whatever was edited in between.
ApprovedByBoth ==
    decision = "approved" =>
        LET c == Selected(plan)
            old == Config[judge]
            new == Config[disk]
        IN  /\ c.backend_id \in old.allowed_ids
            /\ c.backend_class \in old.allowed_classes \ old.forbidden
            /\ new.allowed_ids # {} => c.backend_id \in new.allowed_ids
            /\ new.allowed_classes # {} => c.backend_class \in new.allowed_classes
            /\ c.backend_class \notin new.routebook_forbidden

\* When the router and the policy use one configuration, a planned work unit
\* is denied only for what the router does not look at: an allow-list that is
\* empty (all to the resolver, none to the policy), a class that only the
\* backend policy forbids, or a cost that is no integer.
DeniedByConfig ==
    decision = "denied" /\ judge = disk =>
        LET conf == Config[disk]
        IN  \/ conf.allowed_ids = {} \/ conf.allowed_classes = {}
            \/ Selected(plan).backend_class \in conf.forbidden \ conf.routebook_forbidden
            \/ "float_micros" \in TextsOf(work.inline)

\* Router and policy look at the same allow-lists with code of their own, and
\* at configurations of different age: they contradict each other only where
\* their tests differ.
PolicyAndRouterAgree == ApprovedByBoth /\ DeniedByConfig

\* A configuration that both validators pass leaves a supported task without
\* a route only for what neither looks at: whether workers, classes and the
\* rules of the routebook fit each other, and whether the resolver knows the
\* class at all ("local_model" is a class of models/common.py and none of its).
ValidatedRoutes ==
    /\ stage = "unroutable"
    /\ ConfigIssues(Config[disk]) = {} /\ RoutebookIssues(Config[disk]) = {}
    => RouteErrors(Config[disk], work) \subseteq
           {"class_mismatch", "class_not_allowed", "class_unknown", "worker_unknown",
            "unsupported", "no_candidates", "forbidden_class", "forbidden_shape"}

\* Input that the preflight takes for private data goes to a backend that is
\* allowed sensitive data if the plan has one that is up and supports the
\* task, however dear, slow or low in priority it is.  (An L0 unit is left
\* out: its level is raised and then no candidate passes.)
PrivateDataStays ==
    LET conf == Config[disk]
        fit(c) == /\ "sensitive" \in conf.backends[c.backend_id].privacy
                  /\ conf.backends[c.backend_id].health # "unhealthy"
                  /\ work.task_type \in conf.backends[c.backend_id].tasks
    IN  /\ plan # None
        /\ conf.scored
        /\ work.signals = {"private_data"} /\ work.task_level # "L0"
        /\ \E c \in plan.candidates : fit(c)
        => fit(Selected(plan))

\* The configuration with the backend and the rule of candidate c at their
\* best: free, healthy, of the first priority.
Improved(conf, c) ==
    [conf EXCEPT
        !.backends[c.backend_id].cost = 0,
        !.backends[c.backend_id].health = "healthy",
        !.rules = {[rule EXCEPT !.priority = IF rule.id = c.id THEN 1 ELSE rule.priority] :
                      rule \in conf.rules}]

\* The scorer is monotone: making the selected backend free, healthy and of
\* the first priority does not lose it the selection.
ImprovementKeepsRoute ==
    LET conf == Config[disk]
    IN  plan # None /\ conf.scored /\ Passes(conf, work, plan, Selected(plan)) =>
            PlanRoute(Improved(conf, Selected(plan)), work).selected = plan.selected

\* What an input gives for a field: its value, unless that is empty.
Given(inline, key) == IF key \in DOMAIN inline /\ NonEmpty(inline, key) THEN inline[key] ELSE None

\* An estimate of so many tokens raises the level of an L0 or an L1 unit.
Long(unit) == EstimatedTokens(unit) >= 16000

\* A host that asked for an estimate and then submits the same request, at
\* either door, gets the route it was quoted, if plans are scored with the
\* pack that estimates use and the door reads the same input, but for empty
\* fields and the defaults.  The estimate is scored twice, and it measures an
\* input without the defaults that submission adds: when only one of the two
\* inputs is long, no candidate passes for that one, and its route is the
\* baseline's.  A quoted cost is a range around its expected value.
QuoteIsPlan ==
    quote # None =>
        /\ quote.cost.min <= quote.cost.expected
        /\ quote.cost.expected <= quote.cost.max
        /\ LET task == TaskTypeOf(request)
               quoted == WorkUnit(task, InlineInput(request))
               submitted == Submitted(task, InlineInput(request))
           IN  /\ plan # None
               /\ Config[disk].scored /\ plan.task_type = task
               /\ \A k \in TaskKeys(task) : Given(work.inline, k) = Given(submitted, k)
               => \/ plan.selected = quote.selected
                  \/ /\ Long(quoted) # Long(work)
                     /\ (IF Long(work) THEN plan.selected ELSE quote.selected)
                            = BaselinePlan(Config[disk], work).selected

\* The fields that the doors look for in different places: a top-level field
\* that is there and empty hides that of inline_input from the adapter only,
\* and the server does not look into "input".
ReadOtherwise(payload, key) ==
    LET nested == NestedFields(payload)
    IN  /\ key \in DOMAIN nested /\ NonEmpty(nested, key)
        /\ IF payload.inline_input # None
           THEN key \in DOMAIN payload.fields /\ ~ IsTrue(key, payload.fields[key])
           ELSE key \notin DOMAIN payload.fields

\* What both doors let in as one task is one work unit, up to fields that are
\* empty, if they look for the same fields in the same places; and they read
\* different values just for those that they do not (which may still be the
\* default of the other).
DoorsAgree ==
    /\ request # None /\ request.payload.task_type = TaskTypeOf(request)
    /\ IngressErrors(request) = {} /\ ServerErrors(request) = {}
    => LET task == TaskTypeOf(request)
           adapter == Submitted(task, InlineInput(request))
           server == Submitted(task, ServerInput(request))
       IN  \A k \in TaskKeys(task) :
              IF ReadOtherwise(request.payload, k)
              THEN \/ Given(adapter, k) # Given(server, k)
                   \/ k \in {"allowed_labels", "allowed_claim_types", "source_id"}
              ELSE Given(adapter, k) = Given(server, k)

\* What the verifier accepts, with or without a warning, has both hashes, was
\* approved by the policy, shows nothing that looks like a secret, and failed
\* no check.
AcceptedIsClean ==
    report # None /\ report.recommendation \in Accepts =>
        /\ result.envelope.output_hash_valid /\ result.envelope.result_hash_valid
        /\ decision = "approved"
        /\ \A v \in EnvelopeStrings(result.envelope) : ~ LooksSecret(v)
        /\ \A c \in report.checks : c[2] # "failed"

\* A result with a wrong hash or with a secret anywhere in it is quarantined,
\* whatever else is wrong with it: it is never worth a retry.
TamperedIsQuarantined ==
    report # None =>
        \/ report.recommendation = "quarantine"
        \/ /\ result.envelope.output_hash_valid /\ result.envelope.result_hash_valid
           /\ \A v \in EnvelopeStrings(result.envelope) : ~ LooksSecret(v)

\* The verifier does not read the status of an envelope; even so no failure
\* that an adapter reports is accepted.
FailureNotAccepted ==
    report # None /\ result.own /\ result.envelope.status = "failed" =>
        report.recommendation \notin Accepts

\* The recommendation of VerifierRunner is safe to act on, whichever of several
\* failed checks decides it.
VerdictIsSafe == AcceptedIsClean /\ TamperedIsQuarantined /\ FailureNotAccepted

\* What an adapter makes of a work unit of its own task passes that task's
\* recipe, unless it echoes something that looks like a secret: adapters and
\* recipes agree on the shape of an output.
OwnOutputAccepted ==
    LET class == Selected(plan).backend_class
        fits == [url_check |-> {"local_tool"}, dedup |-> {"local_script"},
                 webpage_extraction |-> {"browser_fetch"},
                 topic_classification |-> GatewayClasses,
                 claim_extraction |-> GatewayClasses]
    IN  report # None =>
            \/ ~ result.own \/ result.envelope.status = "failed"
            \/ class \notin fits[work.task_type]
            \/ \E v \in EnvelopeStrings(result.envelope) : LooksSecret(v)
            \/ report.recommendation \in Accepts

\* A bill is never below the cost a worker reports, in the envelope or over
\* its usage records, never negative, and named not applicable only when it
\* is zero (ledger/usage.py).
BilledFairly ==
    entry # None =>
        LET records == result.envelope.usage_records
        IN  /\ entry.billable_cost_micros >= 0 /\ entry.total_tokens >= 0
            /\ entry.billable_cost_micros >= result.envelope.actual_cost_micros
            /\ \A i \in DOMAIN records :
                  entry.billable_cost_micros >= records[i].actual_cost_micros
            /\ entry.cost_source = "not_applicable" => entry.billable_cost_micros = 0

=============================================================================
