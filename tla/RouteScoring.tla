----------------------------- MODULE RouteScoring -----------------------------
(***************************************************************************)
(* How a route plan gets its selected candidate: the analysis of the work  *)
(* unit, the capacity profiles and the scores                              *)
(* (src/tokenbank/router/task_analyzer.py, privacy_preflight.py,           *)
(* token_estimator.py, task_profiler.py, capacity_profiles.py,             *)
(* route_scorer.py, route_explainer.py and plan_route of service.py).      *)
(*                                                                         *)
(* A work unit is known by what the analysis measures: the length of its   *)
(* serialized input, of its text and of its item list (None if it has      *)
(* none), its JSON depth and the signals that the scans find in it.        *)
(* Scores are whole numbers of 1/10000, in which the code's decimal        *)
(* arithmetic is exact with the weights of the base-routing pack.          *)
(***************************************************************************)
EXTENDS Router, FiniteSetsExt

\* task_type_defaults of packs/base-routing/routebook/ontology.yaml
TaskDefaults ==
    [url_check |->
        [difficulty |-> "easy", capabilities |-> {"browser_fetch", "deterministic_local"}],
     dedup |->
        [difficulty |-> "easy", capabilities |-> {"deterministic_local", "data_extraction"}],
     webpage_extraction |->
        [difficulty |-> "medium",
         capabilities |-> {"browser_fetch", "data_extraction", "structured_output"}],
     topic_classification |->
        [difficulty |-> "medium", capabilities |-> {"structured_output", "fast_reasoning"}],
     claim_extraction |->
        [difficulty |-> "high",
         capabilities |-> {"strong_reasoning", "structured_output", "data_extraction"}]]

LevelOrder == [L0 |-> 0, L1 |-> 1, L2 |-> 2, L3 |-> 3]
PrivacyOrder == [private |-> 0, internal |-> 1, sensitive |-> 2]
DifficultyOrder == [trivial |-> 0, easy |-> 1, medium |-> 2, high |-> 3, expert |-> 4]

AtMost(bound, n) == Min({bound, n})
AtLeast(bound, n) == Max({bound, n})
Ceiling(n, d) == (n + d - 1) \div d

-----------------------------------------------------------------------------
(* TaskAnalyzer *)

\* estimate_tokens
OutputTokens(work) ==
    CASE work.task_type = "dedup" /\ work.items # None -> AtLeast(128, work.items * 12)
      [] work.task_type \in {"claim_extraction", "webpage_extraction"} /\ work.text # None ->
            AtLeast(512, AtMost(2048, Ceiling(work.text,
                        IF work.task_type = "claim_extraction" THEN 12 ELSE 16)))
      [] OTHER -> [url_check |-> 64, dedup |-> 128, webpage_extraction |-> 512,
                   topic_classification |-> 96, claim_extraction |-> 512][work.task_type]

InputTokens(work) == AtLeast(1, Ceiling(work.chars, 4))

EstimatedTokens(work) == InputTokens(work) + OutputTokens(work)

\* _max_by_order
Raised(current, target, order) ==
    IF order[target] > order[current] THEN target ELSE current

\* _raise_difficulty
Difficulty(work) ==
    LET base == TaskDefaults[work.task_type].difficulty
        target == CASE EstimatedTokens(work) >= 32000 -> "expert"
                    [] EstimatedTokens(work) \in 16000 .. 31999 -> "high"
                    [] EstimatedTokens(work) < 16000 /\ work.depth >= 6 -> "medium"
                    [] OTHER -> base
    IN  Raised(base, target, DifficultyOrder)

\* scan_privacy: what the patterns find
RawSecret(work) == "raw_secret" \in work.signals
PrivateData(work) == "private_data" \in work.signals

EffectivePrivacy_OnlySecrets(work) ==
    Raised(work.privacy_level,
           IF RawSecret(work) THEN "sensitive" ELSE work.privacy_level, PrivacyOrder)

\* _raised_privacy_level
EffectivePrivacy(work) ==
    Raised(work.privacy_level,
           IF RawSecret(work) \/ PrivateData(work) THEN "sensitive" ELSE work.privacy_level,
           PrivacyOrder)

\* _raised_task_level: the last condition that holds wins
EffectiveLevel(work) ==
    LET target == CASE RawSecret(work) -> "L2"
                    [] ~ RawSecret(work) /\ PrivateData(work) -> "L1"
                    [] OTHER -> IF Difficulty(work) \in {"high", "expert"} THEN "L2"
                                ELSE work.task_level
    IN  Raised(work.task_level, target, LevelOrder)

PreflightAllows(work) == ~ RawSecret(work) /\ "workspace_scan" \notin work.signals

\* _analysis_confidence, in percent
Confidence(work) ==
    IF RawSecret(work) THEN 90 ELSE IF work.chars > 20000 THEN 70 ELSE 82

\* _cost_estimate of the candidate that the plan selects
CostEstimate(conf, work, plan) ==
    LET b == Selected(plan).backend_id
        token_cost == InputTokens(work) * conf.prices[b].input
                      + OutputTokens(work) * conf.prices[b].output
        expected == AtLeast(Selected(plan).cost, token_cost)
    IN  [min |-> IF expected = 0 THEN 0 ELSE AtLeast(1, Ceiling(expected, 2)),
         expected |-> expected,
         max |-> expected * 2]

-----------------------------------------------------------------------------
(* Capacity profiles *)

\* backend_capabilities: what a task type adds is what the ontology asks of it
Capabilities(backend) ==
    (UNION {TaskDefaults[t].capabilities : t \in backend.tasks})
    \cup (CASE backend.class \in {"local_tool", "local_script"} ->
                 {"deterministic_local", "low_cost"}
            [] backend.class = "browser_fetch" -> {"browser_fetch", "data_extraction"}
            [] backend.class \in GatewayClasses -> {"structured_output", "fast_reasoning"}
            [] OTHER -> {})

\* _model_tier in MODEL_TIER_ORDER
ModelTier(backend) ==
    CASE backend.class = "primary_model_gateway" -> 3
      [] backend.class = "api_model_gateway" /\ "claim_extraction" \in backend.tasks -> 2
      [] backend.class = "api_model_gateway" /\ "claim_extraction" \notin backend.tasks -> 1
      [] OTHER -> None

\* _availability: only an unhealthy backend is out of the question
Available(backend) == backend.health # "unhealthy"

-----------------------------------------------------------------------------
(* RouteScorer and TaskProfiler *)

\* TaskProfiler._required_capabilities: those of the task type, whatever the
\* analysis has found
RequiredCapabilities(work) == TaskDefaults[work.task_type].capabilities

\* _capability_fit times its weight: a declared capability is always enough
CapabilityFit(work, backend) ==
    LET required == RequiredCapabilities(work)
    IN  (3000 * Cardinality(required \cap Capabilities(backend))) \div Cardinality(required)

\* _model_or_backend_tier_fit in percent; the difficulty is that of the task
\* type, not the raised one
TierFit(work, backend) ==
    LET difficulty == DifficultyOrder[TaskDefaults[work.task_type].difficulty]
        required == CASE difficulty <= 1 -> 0 [] difficulty = 2 -> 1 [] OTHER -> 2
        tier == ModelTier(backend)
    IN  IF tier = None
        THEN CASE difficulty <= 1 /\ "deterministic_local" \in Capabilities(backend) -> 95
               [] /\ ~ (difficulty <= 1 /\ "deterministic_local" \in Capabilities(backend))
                  /\ difficulty <= 2 /\ backend.class = "browser_fetch" -> 80
               [] OTHER -> 45
        ELSE IF tier >= required THEN AtMost(100, 82 + 7 * (tier - required))
             ELSE AtLeast(25, 72 - 18 * (required - tier))

\* _quality_fit times its weight
QualityFit(work, backend) ==
    11 * TierFit(work, backend)
    + (IF work.task_type \in backend.tasks THEN 425 ELSE 275) + 280

CostFit_DearFirst(cost) ==
    IF cost = 0 THEN 250 ELSE IF cost <= 1000 THEN 800 ELSE IF cost <= 10000 THEN 650
    ELSE IF cost <= 100000 THEN 450 ELSE 1000

\* _cost_fit times its weight
CostFit(cost) ==
    IF cost = 0 THEN 1000 ELSE IF cost <= 1000 THEN 800 ELSE IF cost <= 10000 THEN 650
    ELSE IF cost <= 100000 THEN 450 ELSE 250

\* _latency_fit times its weight
LatencyFit(backend) ==
    CASE backend.health = "degraded" -> 225
      [] backend.health # "degraded" /\ backend.latency = None -> 325
      [] OTHER -> IF backend.latency <= 500 THEN 475
                  ELSE IF backend.latency <= 2000 THEN 375 ELSE 225

\* _uncertainty_penalty
Uncertainty(work, backend) ==
    AtMost(2500, 300 + 12 * (100 - Confidence(work))
                 + (IF backend.latency = None THEN 300 ELSE 0) + 400)

\* _hard_filter_results: the filters that fail
FailedFilters(conf, work, plan, c) ==
    LET backend == conf.backends[c.backend_id]
    IN  {f \in {"preflight_allow", "task_type_supported", "privacy_boundary_allowed",
                "verifier_available", "backend_class_allowed", "worker_direct_api_model",
                "credential_boundary_valid", "capacity_health", "task_level_not_downgraded"} :
           \/ f = "preflight_allow" /\ ~ PreflightAllows(work)
           \/ f = "task_type_supported" /\ work.task_type \notin backend.tasks
           \/ f = "privacy_boundary_allowed" /\ EffectivePrivacy(work) \notin backend.privacy
           \/ /\ f = "verifier_available"
              /\ EffectiveLevel(work) # "L0"
              /\ c.verifier_recipe_id = None
           \/ f = "backend_class_allowed" /\ c.backend_class \in conf.routebook_forbidden
           \/ /\ f = "worker_direct_api_model"
              /\ c.backend_class \in GatewayClasses
              /\ c.worker_id # Gateway
           \/ f = "credential_boundary_valid" /\ RawSecret(work)
           \/ f = "capacity_health" /\ ~ Available(backend)
           \/ /\ f = "task_level_not_downgraded"
              /\ LevelOrder[plan.task_level] < LevelOrder[EffectiveLevel(work)]}

Passes(conf, work, plan, c) == FailedFilters(conf, work, plan, c) = {}

\* _candidate_score: the weights are .30 .25 .20 .10 .05 .10; every capacity
\* is owned by the user, so trust is full
Score(conf, work, plan, c) ==
    LET backend == conf.backends[c.backend_id]
        sum == CapabilityFit(work, backend) + 2500 + QualityFit(work, backend)
               + CostFit(c.cost) + LatencyFit(backend) + 1000
    IN  IF ~ Passes(conf, work, plan, c) THEN 0
        ELSE AtLeast(0, AtMost(10000, sum - Uncertainty(work, backend)
                                          - AtMost(800, 400 * (c.priority - 1))))

\* _ranked_scores
RankedBefore(conf, work, plan, c, d) ==
    LET key(x) == << IF Passes(conf, work, plan, x) THEN 0 ELSE 1,
                     0 - Score(conf, work, plan, x), x.priority, x.cost, x.id >>
        kc == key(c)
        kd == key(d)
    IN  \E i \in 1 .. 5 : kc[i] < kd[i] /\ \A j \in 1 .. i - 1 : kc[j] = kd[j]

\* score: the best candidate that passes, or the selection there is
ScoredSelection(conf, work, plan) ==
    IF \E c \in plan.candidates : Passes(conf, work, plan, c)
    THEN First(plan.candidates, LAMBDA c, d : RankedBefore(conf, work, plan, c, d)).id
    ELSE plan.selected

-----------------------------------------------------------------------------
(* RouterService.plan_route *)

\* Everything plan_route can raise on the way to a plan.
RouteErrors(conf, work) ==
    IF GenerationErrors(conf, work.task_type) # {} THEN GenerationErrors(conf, work.task_type)
    ELSE ValidationErrors(conf, BaselinePlan(conf, work))

PlanRoute_Unscored(conf, work) == BaselinePlan(conf, work)

\* plan_route, _apply_scored_selection: scored if the pack is installed
PlanRoute(conf, work) ==
    LET baseline == BaselinePlan(conf, work)
    IN  IF conf.scored
        THEN [baseline EXCEPT !.selected = ScoredSelection(conf, work, baseline)]
        ELSE baseline

\* estimate_route, explain_route, score_route: the plan is scored once more
EstimatedPlan(conf, work) ==
    LET plan == PlanRoute(conf, work)
    IN  [plan EXCEPT !.selected = ScoredSelection(conf, work, plan)]

=============================================================================
