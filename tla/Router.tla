-------------------------------- MODULE Router --------------------------------
(***************************************************************************)
(* From a work unit to a route plan (src/tokenbank/router/service.py,      *)
(* candidate_generator.py, normalizer.py, route_plan_validator.py, and     *)
(* src/tokenbank/backends/resolver.py and registry.py).                    *)
(*                                                                         *)
(* A configuration is a record `conf': the backend and worker manifests,   *)
(* the allow-lists of the backend policy and the routebook.  Backend,      *)
(* worker and rule ids are numbers, ordered as the code orders the strings.*)
(* Where the code raises at the first thing that is wrong, an operator     *)
(* ...Errors is the set of all that is: a plan is made iff it is empty.    *)
(***************************************************************************)
EXTENDS Integers, FiniteSets

CONSTANTS
    None,
    Gateway  \* wrk_control_plane_gateway

GatewayClasses == {"api_model_gateway", "primary_model_gateway"}
WorkerLocalClasses == {"browser_fetch", "local_script", "local_tool"}

\* The element of S that is before all others, None if there is none.
First(S, Before(_, _)) ==
    IF S = {} THEN None ELSE CHOOSE x \in S : \A y \in S \ {x} : Before(x, y)

-----------------------------------------------------------------------------
(* BackendResolver *)

\* _resolve_backend_manifest: the id of the rule, or the first backend of
\* its class that supports the task type
BackendOf(conf, rule) ==
    IF rule.backend_id # None THEN rule.backend_id
    ELSE First({b \in DOMAIN conf.backends :
                   /\ conf.backends[b].class = rule.backend_class
                   /\ rule.task_type \in conf.backends[b].tasks}, <)

Supports(conf, w, b) ==
    /\ b \in conf.workers[w].backend_ids
    /\ conf.backends[b].class \in conf.workers[w].backend_classes

\* validate_backend_execution_location
LocationValid(backend) ==
    /\ backend.class \in GatewayClasses => backend.location = "mac_control_plane"
    /\ backend.class \in WorkerLocalClasses =>
           backend.location \in {"local_machine", "windows_worker"}

\* _resolve_gateway, _resolve_worker_local, _first_worker_for_backend
WorkerOf(conf, rule, b) ==
    IF conf.backends[b].class \in GatewayClasses THEN Gateway
    ELSE IF rule.worker_id # None THEN rule.worker_id
    ELSE First({w \in DOMAIN conf.workers \ {Gateway} : Supports(conf, w, b)}, <)

ResolutionErrors_NoIds(conf, rule) ==
    IF BackendOf(conf, rule) \notin DOMAIN conf.backends THEN {"backend_unknown"}
    ELSE {e \in {"worker_unknown"} :
            WorkerOf(conf, rule, BackendOf(conf, rule)) \notin DOMAIN conf.workers}

\* resolve, _enforce_policy (an empty allow-list allows everything),
\* validate_worker_local_backend, validate_gateway_worker
ResolutionErrors(conf, rule) ==
    LET b == BackendOf(conf, rule)
        backend == conf.backends[b]
        w == WorkerOf(conf, rule, b)
    IN  IF b \notin DOMAIN conf.backends THEN {"backend_unknown"}
        ELSE {e \in {"class_mismatch", "id_not_allowed", "class_not_allowed",
                     "class_unknown", "location", "worker_unknown", "unsupported"} :
                \/ e = "class_mismatch" /\ rule.backend_class \notin {None, backend.class}
                \/ e = "id_not_allowed" /\ conf.allowed_ids # {} /\ b \notin conf.allowed_ids
                \/ /\ e = "class_not_allowed"
                   /\ conf.allowed_classes # {}
                   /\ backend.class \notin conf.allowed_classes
                \/ /\ e = "class_unknown"
                   /\ backend.class \notin GatewayClasses \cup WorkerLocalClasses
                \/ e = "location" /\ ~ LocationValid(backend)
                \/ e = "worker_unknown" /\ w \notin DOMAIN conf.workers
                \/ /\ e = "unsupported"
                   /\ w \in DOMAIN conf.workers
                   /\ ~ Supports(conf, w, b)}

-----------------------------------------------------------------------------
(* CandidateGenerator and RoutePlanNormalizer *)

\* matching_candidate_rules
MatchingRules(conf, task_type) == {rule \in conf.rules : rule.task_type = task_type}

Candidate(conf, rule) ==
    LET b == BackendOf(conf, rule)
    IN  [id |-> rule.id, backend_id |-> b, backend_class |-> conf.backends[b].class,
         worker_id |-> WorkerOf(conf, rule, b), priority |-> rule.priority,
         cost |-> conf.backends[b].cost,
         verifier_recipe_id |-> conf.verifier_mapping[rule.task_type]]

\* generate, and what plan_route raises before there is a plan
GenerationErrors(conf, task_type) ==
    (UNION {ResolutionErrors(conf, rule) : rule \in MatchingRules(conf, task_type)})
    \cup {e \in {"no_candidates", "no_verifier"} :
            \/ e = "no_candidates" /\ MatchingRules(conf, task_type) = {}
            \/ e = "no_verifier" /\ conf.verifier_mapping[task_type] = None}

\* (priority, backend_id, route_candidate_id)
BaselineBefore(c, d) ==
    \/ c.priority < d.priority
    \/ /\ c.priority = d.priority
       /\ \/ c.backend_id < d.backend_id
          \/ c.backend_id = d.backend_id /\ c.id < d.id

\* The plan that normalize returns; classify keeps the level of the unit.
BaselinePlan(conf, work) ==
    LET candidates == {Candidate(conf, r) : r \in MatchingRules(conf, work.task_type)}
    IN  [task_type |-> work.task_type,
         task_level |-> work.task_level,
         candidates |-> candidates,
         selected |-> First(candidates, BaselineBefore).id,
         verifier_recipe_id |-> conf.verifier_mapping[work.task_type]]

\* _selected_candidate
Selected(plan) == CHOOSE c \in plan.candidates : c.id = plan.selected

-----------------------------------------------------------------------------
(* RoutePlanValidator *)

\* validate; the ids of conf.proxies hold a fragment that _scan refuses.
ValidationErrors(conf, plan) ==
    {e \in {"verifier", "selected_unknown", "backend_unknown", "class_mismatch",
            "forbidden_class", "worker_direct_api", "forbidden_shape"} :
       \/ /\ e = "verifier"
          /\ plan.task_level \in {"L1", "L2", "L3"}
          /\ \/ plan.verifier_recipe_id = None
             \/ plan.verifier_recipe_id # conf.verifier_mapping[plan.task_type]
             \/ \E c \in plan.candidates : c.verifier_recipe_id = None
       \/ e = "selected_unknown" /\ plan.selected \notin {c.id : c \in plan.candidates}
       \/ \E c \in plan.candidates :
             \/ e = "backend_unknown" /\ c.backend_id \notin DOMAIN conf.backends
             \/ /\ e = "class_mismatch"
                /\ c.backend_id \in DOMAIN conf.backends
                /\ c.backend_class # conf.backends[c.backend_id].class
             \/ e = "forbidden_class" /\ c.backend_class \in conf.routebook_forbidden
             \/ /\ e = "worker_direct_api"
                /\ c.backend_class \in GatewayClasses
                /\ c.worker_id # Gateway
             \/ e = "forbidden_shape" /\ c.backend_id \in conf.proxies}

=============================================================================
