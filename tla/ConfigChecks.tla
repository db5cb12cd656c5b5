----------------------------- MODULE ConfigChecks -----------------------------
(***************************************************************************)
(* The two validators of a configuration:                                  *)
(* src/tokenbank/config_runtime/validator.py, which the server runs before *)
(* it starts, and src/tokenbank/routebook/validator.py, a command.  The    *)
(* first one looks at the copy of the routebook in runtime.yaml, the       *)
(* second at the routebook that the router reads.                          *)
(***************************************************************************)
EXTENDS Policy

BackendClassesOf(conf) == {conf.backends[b].class : b \in DOMAIN conf.backends}

\* _validate_runtime_mode, _validate_routebook_and_backend_registry
RegistryIssues(conf) ==
    LET ids == DOMAIN conf.backends
        runtime == conf.runtime
    IN  {i \in {"runtime_mode", "backend_class_missing", "rule_backend_class_missing",
                "forbidden_backend_class", "rule_backend_id_missing",
                "verifier_recipe_missing", "execution_location_invalid",
                "backend_id_not_allowed", "api_backend_unpriced",
                "allowed_backend_missing", "recipe_task_type_unknown"} :
           \/ i = "runtime_mode" /\ runtime.mode \notin {"demo", "internal_secure", "alpha"}
           \/ /\ i = "backend_class_missing"
              /\ ~ runtime.backend_classes \subseteq BackendClassesOf(conf)
           \/ \E rule \in runtime.rules :
                 \/ /\ i = "rule_backend_class_missing"
                    /\ rule.backend_class \notin BackendClassesOf(conf)
                 \/ i = "forbidden_backend_class" /\ rule.backend_class \in conf.forbidden
                 \/ i = "rule_backend_id_missing" /\ rule.backend_id \notin ids
                 \/ /\ i = "verifier_recipe_missing"
                    /\ rule.task_type \notin runtime.recipes
           \/ \E b \in ids :
                 \/ i = "execution_location_invalid" /\ ~ LocationValid(conf.backends[b])
                 \/ /\ i = "backend_id_not_allowed"
                    /\ conf.allowed_ids # {}
                    /\ b \notin conf.allowed_ids
                 \/ /\ i = "api_backend_unpriced"
                    /\ conf.backends[b].class \in conf.api_classes
                    /\ b \notin conf.priced
           \/ i = "allowed_backend_missing" /\ ~ conf.allowed_ids \subseteq ids
           \/ i = "recipe_task_type_unknown" /\ ~ runtime.recipes \subseteq runtime.task_types}

\* _validate_capacity_registry: a node is [source, ref, current], where
\* `current' says that its manifest hash is that of the manifest
NodeIssues(conf) ==
    LET expected == ({"worker_manifest"} \X DOMAIN conf.workers)
                    \cup ({"backend_manifest"} \X DOMAIN conf.backends)
        declared == {<< n.source, n.ref >> : n \in conf.nodes}
    IN  {i \in {"projection_missing", "projection_extra", "worker_backend_missing",
                "api_backend_direct_denied", "manifest_hash_mismatch"} :
           \/ i = "projection_missing" /\ ~ expected \subseteq declared
           \/ i = "projection_extra" /\ ~ declared \subseteq expected
           \/ \E w \in DOMAIN conf.workers : \E b \in conf.workers[w].backend_ids :
                 \/ i = "worker_backend_missing" /\ b \notin DOMAIN conf.backends
                 \/ /\ i = "api_backend_direct_denied"
                    /\ b \in DOMAIN conf.backends
                    /\ conf.backends[b].class \in GatewayClasses
                    /\ w # Gateway
           \/ i = "manifest_hash_mismatch" /\ \E n \in conf.nodes : ~ n.current}

\* validate_loaded_config; _validate_policy_shape, where a list of the policy
\* that is no list (invalid_shape) does not occur: conf has sets.
ConfigIssues(conf) ==
    RegistryIssues(conf) \cup NodeIssues(conf)
    \cup {i \in {"extensions_forbidden_key"} : conf.forbidden_keys}

RoutebookIssues_AnyVerifier(conf) ==
    {i \in {"backend_id_unknown"} :
        \E rule \in conf.rules : rule.backend_id \notin DOMAIN conf.backends}

\* validate_routebook
RoutebookIssues(conf) ==
    {i \in {"p0_task_missing", "verifier_missing", "verifier_recipe_unknown",
            "verifier_task_missing", "rule_task_unknown", "backend_class_unknown",
            "backend_id_unknown"} :
       \/ i = "p0_task_missing" /\ ~ SupportedTasks \subseteq conf.task_types
       \/ \E t \in SupportedTasks :
             \/ i = "verifier_missing" /\ conf.verifier_mapping[t] = None
             \/ /\ i = "verifier_recipe_unknown"
                /\ conf.verifier_mapping[t] \notin conf.recipes \cup {None}
             \/ i = "verifier_task_missing" /\ t \notin conf.recipes
       \/ \E rule \in conf.rules :
             \/ i = "rule_task_unknown" /\ rule.task_type \notin conf.task_types
             \/ i = "backend_class_unknown" /\ rule.backend_class \notin BackendClassesOf(conf)
             \/ i = "backend_id_unknown" /\ rule.backend_id \notin DOMAIN conf.backends}

=============================================================================
