----------------------------- MODULE MCDecisions -----------------------------
(***************************************************************************)
(* Model-checking instance of Decisions: a configuration like the one the  *)
(* repository ships, the ways in which one of its files may differ from    *)
(* it, the requests of hosts and the envelopes of workers.                 *)
(***************************************************************************)
EXTENDS Decisions

-----------------------------------------------------------------------------
(* Configurations *)

Backend(class, task, location) ==
    [class |-> class, tasks |-> {task}, location |-> location,
     cost |-> IF class \in GatewayClasses THEN 1000 ELSE 0,
     privacy |-> {"private"}, health |-> "unknown", latency |-> None]

\* 7 is a second browser for web pages, 6 the fallback for claims.
Backends ==
    << Backend("local_tool", "url_check", "local_machine"),
       Backend("local_script", "dedup", "local_machine"),
       Backend("browser_fetch", "webpage_extraction", "local_machine"),
       Backend("api_model_gateway", "topic_classification", "mac_control_plane"),
       Backend("api_model_gateway", "claim_extraction", "mac_control_plane"),
       Backend("primary_model_gateway", "claim_extraction", "mac_control_plane"),
       [Backend("browser_fetch", "webpage_extraction", "windows_worker")
           EXCEPT !.cost = 500, !.privacy = {"private", "sensitive"}] >>

Rule(b) ==
    [id |-> b, task_type |-> CHOOSE t \in Backends[b].tasks : TRUE, backend_id |-> b,
     backend_class |-> Backends[b].class, worker_id |-> None,
     priority |-> IF b \in {6, 7} THEN 2 ELSE 1]

LocalClasses == {"local_tool", "local_script", "browser_fetch"}
Forbidden == {"account_pool", "oauth_proxy"}

Base ==
    [backends |-> Backends,
     prices |-> [b \in 1 .. 7 |-> IF b \in 4 .. 6 THEN [input |-> 1, output |-> 2]
                                  ELSE [input |-> 0, output |-> 0]],
     priced |-> 4 .. 6,
     workers |-> [w \in {1, 2, Gateway} |->
                    CASE w = 1 -> [backend_ids |-> 1 .. 3, backend_classes |-> LocalClasses]
                      [] w = 2 -> [backend_ids |-> {3, 7}, backend_classes |-> LocalClasses]
                      [] OTHER -> [backend_ids |-> 4 .. 6, backend_classes |-> GatewayClasses]],
     rules |-> {Rule(b) : b \in 1 .. 7},
     verifier_mapping |-> [t \in SupportedTasks |-> t],
     recipes |-> SupportedTasks,
     task_types |-> SupportedTasks,
     allowed_ids |-> 1 .. 7,
     allowed_classes |-> LocalClasses \cup GatewayClasses,
     forbidden |-> Forbidden,
     routebook_forbidden |-> Forbidden,
     api_classes |-> GatewayClasses,
     proxies |-> {},
     scored |-> TRUE,
     runtime |-> [mode |-> "demo", backend_classes |-> LocalClasses \cup GatewayClasses,
                  rules |-> {Rule(b) : b \in 1 .. 5}, recipes |-> SupportedTasks,
                  task_types |-> SupportedTasks],
     nodes |-> ({[source |-> "worker_manifest", ref |-> w, current |-> TRUE] :
                    w \in {1, 2, Gateway}}
                \cup {[source |-> "backend_manifest", ref |-> b, current |-> TRUE] :
                    b \in 1 .. 7}),
     forbidden_keys |-> FALSE]

\* The base with a change to the rule of backend b.
RuleEdit(b, rule) == [Base EXCEPT !.rules = (@ \ {Rule(b)}) \cup {rule}]

TopicChoice ==
    [Base EXCEPT !.backends[6].tasks = @ \cup {"topic_classification"},
                 !.rules = @ \cup {[Rule(6) EXCEPT !.id = 10,
                                      !.task_type = "topic_classification"]}]

\* A second script, and a third worker for it and for the first tool
Grown ==
    [Base EXCEPT !.backends = Append(@, Backends[2]),
                 !.prices = [b \in 1 .. 8 |-> @[IF b = 8 THEN 2 ELSE b]],
                 !.workers = [w \in {1, 2, 3, Gateway} |->
                                IF w # 3 THEN @[w]
                                ELSE [backend_ids |-> {1, 8}, backend_classes |-> LocalClasses]],
                 !.allowed_ids = 1 .. 8,
                 !.rules = {IF rule.id = 1 THEN [rule EXCEPT !.worker_id = 3]
                            ELSE IF rule.id = 2 THEN [rule EXCEPT !.backend_id = 8]
                            ELSE rule : rule \in @}]

\* One name for each way in which a configuration differs from the base.
MCConfig ==
    [base |-> Base,
     unscored |-> [Base EXCEPT !.scored = FALSE],
     \* backends: health, latency, cost, privacy, location, tasks
     browser_down |-> [Base EXCEPT !.backends[3].health = "unhealthy"],
     browser_degraded |-> [Base EXCEPT !.backends[3].health = "degraded",
                                       !.backends[7].latency = 300],
     browser_dear |-> [Base EXCEPT !.backends[3].cost = 200000, !.backends[7].latency = 5000],
     all_down |-> [Base EXCEPT !.backends[3].health = "unhealthy",
                               !.backends[7].health = "unhealthy"],
     claims_sensitive |-> [Base EXCEPT !.backends[6].privacy = {"private", "sensitive"},
                                       !.backends[6].cost = 20000],
     misplaced |-> [Base EXCEPT !.backends[1].location = "mac_control_plane"],
     many_tasks |-> [Base EXCEPT !.backends[1].tasks = {"url_check", "webpage_extraction"},
                                 !.backends[2].tasks = {"dedup", "claim_extraction"},
                                 !.rules = @ \cup {[Rule(1) EXCEPT !.id = 8,
                                                      !.task_type = "webpage_extraction"],
                                                   [Rule(2) EXCEPT !.id = 9,
                                                      !.task_type = "claim_extraction"]}],
     \* a second model for topics, and the first one down
     topic_choice |-> TopicChoice,
     topic_down |-> [TopicChoice EXCEPT !.backends[4].health = "unhealthy"],
     local_claims |-> [Base EXCEPT !.rules = {[Rule(2) EXCEPT !.task_type = "claim_extraction"],
                                              [Rule(1) EXCEPT
                                                 !.task_type = "topic_classification"]}],
     \* the allow-lists and forbidden classes
     no_ids |-> [Base EXCEPT !.allowed_ids = {}],
     no_classes |-> [Base EXCEPT !.allowed_classes = {}],
     fewer_ids |-> [Base EXCEPT !.allowed_ids = 1 .. 6],
     fewer_classes |-> [Base EXCEPT !.allowed_classes = LocalClasses],
     policy_forbids |-> [Base EXCEPT !.forbidden = @ \cup {"primary_model_gateway"},
                                     !.backends[5].health = "unhealthy"],
     routebook_forbids |-> [Base EXCEPT !.routebook_forbidden = @ \cup {"local_tool"}],
     proxy |-> [Base EXCEPT !.proxies = {2}],
     \* rules and verifiers of the routebook
     by_class |-> RuleEdit(1, [Rule(1) EXCEPT !.backend_id = None]),
     wrong_class |-> RuleEdit(1, [Rule(1) EXCEPT !.backend_class = "local_script"]),
     unknown_backend |-> RuleEdit(2, [Rule(2) EXCEPT !.backend_id = 12]),
     model_backend |-> [RuleEdit(7, [Rule(7) EXCEPT !.backend_class = "local_model"]) EXCEPT
                           !.backends[7].class = "local_model",
                           !.allowed_classes = @ \cup {"local_model"},
                           !.workers[2].backend_classes = @ \cup {"local_model"}],
     unable_worker |-> RuleEdit(1, [Rule(1) EXCEPT !.worker_id = 2]),
     unknown_worker |-> RuleEdit(3, [Rule(3) EXCEPT !.worker_id = 5]),
     at_gateway |-> [RuleEdit(2, [Rule(2) EXCEPT !.worker_id = Gateway]) EXCEPT
                        !.workers[Gateway].backend_ids = 2 .. 6,
                        !.workers[Gateway].backend_classes = @ \cup {"local_script"}],
     grown |-> Grown,
     no_rule |-> [Base EXCEPT !.rules = @ \ {Rule(4)}],
     no_verifier |-> [Base EXCEPT !.verifier_mapping["claim_extraction"] = None],
     unknown_recipe |-> [Base EXCEPT !.recipes = @ \ {"dedup"}, !.task_types = @ \ {"dedup"}],
     \* what only the validator of the server looks at
     runtime_stale |-> [Base EXCEPT !.runtime.mode = "live",
                                    !.runtime.recipes = @ \ {"dedup"}],
     unpriced |-> [Base EXCEPT !.priced = {4}, !.allowed_ids = @ \cup {12}],
     node_missing |-> [Base EXCEPT !.nodes = {n \in @ : n.ref # 7} ],
     node_stale |-> [Base EXCEPT !.nodes = {[n EXCEPT !.current = FALSE] : n \in @},
                                 !.forbidden_keys = TRUE],
     gateway_elsewhere |-> [Base EXCEPT !.workers[1].backend_ids = {1, 2, 3, 4, 12}]]

MCEdits == {"base", "fewer_classes", "grown"}

\* Bounds: edits are made under a server with one of a few configurations, and
\* what a worker makes up, which no file has a say in, is returned under one.
DecisionsBound ==
    /\ edited /\ loaded # None =>
          loaded \in MCEdits \cup {"fewer_ids", "no_ids", "no_classes", "policy_forbids"}
    /\ result # None => result.own \/ disk = "base"

-----------------------------------------------------------------------------
(* Requests *)

MCTexts ==
    {"", "plain", "code", "long", "email", "sk_key", "gh_token", "tbk_token", "http", "ftp",
     "private_host", "injection", "acme", "travel", "rumour", "deep_item", "float_micros",
     "brink", "page", "post", "scan_field", "credential_field", "TokenBank", "src_claim_1"}
    \cup ToSet(DefaultTopicLabels) \cup ToSet(DefaultClaimTypes)

Object(task, fields) ==
    [task_type |-> None, payload |-> [kind |-> "object", task_type |-> task,
                                      fields |-> fields, inline_input |-> None,
                                      input |-> None]]

\* with fields nested under "inline_input" and under "input"
Nested(task, fields, inline, input) ==
    [Object(task, fields) EXCEPT !.payload.inline_input = inline, !.payload.input = input]

Array(task, items) ==
    [Object(None, [items |-> items]) EXCEPT !.task_type = task, !.payload.kind = "array"]

MCRequests ==
    {Object("url_check", [url |-> u]) : u \in {"http", "ftp", "private_host", "", Malformed}}
    \cup {Object("url_check", [url |-> "http", note |-> "plain"]),
          Object("url_check", [url |-> "http", credential |-> "plain"]),
          Object("url_check", [url |-> "http", prompt |-> "plain"]),
          Object("chat_completion", [prompt |-> "plain"]),
          Object("url_check", << >>)}
    \cup {Object("dedup", [items |-> items]) :
             items \in {<< >>, << "plain", "code", "plain" >>, << "email", "email" >>,
                        << "gh_token" >>, << "tbk_token" >>, << "deep_item", "long" >>,
                        << "float_micros" >>, << "scan_field" >>, << "credential_field" >>}}
    \cup {Array("dedup", << "plain", "plain" >>), Array("url_check", << "plain" >>),
          [Object(None, << >>) EXCEPT !.payload.kind = "none"],
          [Object("url_check", [url |-> "http", items |-> << "plain" >>]) EXCEPT
              !.task_type = "dedup"]}
    \cup {Object("webpage_extraction", fields) :
             fields \in {[url |-> "http", text |-> "email"],
                         [url |-> "http", html |-> "", text |-> "injection"],
                         [url |-> "http", html |-> Malformed, title |-> "tbk_token"],
                         [url |-> "http", html |-> "long"],
                         [url |-> "private_host", text |-> "plain"]}}
    \cup {Object("topic_classification", fields) :
             fields \in {[text |-> "code"], [text |-> "email"], [text |-> "sk_key"],
                         [text |-> "plain", allowed_labels |-> << "travel" >>],
                         [text |-> "plain", allowed_labels |-> << >>],
                         [text |-> "brink"], [text |-> "page"], [text |-> "long"],
                         [text |-> "plain", allowed_labels |-> << "plain", "" >>],
                         [text |-> "plain", allowed_labels |-> Blank],
                         [text |-> "plain", allowed_labels |-> Malformed]}}
    \cup {Object("claim_extraction", fields) :
             fields \in {[text |-> "plain"], [text |-> "email", entity |-> "acme"],
                         [text |-> "tbk_token"], [text |-> ""],
                         [text |-> "code", allowed_claim_types |-> << "policy", "rumour" >>],
                         [text |-> "plain", entity |-> "email"],
                         [text |-> "plain", entity |-> None, source_id |-> "post"],
                         [text |-> "plain", source_id |-> "", entity |-> Malformed]}}
    \cup {Nested("claim_extraction", [text |-> "plain"], None, [entity |-> "acme"]),
          Nested("claim_extraction", [text |-> "plain", entity |-> None],
                 [entity |-> "acme", allowed_claim_types |-> << "policy" >>], None),
          Nested("claim_extraction", << >>, [text |-> "code", entity |-> ""], None),
          Nested("claim_extraction", << >>, [text |-> "plain", source_id |-> "post"],
                 [credential |-> "plain"]),
          Nested("webpage_extraction", [url |-> "http", html |-> ""],
                 [html |-> "plain", title |-> "plain"], None),
          Nested("webpage_extraction", [url |-> "http", html |-> "plain"],
                 [url |-> "ftp", html |-> "injection"], [text |-> "plain"]),
          Nested("webpage_extraction", << >>, None, [url |-> "http", text |-> "plain"]),
          Nested("dedup", [items |-> << >>], [items |-> << "plain", "plain" >>], None),
          Nested("dedup", << >>, [items |-> << >>], None),
          Nested("dedup", << >>, None, [items |-> << "credential_field" >>]),
          Nested("topic_classification", [allowed_labels |-> << >>],
                 [text |-> "plain", allowed_labels |-> << "travel" >>], None),
          Nested("topic_classification", [text |-> "code"], None,
                 [allowed_labels |-> << "travel" >>])}

-----------------------------------------------------------------------------
(* What workers return *)

Fine == Envelope("succeeded", << >>, 100, "estimated")

Paid(records, actual) ==
    [Fine EXCEPT !.actual_cost_micros = actual, !.usage_records = records]

Record(estimated, actual, units, source) ==
    [estimated_cost_micros |-> estimated, actual_cost_micros |-> actual,
     input_units |-> units, output_units |-> 1, cost_source |-> source]

\* envelopes around an output: sound, with a wrong hash, and with odd bills
Around(outputs) ==
    {[Fine EXCEPT !.output = o] : o \in outputs}
    \cup {[Fine EXCEPT !.output = o, !.output_hash_valid = FALSE] : o \in outputs}

Bills(output) ==
    {[Paid(records, actual) EXCEPT !.output = output, !.result_hash_valid = FALSE] :
        records \in {<< >>, << Record(5, -3, -2, "measured") >>,
                     << Record(70, 0, 4, "estimated"), Record(40, 600, 4, "estimated") >>},
        actual \in {-1, 0, 500}}

Claim == [claim_text |-> "plain", entity |-> "acme", claim_type |-> "factual",
          confidence |-> 80, source_post_refs |-> << "src_claim_1" >>,
          evidence_hint |-> "plain"]

\* the claim without some of its fields and with others
ClaimWith(without, fields) ==
    [k \in (DOMAIN Claim \ without) \cup DOMAIN fields |->
        IF k \in DOMAIN fields THEN fields[k] ELSE Claim[k]]

ClaimOutput(claims) == [claims |-> claims]

MCReturned ==
    [url_check |->
        Around({[ok |-> TRUE, status_code |-> 204], [ok |-> TRUE, status_code |-> 404],
                [ok |-> TRUE, status_code |-> 500], [ok |-> FALSE, timed_out |-> TRUE],
                [ok |-> TRUE, private_ip_denied |-> TRUE],
                [ok |-> TRUE, redirect_denied |-> TRUE, final_url |-> "http"],
                [ok |-> TRUE, url |-> "sk_key"], [ok |-> TRUE, status_code |-> None],
                [ok |-> Malformed, timed_out |-> Malformed],
                [ok |-> TRUE, timed_out |-> Blank], << >>})
        \cup Bills([ok |-> TRUE])
        \cup {[Fine EXCEPT !.output = [ok |-> TRUE], !.redacted_logs = {"tbk_token"}]},
     dedup |->
        Around({[unique_items |-> << "plain" >>, duplicate_count |-> 0],
                [unique_items |-> << "plain" >>, duplicate_count |-> -1],
                [unique_items |-> << "tbk_token" >>, duplicate_count |-> Malformed],
                [unique_items |-> Malformed, duplicate_count |-> 1],
                [unique_items |-> << >>, duplicate_count |-> 0, overmerge_detected |-> TRUE]}),
     webpage_extraction |->
        Around({[extracted |-> {"plain"}], [extracted |-> {}], [extracted |-> Malformed],
                [extracted |-> {"sk_key"}, prompt_injection_detected |-> TRUE],
                [extracted |-> {"plain"}, prompt_injection_detected |-> TRUE],
                [extracted |-> {"plain"}, prompt_injection_detected |-> Malformed]}),
     topic_classification |->
        Around({[label |-> "policy", confidence |-> 90, allowed_labels |-> << "policy" >>],
                [label |-> "policy", confidence |-> 60],
                [label |-> "policy", confidence |-> 120],
                [label |-> "policy", confidence |-> 90,
                 allowed_labels |-> << "policy", Malformed >>],
                [label |-> "travel", confidence |-> Malformed,
                 allowed_labels |-> << "policy" >>]}),
     claim_extraction |->
        Around({ClaimOutput(<< >>), ClaimOutput(Malformed), ClaimOutput(<< Claim >>),
                ClaimOutput(<< Claim, Malformed >>),
                [claims |-> << [Claim EXCEPT !.source_post_refs = << >>] >>,
                 source_ids |-> << "post" >>, allowed_claim_types |-> << "policy" >>],
                [claims |-> << [Claim EXCEPT !.source_post_refs = << "", "post" >>] >>,
                 source_ids |-> << "post", "" >>]}
               \cup {ClaimOutput(<< claim >>) : claim \in
                {ClaimWith({}, [claim_text |-> ""]), ClaimWith({}, [claim_text |-> Malformed]),
                 ClaimWith({"claim_text"}, [text |-> "plain"]),
                 ClaimWith({}, [claim_text |-> Blank, text |-> "plain"]),
                 ClaimWith({}, [claim_type |-> "rumour"]), ClaimWith({}, [confidence |-> 101]),
                 ClaimWith({}, [entity |-> "sk_key"]), ClaimWith({}, [entity |-> Malformed]),
                 ClaimWith({}, [evidence_hint |-> Malformed]),
                 ClaimWith({}, [evidence_hint |-> "tbk_token"]),
                 ClaimWith({}, [source_post_refs |-> << "elsewhere" >>]),
                 ClaimWith({}, [source_post_refs |-> << "src_claim_1", Malformed >>]),
                 ClaimWith({"source_post_refs"}, [source_ref |-> "src_claim_1"]),
                 ClaimWith({}, [source_post_refs |-> << "" >>, source_ref |-> "sk_key"])}})]

=============================================================================
