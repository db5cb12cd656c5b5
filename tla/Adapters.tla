------------------------------- MODULE Adapters -------------------------------
(***************************************************************************)
(* What the backends make of a work unit (src/tokenbank/backends/          *)
(* adapter.py, local_tool.py, local_script.py, browser_fetch.py,           *)
(* local_model.py, api_model_gateway.py, primary_model_gateway.py) and     *)
(* which of them a worker may run (src/tokenbank/worker/executor.py).      *)
(*                                                                         *)
(* An output holds the fields that the verifier reads.  No execution       *)
(* context is ever given a provider token, so a gateway has no credential. *)
(***************************************************************************)
EXTENDS Policy, SequencesExt

\* build_result_envelope: the hashes are those of what it holds; the logs of
\* the adapters are sentences of their own
Envelope(status, output, estimated, cost_source) ==
    [status |-> status, output |-> output, output_hash_valid |-> TRUE,
     result_hash_valid |-> TRUE, backend_error |-> status = "failed", redacted_logs |-> {},
     cost_estimate_micros |-> estimated, actual_cost_micros |-> 0,
     usage_records |-> << [estimated_cost_micros |-> estimated, actual_cost_micros |-> 0,
                           input_units |-> 0, output_units |-> 0,
                           cost_source |-> cost_source] >>]

LocalEnvelope(status, output) == Envelope(status, output, 0, "zero_internal_phase0")
GatewayEnvelope(status, output) == Envelope(status, output, 1000, "estimated")
Failure == [ok |-> FALSE]

-----------------------------------------------------------------------------
(* The adapters *)

\* LocalToolAdapter.execute, _is_http_url
LocalTool(inline) ==
    IF Field(inline, "url") \in {"http", "private_host"}
    THEN LocalEnvelope("succeeded", [ok |-> TRUE, tool |-> "url_check", url |-> inline.url])
    ELSE LocalEnvelope("failed", Failure)

\* the loop of LocalScriptAdapter.execute: the first of each
Unique(items) ==
    FoldLeft(LAMBDA seen, item : IF Contains(seen, item) THEN seen ELSE Append(seen, item),
             << >>, items)

LocalScript_NoCount(inline) ==
    LET items == IF "items" \in DOMAIN inline THEN inline.items ELSE << >>
    IN  LocalEnvelope("succeeded", [ok |-> TRUE, tool |-> "dedup",
                      unique_items |-> items, duplicate_count |-> Malformed])

\* LocalScriptAdapter.execute; the assignment of the host names no script
LocalScript(inline) ==
    LET items == IF "items" \in DOMAIN inline THEN inline.items ELSE << >>
    IN  LocalEnvelope("succeeded",
                      [ok |-> TRUE, tool |-> "dedup", unique_items |-> Unique(items),
                       duplicate_count |-> Len(items) - Len(Unique(items))])

\* BrowserFetchAdapter.execute, _policy_error, _extract_webpage_payload: the
\* preview of the page, and whether the source has an injection marker
BrowserFetch(inline) ==
    LET source == IF "html" \in DOMAIN inline THEN inline.html ELSE Field(inline, "text")
        shown == IF source = "" THEN Field(inline, "text") ELSE source
    IN  IF Field(inline, "url") # "http" THEN LocalEnvelope("failed", Failure)
        ELSE LocalEnvelope("succeeded",
                [ok |-> TRUE, tool |-> "webpage_extraction",
                 extracted |-> {inline.url, shown, Field(inline, "title")} \ {None, ""},
                 prompt_injection_detected |-> source = "injection"])

\* _classify_topic_stub; "code" is a text with a keyword of engineering
Topic(inline) ==
    LET given == Field(inline, "allowed_labels")
        labels == IF given \in {None, << >>} THEN DefaultTopicLabels ELSE given
        hit == inline.text = "code" /\ Contains(labels, "engineering")
    IN  [ok |-> TRUE, label |-> IF hit THEN "engineering" ELSE labels[1],
         confidence |-> IF hit THEN 88 ELSE 72, allowed_labels |-> labels]

\* _allowed_claim_types: the known ones of those that are given
KnownClaimTypes(given) ==
    FoldLeft(LAMBDA known, t :
                IF Contains(DefaultClaimTypes, t) THEN Append(known, t) ELSE known,
             << >>, given)

\* _extract_claims_stub; "code" is a text with a keyword of product
Claims(inline) ==
    LET known == IF Field(inline, "allowed_claim_types") = None THEN << >>
                 ELSE KnownClaimTypes(inline.allowed_claim_types)
        types == IF known = << >> THEN DefaultClaimTypes ELSE known
        preferred == IF inline.text = "code" THEN "product" ELSE "factual"
        source == IF "source_id" \in DOMAIN inline THEN inline.source_id ELSE "src_claim_1"
    IN  [ok |-> TRUE,
         claims |-> << [claim_text |-> inline.text,
                        entity |-> IF Field(inline, "entity") \in {None, ""} THEN "TokenBank"
                                   ELSE inline.entity,
                        claim_type |-> IF Contains(types, preferred) THEN preferred
                                       ELSE types[1],
                        confidence |-> 86,
                        source_post_refs |-> << source >>,
                        evidence_hint |-> inline.text] >>,
         source_ids |-> << source >>,
         allowed_claim_types |-> types]

\* APIModelGatewayAdapter.execute, _control_plane_boundary_error
ApiModelGateway(task_type, inline, worker) ==
    CASE worker = Gateway /\ task_type = "topic_classification" ->
            GatewayEnvelope("succeeded", Topic(inline))
      [] worker = Gateway /\ task_type = "claim_extraction" ->
            GatewayEnvelope("succeeded", Claims(inline))
      [] OTHER -> GatewayEnvelope("failed", Failure)

\* PrimaryModelGatewayAdapter.execute: outside the control plane it is
\* refused, and inside it has no provider
PrimaryModelGateway == GatewayEnvelope("failed", Failure)

\* UnsupportedBackendAdapter.execute, LocalModelAdapter.execute
UnsupportedBackend == LocalEnvelope("failed", Failure)

-----------------------------------------------------------------------------
(* Who runs them *)

\* _is_forbidden_backend of the worker's executor, and the classes that the
\* control plane's run-once supports
MayRun(worker, class) == (worker = Gateway) <=> (class \in GatewayClasses)

\* adapter_for_backend_class(...).execute(...)
Executed(class, work, worker) ==
    CASE class = "local_tool" -> LocalTool(work.inline)
      [] class = "local_script" -> LocalScript(work.inline)
      [] class = "browser_fetch" -> BrowserFetch(work.inline)
      [] class = "api_model_gateway" -> ApiModelGateway(work.task_type, work.inline, worker)
      [] class = "primary_model_gateway" -> PrimaryModelGateway
      [] OTHER -> UnsupportedBackend

=============================================================================
