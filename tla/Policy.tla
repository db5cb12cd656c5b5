-------------------------------- MODULE Policy --------------------------------
(***************************************************************************)
(* What is let in, and what is let through: the host adapter's ingress     *)
(* (src/tokenbank/host_adapter/normalizer.py) and the policy checks on a   *)
(* planned work unit (src/tokenbank/policy/checks.py, bundle.py).          *)
(*                                                                         *)
(* A request is [task_type, payload]; a payload is [kind, task_type,       *)
(* fields, inline_input, input]: a JSON object with its top-level fields   *)
(* and the objects nested under those two names (None if there is none),   *)
(* an array (then fields holds its items under "items") or nothing.  Texts *)
(* are names, of which only what the scans of the program find in them is  *)
(* known.  Malformed and Blank are values of another type than the field's,*)
(* the one true and the other false to Python; a JSON null is None.        *)
(***************************************************************************)
EXTENDS RouteScoring, Sequences

CONSTANTS Malformed, Blank

SupportedTasks == DOMAIN TaskDefaults

DefaultTopicLabels == << "engineering", "finance", "policy", "science", "general" >>
DefaultClaimTypes == << "factual", "metric", "policy", "product", "other" >>

-----------------------------------------------------------------------------
(* What the scans find in a text or in an item *)

Length(v) ==
    CASE v = "" -> 0
      [] v = "page" -> 19900
      [] v = "brink" -> 63500
      [] v = "long" -> 130000
      [] OTHER -> 40

\* the patterns of privacy_preflight.py
SignalsOf(v) ==
    CASE v \in {"sk_key", "gh_token"} -> {"raw_secret"}
      [] v = "email" -> {"private_data"}
      [] v = "scan_field" -> {"workspace_scan"}
      [] OTHER -> {}

\* the patterns of the verifier's secret_redaction check
LooksSecret(v) == v \in {"sk_key", "tbk_token"}

-----------------------------------------------------------------------------
(* normalize_submit_request *)

Field(fields, key) == IF key \in DOMAIN fields THEN fields[key] ELSE None

\* _normalized_task_type
TaskTypeOf(request) ==
    IF request.task_type # None THEN request.task_type
    ELSE IF request.payload.kind = "object" THEN request.payload.task_type
    ELSE None

\* what is of the type of its field, and what of that is more than nothing
Usable(v) == v \notin {None, Malformed, Blank}
Lists == {"items", "allowed_labels", "allowed_claim_types"}
IsTrue(key, v) == v \notin {None, Blank} /\ v # (IF key \in Lists THEN << >> ELSE "")
NonEmpty(fields, key) == Usable(fields[key]) /\ IsTrue(key, fields[key])

\* the object that the adapter looks under the top level of, if any
NestedFields(payload) ==
    IF payload.inline_input # None THEN payload.inline_input
    ELSE IF payload.input # None THEN payload.input ELSE << >>

PayloadFields_NestedWins(request) ==
    LET payload == request.payload
        nested == NestedFields(payload)
    IN  IF payload.kind = "object"
        THEN [k \in DOMAIN nested \cup DOMAIN payload.fields |->
                IF k \in DOMAIN nested THEN nested[k] ELSE payload.fields[k]]
        ELSE IF payload.kind = "array" /\ TaskTypeOf(request) = "dedup" THEN payload.fields
        ELSE << >>

\* _coerce_payload_dict: the nested fields and the top-level ones, which
\* win; a bare array is a payload only for dedup
PayloadFields(request) ==
    LET payload == request.payload
        nested == NestedFields(payload)
    IN  IF payload.kind = "object"
        THEN [k \in DOMAIN nested \cup DOMAIN payload.fields |->
                IF k \in DOMAIN payload.fields THEN payload.fields[k] ELSE nested[k]]
        ELSE IF payload.kind = "array" /\ TaskTypeOf(request) = "dedup" THEN payload.fields
        ELSE << >>

\* _required_string, _optional_string, _optional_string_list
RequiredMissing(v) == ~ Usable(v) \/ v = ""
OptionalInvalid(v) == v \in {"", Malformed, Blank}
StringsInvalid(v) == v \in {Malformed, Blank} \/ (v # None /\ \E i \in DOMAIN v : v[i] = "")

\* reject_forbidden_host_input: the field "credential" stands for any key
\* that it refuses, and "credential_field" for an item that holds one
HasCredential(fields) ==
    \/ "credential" \in DOMAIN fields
    \/ /\ Usable(Field(fields, "items"))
       /\ \E i \in DOMAIN fields.items : fields.items[i] = "credential_field"

\* What normalize_submit_request raises; "prompt" stands for any of the keys
\* of a model proxy.  Next to an inline_input, what is nested under "input"
\* is a field like any other: it is only searched for credentials.
IngressErrors(request) ==
    LET task == TaskTypeOf(request)
        fields == PayloadFields(request)
        payload == request.payload
    IN  IF task \notin SupportedTasks THEN {"task_type"}
        ELSE {e \in {"credential", "model_proxy", "url", "items", "text", "optional"} :
                \/ /\ e = "credential"
                   /\ \/ HasCredential(fields)
                      \/ /\ payload.inline_input # None /\ payload.input # None
                         /\ HasCredential(payload.input)
                \/ e = "model_proxy" /\ "prompt" \in DOMAIN fields
                \/ /\ e = "url" /\ task \in {"url_check", "webpage_extraction"}
                   /\ RequiredMissing(Field(fields, "url"))
                \/ e = "items" /\ task = "dedup" /\ ~ Usable(Field(fields, "items"))
                \/ /\ e = "text" /\ task \in {"topic_classification", "claim_extraction"}
                   /\ RequiredMissing(Field(fields, "text"))
                \/ /\ e = "optional"
                   /\ \/ /\ task = "topic_classification"
                         /\ StringsInvalid(Field(fields, "allowed_labels"))
                      \/ /\ task = "claim_extraction"
                         /\ \/ OptionalInvalid(Field(fields, "source_id"))
                            \/ OptionalInvalid(Field(fields, "entity"))
                            \/ StringsInvalid(Field(fields, "allowed_claim_types"))}

\* The fields that a task type has.  The "sources" of a claim repeat its
\* source_id and its text.
TaskKeys(task_type) ==
    CASE task_type = "url_check" -> {"url"}
      [] task_type = "dedup" -> {"items"}
      [] task_type = "webpage_extraction" -> {"url", "html", "text", "title"}
      [] task_type = "topic_classification" -> {"text", "allowed_labels"}
      [] OTHER -> {"text", "source_id", "entity", "allowed_claim_types"}

\* _normalize_inline_input: the fields of the task, and nothing else
InlineInput(request) ==
    LET fields == PayloadFields(request)
        task == TaskTypeOf(request)
        given == {k \in TaskKeys(task) \cap DOMAIN fields : Usable(fields[k])}
    IN  [k \in given \cup (IF task = "claim_extraction" THEN {"source_id"} ELSE {}) |->
            IF k \in given THEN fields[k] ELSE "src_claim_1"]

-----------------------------------------------------------------------------
(* submit_work_unit of app/routers/host.py, the server's own door *)

\* payload.get(key) or inline_input.get(key); "input" is not looked at
ServerField(payload, key) ==
    LET top == Field(payload.fields, key)
    IN  IF IsTrue(key, top) THEN top
        ELSE IF payload.inline_input = None THEN None
        ELSE Field(payload.inline_input, key)

\* the task type is that of the payload, and neither credentials nor the
\* shape of a model proxy are looked for
ServerErrors(request) ==
    LET task == request.payload.task_type
        field(key) == ServerField(request.payload, key)
    IN  IF request.payload.kind # "object" \/ task \notin SupportedTasks THEN {"task_type"}
        ELSE {e \in {"url", "items", "text", "optional"} :
                \/ /\ e = "url" /\ task \in {"url_check", "webpage_extraction"}
                   /\ RequiredMissing(field("url"))
                \/ e = "items" /\ task = "dedup" /\ ~ Usable(field("items"))
                \/ /\ e = "text" /\ task \in {"topic_classification", "claim_extraction"}
                   /\ RequiredMissing(field("text"))
                \/ /\ e = "optional"
                   /\ \/ /\ task = "topic_classification"
                         /\ StringsInvalid(field("allowed_labels"))
                      \/ /\ task = "claim_extraction"
                         /\ StringsInvalid(field("allowed_claim_types"))}

\* what the server's door makes of the payload
ServerInput(request) ==
    LET payload == request.payload
    IN  [k \in {k \in TaskKeys(payload.task_type) : Usable(ServerField(payload, k))} |->
            ServerField(payload, k)]

-----------------------------------------------------------------------------
(* Work units *)

\* submit_topic_classification_work_unit, submit_claim_extraction_work_unit:
\* `or' takes the default for what is missing or empty
Submitted(task_type, inline) ==
    LET default == CASE task_type = "topic_classification" ->
                          [allowed_labels |-> DefaultTopicLabels]
                     [] task_type = "claim_extraction" ->
                          [allowed_claim_types |-> DefaultClaimTypes,
                           source_id |-> "src_claim_1"]
                     [] OTHER -> << >>
        given == {k \in DOMAIN inline : k \notin DOMAIN default \/ NonEmpty(inline, k)}
    IN  [k \in given \cup DOMAIN default |->
            IF k \in given THEN inline[k] ELSE default[k]]

\* the strings of an inline input: all that scan_privacy looks at
TextsOf(inline) ==
    UNION {IF k \in Lists THEN Range(inline[k]) ELSE {inline[k]} : k \in DOMAIN inline}

\* the length of a field in canonical_json_dumps, with its name and its
\* punctuation
FieldChars(inline, key) ==
    10 + (IF key \in Lists
          THEN SumFunction([i \in DOMAIN inline[key] |-> Length(inline[key][i]) + 3])
          ELSE Length(inline[key]))

\* input_shape_for_work_unit: the length of the whole input, the sources of
\* a claim included
InlineChars(task_type, inline) ==
    SumFunction([k \in DOMAIN inline |-> FieldChars(inline, k)])
    + (IF task_type = "claim_extraction"
       THEN 40 + Length(inline.text) + Length(inline.source_id) ELSE 2)

\* _submit_demo_work_unit: the work unit of an input that is let in, with
\* what TaskAnalyzer measures of it
WorkUnit(task_type, inline) ==
    LET text == IF Field(inline, "text") \in {None, ""} THEN Field(inline, "html")
                ELSE inline.text
    IN  [task_type |-> task_type,
         task_level |-> [url_check |-> "L0", dedup |-> "L1", webpage_extraction |-> "L1",
                         topic_classification |-> "L1",
                         claim_extraction |-> "L2"][task_type],
         privacy_level |-> "private",
         inline |-> inline,
         chars |-> InlineChars(task_type, inline),
         items |-> IF "items" \in DOMAIN inline THEN Len(inline.items) ELSE None,
         text |-> IF text = None THEN None ELSE Length(text),
         depth |-> IF "deep_item" \in TextsOf(inline) THEN 7 ELSE 2,
         signals |-> UNION {SignalsOf(v) : v \in TextsOf(inline)}]

-----------------------------------------------------------------------------
(* evaluate_policy *)

PolicyFailures_NoClass(conf, work, plan) ==
    {f \in {"backend_allowlist"} : Selected(plan).backend_id \notin conf.allowed_ids}

\* The checks that fail for the selected candidate.  The inputs are there,
\* nothing needs review and nothing has extensions on the host's path.
PolicyFailures(conf, work, plan) ==
    LET c == Selected(plan)
    IN  {f \in {"backend_allowlist", "backend_class_allowlist", "forbidden_backend_class",
                "worker_direct_api_model_denied", "l1_l2_verifier_required",
                "micros_fields_integer"} :
           \/ f = "backend_allowlist" /\ c.backend_id \notin conf.allowed_ids
           \/ f = "backend_class_allowlist" /\ c.backend_class \notin conf.allowed_classes
           \/ f = "forbidden_backend_class" /\ c.backend_class \in conf.forbidden
           \/ /\ f = "worker_direct_api_model_denied"
              /\ c.backend_class \in GatewayClasses
              /\ c.worker_id # Gateway
           \/ /\ f = "l1_l2_verifier_required"
              /\ work.task_level \in {"L1", "L2"}
              /\ plan.verifier_recipe_id = None
           \/ f = "micros_fields_integer" /\ "float_micros" \in TextsOf(work.inline)}

=============================================================================
