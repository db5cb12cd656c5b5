------------------------------- MODULE Verifier -------------------------------
(***************************************************************************)
(* The verdict on a result envelope (src/tokenbank/verifier/runner.py,     *)
(* checks/common.py, checks/task_specific.py, recipes/*.yaml): the checks  *)
(* of a recipe and the recommendation that VerifierRunner makes of them.   *)
(*                                                                         *)
(* A check is <<name, status>>, with the status "failed" or "needs_review";*)
(* the ones that pass or are skipped are left out.  The recipe of a task   *)
(* type is named by the task type.  A value of another type than a recipe  *)
(* asks for is Malformed, Blank or, for a JSON null, None.                 *)
(***************************************************************************)
EXTENDS Adapters

Present(output, key) == key \in DOMAIN output
Mistyped(output, key) == Present(output, key) /\ ~ Usable(output[key])

\* a flag that Python takes for true
Truthy(output, key) == Field(output, key) \in {TRUE, Malformed}

\* what is in a list, if it is one, and the strings in it that say something
Members(v) == IF Usable(v) THEN Range(v) ELSE {}
StringsIn(v) == {m \in Members(v) : Usable(m) /\ m # ""}

InRange(confidence) == confidence \in 0 .. 100

-----------------------------------------------------------------------------
(* checks/common.py *)

\* check_hashes; the model of the envelope refuses an empty hash or id
HashChecks(envelope) ==
    {c \in {<< "output_hash_valid", "failed" >>, << "result_hash_valid", "failed" >>} :
        ~ envelope[c[1]]}

\* check_policy_linkage; the decision is read for the envelope's work unit
PolicyChecks(decision) ==
    IF decision = "approved" THEN {} ELSE {<< "policy_linkage", "failed" >>}

\* The strings of a claim, and those of an output.
ClaimStrings(claim) ==
    IF ~ Usable(claim) THEN {}
    ELSE {claim[k] : k \in DOMAIN claim \cap {"claim_text", "text", "entity", "claim_type",
                                              "evidence_hint", "source_ref"}}
         \cup Members(Field(claim, "source_post_refs"))

StringsOf(output) ==
    {output[k] : k \in DOMAIN output \cap {"url", "final_url", "tool", "label"}}
    \cup UNION {Members(Field(output, k)) :
                   k \in {"unique_items", "allowed_labels", "source_ids", "allowed_claim_types"}}
    \cup (IF Usable(Field(output, "extracted")) THEN output.extracted ELSE {})
    \cup UNION {ClaimStrings(claim) : claim \in Members(Field(output, "claims"))}

\* the strings of an envelope: redacted_logs stands for all that are not in
\* its output
EnvelopeStrings(envelope) == StringsOf(envelope.output) \cup envelope.redacted_logs

\* check_secret_redaction
SecretChecks(envelope) ==
    IF \E v \in EnvelopeStrings(envelope) : LooksSecret(v)
    THEN {<< "secret_redaction", "failed" >>} ELSE {}

\* the items of a claim_extraction output's claims, as its recipe has them
ClaimMistyped(claim) ==
    \/ ~ Usable(claim)
    \/ \E k \in {"claim_text", "entity", "claim_type", "confidence", "source_post_refs",
                 "evidence_hint"} : Mistyped(claim, k)
    \/ \E ref \in Members(Field(claim, "source_post_refs")) : ~ Usable(ref)
    \/ Present(claim, "claim_type") /\ ~ Contains(DefaultClaimTypes, claim.claim_type)
    \/ Present(claim, "confidence") /\ ~ InRange(claim.confidence)

\* check_output_schema: the fields each recipe requires, and the types it
\* gives to those and to others; host work units bring no schema of their own
SchemaChecks(recipe, output) ==
    LET required == [url_check |-> {"ok"}, dedup |-> {"unique_items", "duplicate_count"},
                     webpage_extraction |-> {"extracted"},
                     topic_classification |-> {"label", "confidence"},
                     claim_extraction |-> {"claims"}][recipe]
        strings == [url_check |-> {}, dedup |-> {}, webpage_extraction |-> {},
                    topic_classification |-> {"allowed_labels"},
                    claim_extraction |-> {"source_ids", "allowed_claim_types"}][recipe]
        others == [url_check |-> {"status_code", "final_url", "timed_out", "private_ip_denied",
                                  "redirect_denied"},
                   dedup |-> {"overmerge_detected"},
                   webpage_extraction |-> {"prompt_injection_detected", "untrusted_content"},
                   topic_classification |-> {}, claim_extraction |-> {}][recipe]
    IN  IF \/ \E k \in required : ~ Present(output, k)
           \/ \E k \in required \cup strings \cup others : Mistyped(output, k)
           \/ \E k \in strings : \E v \in Members(Field(output, k)) : ~ Usable(v)
           \/ /\ recipe = "claim_extraction"
              /\ \E claim \in Members(Field(output, "claims")) : ClaimMistyped(claim)
        THEN {<< "output_schema", "failed" >>} ELSE {}

-----------------------------------------------------------------------------
(* checks/task_specific.py *)

\* _url_check
UrlChecks(output) ==
    LET code == Field(output, "status_code")
        denied == Truthy(output, "private_ip_denied") \/ Truthy(output, "redirect_denied")
    IN  CASE denied -> {<< "url_policy_safety", "failed" >>}
          [] ~ denied /\ Truthy(output, "timed_out") -> {<< "url_timeout", "failed" >>}
          [] OTHER ->
                IF (code = None /\ Field(output, "ok") = TRUE) \/ code \in 200 .. 299 THEN {}
                ELSE IF code \in 400 .. 499 THEN {<< "url_status", "needs_review" >>}
                ELSE {<< "url_status", "failed" >>}

\* _dedup; a negative count is an integer like any other (a truth value,
\* which is an integer to isinstance and none to the schema, is Malformed)
DedupChecks(output) ==
    IF Truthy(output, "overmerge_detected") THEN {<< "dedup_overmerge", "needs_review" >>}
    ELSE IF Present(output, "unique_items") /\ Field(output, "duplicate_count") \in Int THEN {}
    ELSE {<< "dedup_exact", "failed" >>}

\* _topic_classification
TopicChecks(output) ==
    LET labels == Field(output, "allowed_labels")
        confidence == Field(output, "confidence")
    IN  IF Usable(labels) /\ ~ Contains(labels, Field(output, "label"))
        THEN {<< "topic_label_enum", "failed" >>}
        ELSE IF ~ InRange(confidence) THEN {<< "topic_confidence_range", "failed" >>}
        ELSE IF confidence < 65 THEN {<< "topic_confidence", "needs_review" >>} ELSE {}

\* _claim_source_refs
SourceRefs(claim) ==
    LET refs == StringsIn(Field(claim, "source_post_refs"))
        ref == Field(claim, "source_ref")
    IN  IF refs # {} THEN refs ELSE IF Usable(ref) /\ ref # "" THEN {ref} ELSE {}

\* _claim_source_ids, _source_refs_allowed: without source ids only references
\* of the program's own form count, of which "src_claim_1" is the one used here
RefsAllowed(refs, output) ==
    LET source_ids == StringsIn(Field(output, "source_ids"))
    IN  refs \subseteq (IF source_ids # {} THEN source_ids ELSE {"src_claim_1"})

\* _allowed_claim_types
AllowedClaimTypes(output) ==
    LET known == ToSet(DefaultClaimTypes)
        given == Members(Field(output, "allowed_claim_types")) \cap known
    IN  IF given = {} THEN known ELSE given

\* _claim_extraction, for one claim
ClaimChecks(output, claim) ==
    LET text == IF IsTrue("claim_text", Field(claim, "claim_text")) THEN claim.claim_text
                ELSE Field(claim, "text")
        refs == SourceRefs(claim)
    IN  IF ~ Usable(claim) THEN {<< "claim_entity", "failed" >>}
        ELSE {c \in {"claim_text", "claim_entity", "claim_type_enum", "claim_confidence_range",
                     "claim_source_ref", "claim_evidence_hint"} \X {"failed"} :
                \/ c[1] = "claim_text" /\ RequiredMissing(text)
                \/ c[1] = "claim_entity" /\ ~ IsTrue("entity", Field(claim, "entity"))
                \/ /\ c[1] = "claim_type_enum"
                   /\ Field(claim, "claim_type") \notin AllowedClaimTypes(output)
                \/ c[1] = "claim_confidence_range" /\ ~ InRange(Field(claim, "confidence"))
                \/ c[1] = "claim_source_ref" /\ (refs = {} \/ ~ RefsAllowed(refs, output))
                \/ c[1] = "claim_evidence_hint" /\ RequiredMissing(Field(claim, "evidence_hint"))}

\* _webpage_extraction
WebpageChecks(output) ==
    IF Field(output, "extracted") \in {None, Malformed, Blank, {}}
    THEN {<< "webpage_empty", "failed" >>}
    ELSE IF Truthy(output, "prompt_injection_detected")
         THEN {<< "webpage_prompt_injection", "needs_review" >>} ELSE {}

\* run_task_specific_checks
TaskChecks(recipe, output) ==
    CASE recipe = "url_check" -> UrlChecks(output)
      [] recipe = "dedup" -> DedupChecks(output)
      [] recipe = "topic_classification" -> TopicChecks(output)
      [] recipe = "claim_extraction" ->
            IF Field(output, "claims") \in {None, Malformed, Blank, << >>}
            THEN {<< "claim_entity", "failed" >>}
            ELSE UNION {ClaimChecks(output, output.claims[i]) : i \in DOMAIN output.claims}
      [] OTHER -> WebpageChecks(output)

-----------------------------------------------------------------------------
(* runner.py *)

\* VerifierRunner.run: every check that does not pass
Checks(recipe, envelope, decision) ==
    HashChecks(envelope) \cup PolicyChecks(decision) \cup SecretChecks(envelope)
    \cup SchemaChecks(recipe, envelope.output) \cup TaskChecks(recipe, envelope.output)

\* _recommendation, _task_recommendation with the recommendations of the
\* recipes: the first rule one of whose checks is among those that do not pass
Rules(recipe) ==
    << << {<< "secret_redaction", "failed" >>}, "quarantine" >>,
       << {<< "output_hash_valid", "failed" >>, << "result_hash_valid", "failed" >>},
          "quarantine" >>,
       << {<< "output_schema", "failed" >>},
          IF recipe = "dedup" THEN "reject" ELSE "retry" >>,
       << {<< "policy_linkage", "failed" >>, << "url_policy_safety", "failed" >>},
          "quarantine" >>,
       << {<< "url_timeout", "failed" >>}, "retry" >>,
       << {<< "url_status", "needs_review" >>}, "accept_with_warning" >>,
       << {<< "url_status", "failed" >>}, "reject" >>,
       << {<< "dedup_overmerge", "needs_review" >>}, "accept_with_warning" >>,
       << {<< "dedup_exact", "failed" >>}, "reject" >>,
       << {<< "topic_label_enum", "failed" >>, << "topic_confidence_range", "failed" >>},
          "retry" >>,
       << {<< "topic_confidence", "needs_review" >>}, "accept_with_warning" >>,
       << {<< "claim_source_ref", "failed" >>}, "fallback" >>,
       << {<< "claim_entity", "failed" >>, << "claim_text", "failed" >>,
           << "claim_type_enum", "failed" >>, << "claim_confidence_range", "failed" >>,
           << "claim_evidence_hint", "failed" >>}, "retry" >>,
       << {<< "webpage_empty", "failed" >>}, "fallback" >>,
       << {<< "webpage_prompt_injection", "needs_review" >>}, "accept_with_warning" >> >>

Recommendation_SchemaFirst(recipe, checks) ==
    IF << "output_schema", "failed" >> \in checks THEN Rules(recipe)[3][2]
    ELSE LET hits == {i \in DOMAIN Rules(recipe) : Rules(recipe)[i][1] \cap checks # {}}
         IN  IF hits = {} THEN "accept" ELSE Rules(recipe)[Min(hits)][2]

Recommendation(recipe, checks) ==
    LET hits == {i \in DOMAIN Rules(recipe) : Rules(recipe)[i][1] \cap checks # {}}
    IN  IF hits = {} THEN "accept" ELSE Rules(recipe)[Min(hits)][2]

=============================================================================
