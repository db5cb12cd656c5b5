-------------------------------- MODULE Usage --------------------------------
(***************************************************************************)
(* The arithmetic of a usage ledger entry (src/tokenbank/ledger/usage.py): *)
(* what _build_usage_entry makes of the costs and units of a result body.  *)
(* A field that is missing or is no integer is any negative number here.   *)
(***************************************************************************)
EXTENDS Integers, Sequences, SequencesExt

\* _non_negative_int
NonNegativeInt(value) == IF value < 0 THEN 0 ELSE value

Larger(m, n) == IF m >= n THEN m ELSE n

\* sum(_non_negative_int(item.get(field)) for item in usage_records)
SumOf(usage_records, field) ==
    FoldSeq(LAMBDA item, sum : NonNegativeInt(item[field]) + sum, 0, usage_records)

\* The body's own figure or the sum over its records, whichever is larger.
CostOf(body, own, field) ==
    Larger(NonNegativeInt(body[own]), SumOf(body.usage_records, field))

ProviderReported(body) ==
    \/ CostOf(body, "actual_cost_micros", "actual_cost_micros") > 0
    \/ \E i \in DOMAIN body.usage_records :
          body.usage_records[i].cost_source = "measured"

BillableCost_EstimateFirst(body) ==
    CostOf(body, "cost_estimate_micros", "estimated_cost_micros")

BillableCost(body) ==
    IF ProviderReported(body)
    THEN CostOf(body, "actual_cost_micros", "actual_cost_micros")
    ELSE CostOf(body, "cost_estimate_micros", "estimated_cost_micros")

CostSource(body) ==
    IF ProviderReported(body) THEN "provider_reported"
    ELSE IF CostOf(body, "cost_estimate_micros", "estimated_cost_micros") > 0
         THEN "estimated" ELSE "not_applicable"

TotalTokens(body) ==
    SumOf(body.usage_records, "input_units") + SumOf(body.usage_records, "output_units")

\* The figures of _build_usage_entry; -1 stands for None.
UsageFigures(body) ==
    [total_tokens |-> TotalTokens(body),
     reported_tokens |-> IF ProviderReported(body) THEN TotalTokens(body) ELSE -1,
     billable_cost_micros |-> BillableCost(body),
     cost_source |-> CostSource(body),
     usage_source |-> IF ProviderReported(body) THEN "provider_response" ELSE "estimate"]

=============================================================================
