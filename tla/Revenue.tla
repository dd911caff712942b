------------------------------ MODULE Revenue ------------------------------
(***************************************************************************)
(* Revenue recognition: finance_modules/revenue (workflows, profiles,      *)
(* helpers, service).                                                      *)
(***************************************************************************)
EXTENDS PolicyPosting

---------------------------------------------------------------------------
(* Workflows. *)

CONTRACT_LIFECYCLE_WORKFLOW == {
  T("identified", "identify_obligations", "obligations_identified", "contract_approved"),
  T("obligations_identified", "determine_price", "price_determined", "obligations_identified"),
  T("price_determined", "allocate_price", "allocated", "price_determined"),
  T("allocated", "begin_recognition", "recognizing", Unguarded),
  T("recognizing", "complete_contract", "completed", Unguarded),
  T("identified", "terminate", "terminated", Unguarded),
  T("obligations_identified", "terminate", "terminated", Unguarded)}
_revenue_draft_posted == DraftPosted

---------------------------------------------------------------------------
(* Accounting policies. *)

REVENUE_POINT_IN_TIME ==
  Policy("RevenuePointInTime", "revenue.recognize_point_in_time", <<>>,
    <<AtMost("amount", 0)>>, <<GL("ACCOUNTS_RECEIVABLE", "REVENUE")>>)
REVENUE_OVER_TIME_INPUT ==
  Policy("RevenueOverTimeInput", "revenue.recognize_over_time_input", <<>>,
    <<AtMost("amount", 0)>>, <<GL("UNBILLED_RECEIVABLE", "REVENUE")>>)
REVENUE_OVER_TIME_OUTPUT ==
  Policy("RevenueOverTimeOutput", "revenue.recognize_over_time_output", <<>>,
    <<AtMost("amount", 0)>>, <<GL("UNBILLED_RECEIVABLE", "REVENUE")>>)
REVENUE_PRICE_ALLOCATION ==
  Policy("RevenuePriceAllocation", "revenue.price_allocation", <<>>,
    <<AtMost("amount", 0)>>, <<GL("CONTRACT_RECEIVABLE", "DEFERRED_REVENUE")>>)
REVENUE_MODIFICATION_CUMULATIVE ==
  Policy("RevenueModificationCumulative", "revenue.modification_cumulative", <<>>,
    <<AtMost("amount", 0)>>, <<GL("ACCOUNTS_RECEIVABLE", "REVENUE")>>)
REVENUE_MODIFICATION_PROSPECTIVE ==
  Policy("RevenueModificationProspective", "revenue.modification_prospective", <<>>,
    <<AtMost("amount", 0)>>, <<GL("DEFERRED_REVENUE", "REVENUE")>>)
REVENUE_VARIABLE_UPDATE ==
  Policy("RevenueVariableUpdate", "revenue.variable_consideration_update", <<>>,
    <<AtMost("amount", 0)>>, <<GL("ACCOUNTS_RECEIVABLE", "REVENUE")>>)
REVENUE_LICENSE_RENEWAL ==
  Policy("RevenueLicenseRenewal", "revenue.license_renewal", <<>>,
    <<AtMost("amount", 0)>>, <<GL("ACCOUNTS_RECEIVABLE", "DEFERRED_REVENUE")>>)
Policies == <<REVENUE_POINT_IN_TIME, REVENUE_OVER_TIME_INPUT, REVENUE_OVER_TIME_OUTPUT,
  REVENUE_PRICE_ALLOCATION, REVENUE_MODIFICATION_CUMULATIVE,
  REVENUE_MODIFICATION_PROSPECTIVE, REVENUE_VARIABLE_UPDATE, REVENUE_LICENSE_RENEWAL>>

---------------------------------------------------------------------------
(* Service methods. *)

\* Rows the methods insert, as they are when inserted.
PerformanceObligation == AddNew("revenue_performance_obligations", "identified")
TransactionPrice == AddNew("revenue_transaction_prices", "determined")
ContractModification == AddNew("revenue_contract_modifications", "recorded")

RevenueContract(c) == <<"revenue_contracts", c>>
SSPAllocation(o) == <<"revenue_ssp_allocations", o>>

identify_contract(c) ==
  Call("identify_contract", <<Add(RevenueContract(c), "identified"), Commit>>)
identify_performance_obligations ==
  Call("identify_performance_obligations",
    <<PerformanceObligation, Commit>>)
determine_transaction_price ==
  Call("determine_transaction_price", <<TransactionPrice, Commit>>)

\* The whole price is one posting; one row for each obligation of the contract,
\* and an obligation has one.
allocate_transaction_price(total, obligations) ==
  Call("allocate_transaction_price",
    <<PostGuard(_revenue_draft_posted),
      Post("revenue.price_allocation", total, NoCtx)>>
      \o [n \in DOMAIN obligations |-> Add(SSPAllocation(obligations[n]), "allocated")]
      \o <<Commit>>)

RecognitionEvent(method) ==
  CASE method = "point_in_time" -> "revenue.recognize_point_in_time"
    [] method = "over_time_input" -> "revenue.recognize_over_time_input"
    [] method = "over_time_output" -> "revenue.recognize_over_time_output"
recognize_revenue(amount, method) ==
  PostOnly("recognize_revenue", _revenue_draft_posted, RecognitionEvent(method),
    amount, NoCtx)

assess_modification_type(adds_distinct_goods, price_reflects_ssp, remaining_goods_distinct) ==
  CASE adds_distinct_goods /\ price_reflects_ssp -> "separate_contract"
    [] ~(adds_distinct_goods /\ price_reflects_ssp) /\ remaining_goods_distinct -> "prospective"
    [] OTHER -> "cumulative_catch_up"
\* A lower price posts the same way round as a higher one.
modify_contract(price_change, distinct, at_ssp, remaining) ==
  PostWithRow("modify_contract", _revenue_draft_posted,
    IF assess_modification_type(distinct, at_ssp, remaining) = "prospective"
    THEN "revenue.modification_prospective" ELSE "revenue.modification_cumulative",
    Abs(price_change), NoCtx, ContractModification)
update_variable_consideration(estimate) ==
  PostOnly("update_variable_consideration", _revenue_draft_posted,
    "revenue.variable_consideration_update", Abs(estimate), NoCtx)

Calls ==
  {identify_contract("c"), identify_performance_obligations, determine_transaction_price,
   allocate_transaction_price(2, <<"o">>), allocate_transaction_price(2, <<"o", "u">>),
   modify_contract(-1, FALSE, FALSE, TRUE), modify_contract(1, TRUE, TRUE, TRUE),
   modify_contract(1, TRUE, FALSE, FALSE), update_variable_consideration(-1)}
  \cup {recognize_revenue(1, m) : m \in {"point_in_time", "over_time_input", "over_time_output"}}
============================================================================
