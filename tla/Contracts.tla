----------------------------- MODULE Contracts -----------------------------
(***************************************************************************)
(* Government contracts: finance_modules/contracts, with the rate checks   *)
(* of finance_engines/rate_compliance.py.                                  *)
(***************************************************************************)
EXTENDS PolicyPosting
LOCAL INSTANCE SequencesExt

---------------------------------------------------------------------------
(* Workflows. *)

_contracts_draft_posted == DraftPosted

---------------------------------------------------------------------------
(* Accounting policies. *)

CONTRACT_COST_DIRECT_LABOR ==
  Policy("ContractCostDirectLabor", "contract.cost_incurred", <<Is("cost_type", "DIRECT_LABOR")>>,
    <<AtMost("amount", 0)>>, <<GL("WIP_DIRECT_LABOR", "LABOR_CLEARING"),
     Pair("CONTRACT", "CONTRACT_COST_INCURRED", "COST_CLEARING")>>)
CONTRACT_COST_DIRECT_MATERIAL ==
  Policy("ContractCostDirectMaterial", "contract.cost_incurred", <<Is("cost_type", "DIRECT_MATERIAL")>>,
    <<>>, <<GL("WIP_DIRECT_MATERIAL", "MATERIAL_CLEARING"),
     Pair("CONTRACT", "CONTRACT_COST_INCURRED", "COST_CLEARING")>>)
CONTRACT_COST_SUBCONTRACT ==
  Policy("ContractCostSubcontract", "contract.cost_incurred", <<Is("cost_type", "SUBCONTRACT")>>,
    <<>>, <<GL("WIP_SUBCONTRACT", "AP_CLEARING"),
     Pair("CONTRACT", "CONTRACT_COST_INCURRED", "COST_CLEARING")>>)
CONTRACT_COST_TRAVEL ==
  Policy("ContractCostTravel", "contract.cost_incurred", <<Is("cost_type", "TRAVEL")>>,
    <<>>, <<GL("WIP_TRAVEL", "EXPENSE_CLEARING"),
     Pair("CONTRACT", "CONTRACT_COST_INCURRED", "COST_CLEARING")>>)
CONTRACT_COST_ODC ==
  Policy("ContractCostODC", "contract.cost_incurred", <<Is("cost_type", "ODC")>>,
    <<>>, <<GL("WIP_ODC", "EXPENSE_CLEARING"),
     Pair("CONTRACT", "CONTRACT_COST_INCURRED", "COST_CLEARING")>>)
CONTRACT_COST_INDIRECT_FRINGE ==
  Policy("ContractCostIndirectFringe", "contract.cost_incurred", <<Is("cost_type", "INDIRECT_FRINGE")>>,
    <<>>, <<GL("WIP_FRINGE", "FRINGE_POOL_APPLIED"),
     Pair("CONTRACT", "CONTRACT_COST_INCURRED", "COST_CLEARING")>>)
CONTRACT_COST_INDIRECT_OVERHEAD ==
  Policy("ContractCostIndirectOverhead", "contract.cost_incurred", <<Is("cost_type", "INDIRECT_OVERHEAD")>>,
    <<>>, <<GL("WIP_OVERHEAD", "OVERHEAD_POOL_APPLIED"),
     Pair("CONTRACT", "CONTRACT_COST_INCURRED", "COST_CLEARING")>>)
CONTRACT_COST_INDIRECT_GA ==
  Policy("ContractCostIndirectGA", "contract.cost_incurred", <<Is("cost_type", "INDIRECT_GA")>>,
    <<>>, <<GL("WIP_GA", "GA_POOL_APPLIED"),
     Pair("CONTRACT", "CONTRACT_COST_INCURRED", "COST_CLEARING")>>)
CONTRACT_BILLING_COST_REIMB ==
  Policy("ContractBillingCostReimbursement", "contract.billing_provisional", <<Is("billing_type", "COST_REIMBURSEMENT")>>,
    <<AtMost("total_billing", 0)>>,
     <<Entry("GL", <<Dr("UNBILLED_AR", Amt), Cr("WIP_BILLED", From("cost_billing")), Cr("DEFERRED_FEE_REVENUE", From("fee_amount"))>>),
     Pair("CONTRACT", "BILLED", "COST_BILLED")>>)
CONTRACT_BILLING_TM ==
  Policy("ContractBillingTimeAndMaterials", "contract.billing_provisional", <<Is("billing_type", "TIME_AND_MATERIALS")>>,
    <<>>, <<GL("UNBILLED_AR", "WIP_BILLED"),
     Pair("CONTRACT", "BILLED", "COST_BILLED")>>)
CONTRACT_BILLING_LH ==
  Policy("ContractBillingLaborHour", "contract.billing_provisional", <<Is("billing_type", "LABOR_HOUR")>>,
    <<>>, <<GL("UNBILLED_AR", "WIP_BILLED"),
     Pair("CONTRACT", "BILLED", "COST_BILLED")>>)
CONTRACT_FEE_FIXED ==
  Policy("ContractFeeFixedAccrual", "contract.fee_accrual", <<Is("fee_type", "FIXED_FEE")>>,
    <<Unread("payload.cumulative_fee > payload.ceiling_fee if payload.ceiling_fee else False")>>,
     <<GL("DEFERRED_FEE_REVENUE", "FEE_REVENUE_EARNED")>>)
CONTRACT_FEE_INCENTIVE ==
  Policy("ContractFeeIncentiveAccrual", "contract.fee_accrual", <<Is("fee_type", "INCENTIVE_FEE")>>,
    <<>>, <<GL("DEFERRED_FEE_REVENUE", "FEE_REVENUE_EARNED")>>)
CONTRACT_FEE_AWARD ==
  Policy("ContractFeeAwardAccrual", "contract.fee_accrual", <<Is("fee_type", "AWARD_FEE")>>,
    <<>>, <<GL("DEFERRED_FEE_REVENUE", "FEE_REVENUE_EARNED")>>)
CONTRACT_ALLOCATION_FRINGE ==
  Policy("ContractAllocationFringe", "contract.indirect_allocation", <<Is("indirect_type", "FRINGE")>>,
    <<>>, <<GL("WIP_FRINGE", "FRINGE_POOL_APPLIED")>>)
CONTRACT_ALLOCATION_OVERHEAD ==
  Policy("ContractAllocationOverhead", "contract.indirect_allocation", <<Is("indirect_type", "OVERHEAD")>>,
    <<>>, <<GL("WIP_OVERHEAD", "OVERHEAD_POOL_APPLIED")>>)
CONTRACT_ALLOCATION_GA ==
  Policy("ContractAllocationGA", "contract.indirect_allocation", <<Is("indirect_type", "G_AND_A")>>,
    <<>>, <<GL("WIP_GA", "GA_POOL_APPLIED")>>)
CONTRACT_RATE_ADJUSTMENT ==
  Policy("ContractRateAdjustment", "contract.rate_adjustment", <<>>,
    <<>>, <<GL("WIP_RATE_ADJUSTMENT", "INDIRECT_RATE_VARIANCE")>>)
CONTRACT_FUNDING_OBLIGATION ==
  Policy("ContractFundingObligation", "contract.funding_action", <<>>,
    <<AtMost("amount", 0)>>, <<GL("OBLIGATION_CONTROL", "RESERVE_FOR_ENCUMBRANCE")>>)
AP_INVOICE_ALLOWABLE ==
  Overriding({"APInvoiceExpense"}, 100,
  Policy("APInvoiceAllowable", "ap.invoice_received", <<Is("allowability", "ALLOWABLE")>>,
    <<Flag("party_is_frozen")>>, <<GL("EXPENSE_ALLOWABLE", "ACCOUNTS_PAYABLE"),
     Pair("AP", "INVOICE", "SUPPLIER_BALANCE")>>))
AP_INVOICE_UNALLOWABLE ==
  Overriding({"APInvoiceExpense"}, 100,
  Policy("APInvoiceUnallowable", "ap.invoice_received", <<Is("allowability", "UNALLOWABLE")>>,
    <<Flag("party_is_frozen"), Unread("payload.contract_id is not None")>>,
     <<GL("EXPENSE_UNALLOWABLE", "ACCOUNTS_PAYABLE"),
     Pair("AP", "INVOICE", "SUPPLIER_BALANCE")>>))
AP_INVOICE_CONDITIONAL ==
  Overriding({"APInvoiceExpense"}, 100,
  Policy("APInvoiceConditional", "ap.invoice_received", <<Is("allowability", "CONDITIONAL")>>,
    <<Flag("party_is_frozen"), Unread("payload.unallowable_reason is None")>>,
     <<GL("EXPENSE_CONDITIONAL", "ACCOUNTS_PAYABLE"),
     Pair("AP", "INVOICE", "SUPPLIER_BALANCE")>>))
TIMESHEET_ALLOWABLE ==
  Overriding({"TimesheetRegular", "TimesheetOvertime"}, 100,
  Policy("TimesheetAllowable", "payroll.timesheet", <<Is("allowability", "ALLOWABLE")>>,
    <<AtMost("hours", 0), Above("hours", 24)>>,
     <<GL("LABOR_ALLOWABLE", "ACCRUED_PAYROLL")>>))
TIMESHEET_UNALLOWABLE ==
  Overriding({"TimesheetRegular", "TimesheetOvertime"}, 100,
  Policy("TimesheetUnallowable", "payroll.timesheet", <<Is("allowability", "UNALLOWABLE")>>,
    <<AtMost("hours", 0), Unread("payload.contract_id is not None")>>,
     <<GL("LABOR_UNALLOWABLE", "ACCRUED_PAYROLL")>>))
LABOR_DIST_DIRECT_ALLOWABLE ==
  Overriding({"LaborDistributionDirect"}, 100,
  Policy("LaborDistDirectAllowable", "payroll.labor_distribution", <<Is("labor_type", "DIRECT"), Is("allowability", "ALLOWABLE")>>,
    <<AtMost("amount", 0)>>, <<GL("WIP_DIRECT_LABOR", "LABOR_CLEARING")>>))
LABOR_DIST_DIRECT_UNALLOWABLE ==
  Overriding({"LaborDistributionDirect"}, 100,
  Policy("LaborDistDirectUnallowable", "payroll.labor_distribution", <<Is("labor_type", "DIRECT"), Is("allowability", "UNALLOWABLE")>>,
    <<Unread("payload.contract_id is not None")>>,
     <<GL("LABOR_UNALLOWABLE", "LABOR_CLEARING")>>))
LABOR_DIST_INDIRECT_ALLOWABLE ==
  Overriding({"LaborDistributionIndirect"}, 100,
  Policy("LaborDistIndirectAllowable", "payroll.labor_distribution", <<Is("labor_type", "INDIRECT"), Is("allowability", "ALLOWABLE")>>,
    <<>>, <<GL("OVERHEAD_POOL_ALLOWABLE", "LABOR_CLEARING")>>))
LABOR_DIST_INDIRECT_UNALLOWABLE ==
  Overriding({"LaborDistributionIndirect"}, 100,
  Policy("LaborDistIndirectUnallowable", "payroll.labor_distribution", <<Is("labor_type", "INDIRECT"), Is("allowability", "UNALLOWABLE")>>,
    <<>>, <<GL("OVERHEAD_UNALLOWABLE", "LABOR_CLEARING")>>))
BANK_WITHDRAWAL_EXPENSE_ALLOWABLE ==
  Overriding({"BankWithdrawalExpense"}, 100,
  Policy("BankWithdrawalExpenseAllowable", "bank.withdrawal", <<Is("destination_type", "EXPENSE"), Is("allowability", "ALLOWABLE")>>,
    <<AtMost("amount", 0)>>, <<GL("EXPENSE_ALLOWABLE", "BANK"),
     Pair("BANK", "WITHDRAWAL", "AVAILABLE")>>))
BANK_WITHDRAWAL_EXPENSE_UNALLOWABLE ==
  Overriding({"BankWithdrawalExpense"}, 100,
  Policy("BankWithdrawalExpenseUnallowable", "bank.withdrawal", <<Is("destination_type", "EXPENSE"), Is("allowability", "UNALLOWABLE")>>,
    <<AtMost("amount", 0), Unread("payload.contract_id is not None")>>,
     <<GL("EXPENSE_UNALLOWABLE", "BANK"), Pair("BANK", "WITHDRAWAL", "AVAILABLE")>>))
CONTRACT_MODIFIED ==
  Policy("ContractModified", "contract.modification", <<>>,
    <<AtMost("amount", 0)>>, <<GL("OBLIGATION_CONTROL", "RESERVE_FOR_ENCUMBRANCE")>>)
CONTRACT_SUBCOST ==
  Policy("ContractSubcost", "contract.subcontract_cost", <<>>,
    <<AtMost("amount", 0)>>, <<GL("WIP_SUBCONTRACT", "AP_CLEARING"),
     Pair("CONTRACT", "CONTRACT_COST_INCURRED", "COST_CLEARING")>>)
CONTRACT_EQUITABLE_ADJ ==
  Policy("ContractEquitableAdj", "contract.equitable_adjustment", <<>>,
    <<AtMost("amount", 0)>>, <<GL("UNBILLED_AR", "WIP_BILLED")>>)
CONTRACT_COST_DISALLOWED ==
  Policy("ContractCostDisallowed", "contract.cost_disallowance", <<>>,
    <<AtMost("amount", 0)>>, <<GL("EXPENSE_UNALLOWABLE", "WIP_DIRECT_LABOR")>>)
CONTRACT_RATE_RECON_UNDERAPPLIED ==
  Policy("ContractRateReconciliationUnderapplied", "contract.rate_reconciliation", <<Is("direction", "UNDERAPPLIED")>>,
    <<AtMost("adjustment_amount", 0)>>,
     <<GL("WIP_RATE_ADJUSTMENT", "INDIRECT_RATE_VARIANCE")>>)
CONTRACT_RATE_RECON_OVERAPPLIED ==
  Policy("ContractRateReconciliationOverapplied", "contract.rate_reconciliation", <<Is("direction", "OVERAPPLIED")>>,
    <<AtMost("adjustment_amount", 0)>>,
     <<GL("INDIRECT_RATE_VARIANCE", "WIP_RATE_ADJUSTMENT")>>)
Policies == <<CONTRACT_COST_DIRECT_LABOR, CONTRACT_COST_DIRECT_MATERIAL,
  CONTRACT_COST_SUBCONTRACT, CONTRACT_COST_TRAVEL, CONTRACT_COST_ODC,
  CONTRACT_COST_INDIRECT_FRINGE, CONTRACT_COST_INDIRECT_OVERHEAD,
  CONTRACT_COST_INDIRECT_GA, CONTRACT_BILLING_COST_REIMB, CONTRACT_BILLING_TM,
  CONTRACT_BILLING_LH, CONTRACT_FEE_FIXED, CONTRACT_FEE_INCENTIVE, CONTRACT_FEE_AWARD,
  CONTRACT_ALLOCATION_FRINGE, CONTRACT_ALLOCATION_OVERHEAD, CONTRACT_ALLOCATION_GA,
  CONTRACT_RATE_ADJUSTMENT, CONTRACT_FUNDING_OBLIGATION, AP_INVOICE_ALLOWABLE,
  AP_INVOICE_UNALLOWABLE, AP_INVOICE_CONDITIONAL, TIMESHEET_ALLOWABLE,
  TIMESHEET_UNALLOWABLE, LABOR_DIST_DIRECT_ALLOWABLE, LABOR_DIST_DIRECT_UNALLOWABLE,
  LABOR_DIST_INDIRECT_ALLOWABLE, LABOR_DIST_INDIRECT_UNALLOWABLE,
  BANK_WITHDRAWAL_EXPENSE_ALLOWABLE, BANK_WITHDRAWAL_EXPENSE_UNALLOWABLE,
  CONTRACT_MODIFIED, CONTRACT_SUBCOST, CONTRACT_EQUITABLE_ADJ, CONTRACT_COST_DISALLOWED,
  CONTRACT_RATE_RECON_UNDERAPPLIED, CONTRACT_RATE_RECON_OVERAPPLIED>>

---------------------------------------------------------------------------
(* Service methods. *)

\* Rows the methods insert, as they are when inserted.
ContractBilling == AddNew("contracts_billings", "draft")
ContractFunding(action_number) == Add(<<"contracts_funding", action_number>>, "active")
IndirectRate(rate) == Add(<<"contract_indirect_rates", rate>>, "recorded")
RateReconciliation == AddNew("contract_rate_reconciliations", "recorded")

record_cost_incurrence(amount, cost_type) ==
  PostOnly("record_cost_incurrence", _contracts_draft_posted,
    "contract.cost_incurred", amount, [amount |-> amount, cost_type |-> cost_type])

\* A billing posts its net amount, what the funding limit and the withholding
\* leave; the part that is not fee is what relieves the costs.
BillingType(contract_type) ==
  CASE contract_type \in {"CPFF", "CPIF", "CPAF"} -> "COST_REIMBURSEMENT"
    [] contract_type = "T&M" -> "TIME_AND_MATERIALS"
    [] contract_type = "LH" -> "LABOR_HOUR"
    [] OTHER -> contract_type
generate_billing(contract_type, net, fee) ==
  PostWithRow("generate_billing", _contracts_draft_posted,
    "contract.billing_provisional", net,
    [billing_type |-> BillingType(contract_type), total_billing |-> net,
     cost_billing |-> net - fee, fee_amount |-> fee],
    ContractBilling)

\* The action number, given or made up of contract and action type, is unique.
record_funding_action(action_number, amount) ==
  PostWithRow("record_funding_action", _contracts_draft_posted,
    "contract.funding_action", amount, [amount |-> amount],
    ContractFunding(action_number))
record_indirect_allocation(amount, indirect_type) ==
  PostOnly("record_indirect_allocation", _contracts_draft_posted,
    "contract.indirect_allocation", amount, [amount |-> amount, indirect_type |-> indirect_type])
record_rate_adjustment(adjustment) ==
  PostOnly("record_rate_adjustment", _contracts_draft_posted,
    "contract.rate_adjustment", Abs(adjustment), [adjustment_amount |-> adjustment])
record_fee_accrual(amount, fee_type) ==
  PostOnly("record_fee_accrual", _contracts_draft_posted,
    "contract.fee_accrual", amount, [amount |-> amount, fee_type |-> fee_type])
record_contract_modification(amount_change) ==
  PostOnly("record_contract_modification", _contracts_draft_posted,
    "contract.modification", amount_change, [amount |-> amount_change])
record_subcontract_cost(amount) ==
  PostOnly("record_subcontract_cost", _contracts_draft_posted,
    "contract.subcontract_cost", amount, [amount |-> amount])
record_equitable_adjustment(amount) ==
  PostOnly("record_equitable_adjustment", _contracts_draft_posted,
    "contract.equitable_adjustment", amount, [amount |-> amount])
record_cost_disallowance(amount) ==
  PostOnly("record_cost_disallowance", _contracts_draft_posted,
    "contract.cost_disallowance", amount, [amount |-> amount])

\* approved and ceiling are the rates found, or None; a rate above either is
\* in excess.
verify_labor_rate(charged, approved, ceiling) ==
  CASE approved = None -> [valid |-> FALSE, excess |-> 0]
    [] approved # None /\ charged > approved -> [valid |-> FALSE, excess |-> charged - approved]
    [] approved # None /\ charged <= approved /\ ceiling # None /\ charged > ceiling ->
         [valid |-> FALSE, excess |-> charged - ceiling]
    [] OTHER -> [valid |-> TRUE, excess |-> 0]
\* The result of the posting is not looked at: the session commits either way.
verify_and_record_labor_rate(charged, approved, ceiling) ==
  LET r == verify_labor_rate(charged, approved, ceiling)
  IN  Call("verify_and_record_labor_rate",
        <<PostGuard(_contracts_draft_posted),
          IF r.valid THEN PostAnyway("contract.rate_verified", 0, NoCtx)
          ELSE PostAnyway("contract.rate_ceiling_exceeded", r.excess, NoCtx),
          Commit>>)

record_indirect_rate(rate) ==
  Call("record_indirect_rate", <<IndirectRate(rate), Commit>>)

\* One record and one posting for every rate type with a provisional and a final
\* rate and a base; equal rates need none.  The first failure undoes them all.
compute_all_reconciliations(rates) ==
  LET Adjustment(r) == r.base * (r.final - r.provisional)
      open == SelectSeq(rates, LAMBDA r : r.final # None /\ r.base # 0)
  IN  [i \in DOMAIN open |-> Adjustment(open[i])]
run_fiscal_year_rate_reconciliation(rates) ==
  LET adjustments == SelectSeq(compute_all_reconciliations(rates), LAMBDA a : a # 0)
      Steps(a) == <<RateReconciliation,
                    Post("contract.rate_reconciliation", Abs(a),
                         [adjustment_amount |-> Abs(a),
                          direction |-> IF a > 0 THEN "UNDERAPPLIED" ELSE "OVERAPPLIED"])>>
  IN  Call("run_fiscal_year_rate_reconciliation",
        <<PostGuard(_contracts_draft_posted)>>
          \o FlattenSeq([i \in DOMAIN adjustments |-> Steps(adjustments[i])]) \o <<Commit>>)

Calls ==
  {record_cost_incurrence(1, t) : t \in {"DIRECT_LABOR", "DIRECT_MATERIAL", "SUBCONTRACT", "TRAVEL",
     "ODC", "INDIRECT_FRINGE", "INDIRECT_OVERHEAD", "INDIRECT_GA", "OTHER"}}
  \cup {generate_billing(t, 2, 1) : t \in {"CPFF", "T&M", "LH", "FFP"}}
  \cup {generate_billing("CPFF", 0, 1), generate_billing("CPFF", 1, 2)}
  \cup {record_indirect_allocation(1, t) : t \in {"FRINGE", "OVERHEAD", "G_AND_A"}}
  \cup {record_fee_accrual(1, t) : t \in {"FIXED_FEE", "INCENTIVE_FEE", "AWARD_FEE"}}
  \cup {record_funding_action("a", 1), record_rate_adjustment(-1), record_contract_modification(1),
        record_contract_modification(-1), record_subcontract_cost(1),
        record_equitable_adjustment(1), record_cost_disallowance(1),
        verify_and_record_labor_rate(2, 1, None), verify_and_record_labor_rate(1, 2, 2),
        record_indirect_rate("r"),
        run_fiscal_year_rate_reconciliation(
          <<[provisional |-> 2, final |-> 1, base |-> 1], [provisional |-> 1, final |-> 2, base |-> 1],
            [provisional |-> 1, final |-> 1, base |-> 1], [provisional |-> 1, final |-> None, base |-> 1]>>)}
============================================================================
