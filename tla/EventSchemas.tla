--------------------------- MODULE EventSchemas ---------------------------
(***************************************************************************)
(* The contract of an event from outside: the schemas of the event types   *)
(* (finance_kernel/domain/schemas) and their validation                    *)
(* (event_validator.py, validate_contract of integration.py).              *)
(*                                                                         *)
(* A value of a payload carries the type it is well formed for, so that a  *)
(* date that does not parse, a currency that is not in ISO 4217 or a list  *)
(* where a number belongs is one case: Malformed.  Of the lengths of a     *)
(* string only "empty" and "longer than any maximum" matter.  A bound that *)
(* is a small fraction (0.01, 0.0001, 0.000001) asks for a positive number *)
(* and is 1 here.                                                          *)
(***************************************************************************)
EXTENDS PolicyPosting

Val(type, v) == [t |-> type, v |-> v]
Malformed == Val("malformed", None)
TooLong == "longer than any maximum"

---------------------------------------------------------------------------
(* EventFieldSchema.                                                       *)

Field(k, type) ==
  [name |-> k, type |-> type, optional |-> FALSE, min |-> None, max |-> None,
   nonempty |-> FALSE, short |-> FALSE, allowed |-> {}, items |-> <<>>, item_type |-> None]
Uuid(k) == Field(k, "uuid")
Date(k) == Field(k, "date")
Cur(k) == Field(k, "currency")
Bool(k) == Field(k, "boolean")
Str(k) == Field(k, "string")
Code(k) == [Str(k) EXCEPT !.nonempty = TRUE]
Note(k) == [Str(k) EXCEPT !.short = TRUE]
Text(k) == [Str(k) EXCEPT !.nonempty = TRUE, !.short = TRUE]
Enum(k, values) == [Str(k) EXCEPT !.allowed = values]
Dec(k) == Field(k, "decimal")
NonNeg(k) == [Dec(k) EXCEPT !.min = 0]
Pos(k) == [Dec(k) EXCEPT !.min = 1]
UpTo(n, f) == [f EXCEPT !.max = n]
Whole(k) == Field(k, "integer")
Between(k, a, b) == [Whole(k) EXCEPT !.min = a, !.max = b]
List(k, items) == [Field(k, "array") EXCEPT !.items = items]
ListOf(k, type) == [Field(k, "array") EXCEPT !.item_type = type]
\* Not required, or nullable.
Opt(f) == [f EXCEPT !.optional = TRUE]

EventSchema(event_type, version, fields) ==
  [event_type |-> event_type, version |-> version, fields |-> fields]

---------------------------------------------------------------------------
(* Validation.                                                             *)

\* Integers are decimals too.
validate_field_type(value, type) ==
  value.t = type \/ (value.t = "integer" /\ type = "decimal")

\* mutant: enumerations are not checked
constraints_no_enum(value, f) ==
  /\ f.type \in {"integer", "decimal"} => (f.min = None \/ value.v >= f.min)
                                       /\ (f.max = None \/ value.v <= f.max)
  /\ f.type = "string" => (f.nonempty => value.v # "") /\ (f.short => value.v # TooLong)
validate_field_constraints(value, f) ==
  /\ f.type \in {"integer", "decimal"} => (f.min = None \/ value.v >= f.min)
                                       /\ (f.max = None \/ value.v <= f.max)
  /\ f.type = "string" => (f.nonempty => value.v # "") /\ (f.short => value.v # TooLong)
  /\ f.allowed # {} => value.v \in f.allowed

Simple(value, f) ==
  IF value = None THEN f.optional
  ELSE validate_field_type(value, f.type) /\ validate_field_constraints(value, f)
\* The items of a list are objects with fields of their own, or plain values.
Items(value, f) ==
  \A i \in DOMAIN value.v :
    LET item == value.v[i]
    IN  IF f.items # <<>>
        THEN item.t = "object" /\ \A j \in DOMAIN f.items :
                                    Simple(Get(item.v, f.items[j].name), f.items[j])
        ELSE validate_field_type(item, f.item_type)
validate_field(value, f) ==
  Simple(value, f) /\ (value # None /\ f.type = "array" => Items(value, f))

validate_payload_against_schema(payload, schema) ==
  \A i \in DOMAIN schema.fields :
    validate_field(Get(payload, schema.fields[i].name), schema.fields[i])

\* Event type and currencies are well formed in every payload used here.
SUPPORTED_SCHEMA_VERSIONS == {1}
validate_schema_version(version) == version \in SUPPORTED_SCHEMA_VERSIONS

---------------------------------------------------------------------------
(* The schemas.                                                            *)

\* ap.py
AP_INVOICE_RECEIVED_V1 ==
  EventSchema("ap.invoice_received", 1,
    <<Uuid("invoice_id"), Text("invoice_number"), Text("supplier_party_code"),
      Date("invoice_date"), Date("due_date"), Pos("gross_amount"), Opt(NonNeg("tax_amount")),
      Pos("net_amount"), Cur("currency"), Opt(Pos("exchange_rate")), Opt(Note("po_number")),
      Opt(Note("receipt_number")), Opt(Note("expense_account_role")),
      Opt(List("lines", <<Whole("line_number"), Note("description"), Dec("amount"),
      Opt(Str("account_role")), Opt(Str("cost_center"))>>)), Text("org_unit"),
      Opt(Note("cost_center")), Opt(Note("project"))>>)
AP_PAYMENT_V1 ==
  EventSchema("ap.payment", 1,
    <<Uuid("payment_id"), Text("payment_reference"), Text("supplier_party_code"),
      Date("payment_date"), Pos("payment_amount"), Cur("currency"), Opt(Pos("exchange_rate")),
      Enum("payment_method", {"ACH", "CARD", "CASH", "CHECK", "WIRE"}),
      Text("bank_account_code"), List("invoice_allocations", <<Uuid("invoice_id"),
      Pos("amount_applied"), Opt(NonNeg("discount_taken"))>>), Text("org_unit")>>)

\* ar.py
AR_INVOICE_ISSUED_V1 ==
  EventSchema("ar.invoice_issued", 1,
    <<Uuid("invoice_id"), Text("invoice_number"), Text("customer_party_code"),
      Date("invoice_date"), Date("due_date"), Pos("gross_amount"), Opt(NonNeg("tax_amount")),
      Pos("net_amount"), Cur("currency"), Opt(Pos("exchange_rate")),
      Opt(Uuid("sales_order_id")), Opt(Note("revenue_account_role")),
      Opt(List("lines", <<Whole("line_number"), Note("description"), Opt(Dec("quantity")),
      Opt(Dec("unit_price")), Dec("amount"), Opt(Str("account_role"))>>)), Text("org_unit"),
      Opt(Note("cost_center")), Opt(Note("project"))>>)
AR_PAYMENT_RECEIVED_V1 ==
  EventSchema("ar.payment_received", 1,
    <<Uuid("payment_id"), Text("payment_reference"), Text("customer_party_code"),
      Date("payment_date"), Pos("payment_amount"), Cur("currency"), Opt(Pos("exchange_rate")),
      Enum("payment_method", {"ACH", "CARD", "CASH", "CHECK", "WIRE"}),
      Text("bank_account_code"), List("invoice_allocations", <<Uuid("invoice_id"),
      Pos("amount_applied"), Opt(NonNeg("discount_taken"))>>), Text("org_unit")>>)
AR_CREDIT_MEMO_V1 ==
  EventSchema("ar.credit_memo", 1,
    <<Uuid("credit_memo_id"), Text("credit_memo_number"), Text("customer_party_code"),
      Date("credit_date"), Pos("amount"), Cur("currency"),
      Enum("reason_code", {"ERROR_CORRECTION", "PRICE_ADJUSTMENT", "RETURN",
      "SERVICE_CREDIT"}), Opt(Uuid("original_invoice_id")), Text("org_unit")>>)

\* asset.py
ASSET_ACQUISITION_V1 ==
  EventSchema("asset.acquisition", 1,
    <<Uuid("asset_id"), Text("asset_code"), Text("description"), Pos("cost"), Cur("currency"),
      Date("acquisition_date"), Between("useful_life_months", 1, 600),
      Opt(NonNeg("salvage_value")), Enum("depreciation_method", {"DECLINING_BALANCE",
      "STRAIGHT_LINE", "UNITS_OF_PRODUCTION"}), Text("asset_category"), Opt(Note("location")),
      Text("org_unit"), Opt(Note("cost_center"))>>)
ASSET_DEPRECIATION_V1 ==
  EventSchema("asset.depreciation", 1,
    <<Uuid("asset_id"), Date("period_start"), Date("period_end"), Pos("depreciation_amount"),
      Cur("currency"), NonNeg("accumulated_depreciation"), NonNeg("net_book_value"),
      Text("org_unit"), Opt(Note("cost_center"))>>)
ASSET_DISPOSAL_V1 ==
  EventSchema("asset.disposal", 1,
    <<Uuid("asset_id"), Date("disposal_date"),
      Enum("disposal_type", {"RETIREMENT", "SALE", "TRANSFER", "WRITE_OFF"}),
      Opt(NonNeg("proceeds")), Cur("currency"), NonNeg("net_book_value_at_disposal"),
      Dec("gain_loss"), Opt(Note("buyer_party_code")), Text("org_unit")>>)

\* bank.py
BANK_DEPOSIT_V1 ==
  EventSchema("bank.deposit", 1,
    <<Uuid("deposit_id"), Text("deposit_reference"), Text("bank_account_code"),
      Date("deposit_date"), Pos("amount"), Cur("currency"),
      Enum("source_type", {"CASH_SALES", "CUSTOMER_PAYMENT", "OTHER", "TRANSFER"}),
      Opt(Note("source_reference")), Text("org_unit")>>)
BANK_WITHDRAWAL_V1 ==
  EventSchema("bank.withdrawal", 1,
    <<Uuid("withdrawal_id"), Text("withdrawal_reference"), Text("bank_account_code"),
      Date("withdrawal_date"), Pos("amount"), Cur("currency"),
      Enum("destination_type", {"EXPENSE", "OTHER", "PAYROLL", "SUPPLIER_PAYMENT",
      "TRANSFER"}), Opt(Note("destination_reference")), Opt(Note("expense_account_role")),
      Text("org_unit"), Opt(Note("cost_center"))>>)
BANK_TRANSFER_V1 ==
  EventSchema("bank.transfer", 1,
    <<Uuid("transfer_id"), Text("transfer_reference"), Text("from_bank_account_code"),
      Text("to_bank_account_code"), Date("transfer_date"), Pos("from_amount"),
      Cur("from_currency"), Pos("to_amount"), Cur("to_currency"), Opt(Pos("exchange_rate")),
      Text("org_unit")>>)
BANK_RECONCILIATION_V1 ==
  EventSchema("bank.reconciliation", 1,
    <<Uuid("reconciliation_id"), Text("bank_account_code"), Date("statement_date"),
      Text("bank_transaction_id"), ListOf("matched_transaction_ids", "uuid"), Dec("amount"),
      Cur("currency"), Enum("match_type", {"EXACT", "GROUPED", "MANUAL", "PARTIAL"}),
      Text("org_unit")>>)

\* contract.py
CONTRACT_COST_INCURRED_V1 ==
  EventSchema("contract.cost_incurred", 1,
    <<Uuid("incurrence_id"), Text("contract_number"), Opt(Note("clin_number")),
      Date("incurrence_date"), Enum("cost_type", {"DIRECT_LABOR", "DIRECT_MATERIAL",
      "INDIRECT_FRINGE", "INDIRECT_GA", "INDIRECT_OVERHEAD", "ODC", "SUBCONTRACT", "TRAVEL"}),
      Pos("amount"), Cur("currency"), Opt(NonNeg("quantity")), Opt(NonNeg("unit_rate")),
      Enum("source_document_type", {"AP_INVOICE", "EXPENSE_REPORT", "INDIRECT_ALLOCATION",
      "MATERIAL_ISSUE", "TIMESHEET"}), Uuid("source_document_id"),
      Opt(Note("labor_category")), Opt(Note("employee_party_code")), Text("org_unit"),
      Opt(Note("cost_center"))>>)
CONTRACT_BILLING_PROVISIONAL_V1 ==
  EventSchema("contract.billing_provisional", 1,
    <<Uuid("billing_id"), Text("invoice_number"), Text("contract_number"),
      Date("billing_date"), Date("period_start"), Date("period_end"),
      Enum("billing_type", {"COST_REIMBURSEMENT", "FIXED_PRICE_MILESTONE", "LABOR_HOUR",
      "TIME_AND_MATERIALS"}), NonNeg("direct_labor_cost"), NonNeg("fringe_cost"),
      NonNeg("overhead_cost"), NonNeg("ga_cost"), NonNeg("material_cost"),
      NonNeg("subcontract_cost"), NonNeg("travel_cost"), NonNeg("odc_cost"),
      NonNeg("total_cost"), NonNeg("fee_amount"), NonNeg("total_billing"), Cur("currency"),
      Opt(Dec("fringe_rate")), Opt(Dec("overhead_rate")), Opt(Dec("ga_rate")),
      Opt(Dec("fee_rate")), Text("customer_party_code"), Text("org_unit")>>)
CONTRACT_FEE_ACCRUAL_V1 ==
  EventSchema("contract.fee_accrual", 1,
    <<Uuid("accrual_id"), Text("contract_number"), Date("accrual_date"), Date("period_start"),
      Date("period_end"), Enum("fee_type", {"AWARD_FEE", "FIXED_FEE", "INCENTIVE_FEE"}),
      NonNeg("cost_base"), NonNeg("fee_rate"), NonNeg("fee_amount"), NonNeg("cumulative_fee"),
      Opt(NonNeg("ceiling_fee")), Cur("currency"), Text("org_unit")>>)
CONTRACT_INDIRECT_ALLOCATION_V1 ==
  EventSchema("contract.indirect_allocation", 1,
    <<Uuid("allocation_id"), Text("contract_number"), Date("allocation_date"),
      Date("period_start"), Date("period_end"),
      Enum("indirect_type", {"FRINGE", "G_AND_A", "MATERIAL_HANDLING", "OVERHEAD"}),
      NonNeg("base_amount"), NonNeg("rate"), NonNeg("allocated_amount"),
      Enum("rate_type", {"ACTUAL", "FINAL", "PROVISIONAL"}), Cur("currency"),
      Text("org_unit"), Opt(Note("cost_center"))>>)
CONTRACT_RATE_ADJUSTMENT_V1 ==
  EventSchema("contract.rate_adjustment", 1,
    <<Uuid("adjustment_id"), Text("contract_number"), Date("adjustment_date"),
      Between("fiscal_year", 2000, 2100),
      Enum("indirect_type", {"FRINGE", "G_AND_A", "MATERIAL_HANDLING", "OVERHEAD"}),
      NonNeg("provisional_rate"), NonNeg("final_rate"), NonNeg("base_amount"),
      Dec("adjustment_amount"), Cur("currency"), Text("org_unit")>>)

\* dcaa.py
AP_INVOICE_RECEIVED_V2 ==
  EventSchema("ap.invoice_received", 2,
    <<Uuid("invoice_id"), Text("invoice_number"), Text("supplier_party_code"),
      Date("invoice_date"), Date("due_date"), Pos("gross_amount"), Opt(NonNeg("tax_amount")),
      Pos("net_amount"), Cur("currency"), Opt(Pos("exchange_rate")), Opt(Note("po_number")),
      Opt(Note("receipt_number")), Opt(Note("expense_account_role")),
      Opt(List("lines", <<Whole("line_number"), Note("description"), Dec("amount"),
      Opt(Str("account_role")), Opt(Str("cost_center")), Opt(Enum("allowability",
      {"ALLOWABLE", "CONDITIONAL", "UNALLOWABLE"})), Opt(Str("unallowable_reason"))>>)),
      Enum("allowability", {"ALLOWABLE", "CONDITIONAL", "UNALLOWABLE"}),
      Opt(Enum("unallowable_reason", {"ADVERTISING", "ALCOHOL", "BAD_DEBT",
      "COMPENSATION_EXCESS", "CONTRIBUTIONS", "ENTERTAINMENT", "FINES_PENALTIES", "GOODWILL",
      "INTEREST", "LOBBYING", "ORGANIZATION_COSTS", "OTHER", "PATENT_COSTS",
      "TRAVEL_EXCESS"})), Opt(Uuid("contract_id")), Opt(Note("contract_line_number")),
      Text("org_unit"), Opt(Note("cost_center")), Opt(Note("project"))>>)
BANK_WITHDRAWAL_V2 ==
  EventSchema("bank.withdrawal", 2,
    <<Uuid("withdrawal_id"), Text("withdrawal_reference"), Text("bank_account_code"),
      Date("withdrawal_date"), Pos("amount"), Cur("currency"),
      Enum("destination_type", {"EXPENSE", "OTHER", "PAYROLL", "SUPPLIER_PAYMENT",
      "TRANSFER"}), Opt(Note("destination_reference")), Opt(Note("expense_account_role")),
      Opt(Enum("allowability", {"ALLOWABLE", "CONDITIONAL", "UNALLOWABLE"})),
      Opt(Enum("unallowable_reason", {"ADVERTISING", "ALCOHOL", "BAD_DEBT",
      "COMPENSATION_EXCESS", "CONTRIBUTIONS", "ENTERTAINMENT", "FINES_PENALTIES", "GOODWILL",
      "INTEREST", "LOBBYING", "ORGANIZATION_COSTS", "OTHER", "PATENT_COSTS",
      "TRAVEL_EXCESS"})), Opt(Uuid("contract_id")), Opt(Note("contract_line_number")),
      Text("org_unit"), Opt(Note("cost_center"))>>)
PAYROLL_TIMESHEET_V2 ==
  EventSchema("payroll.timesheet", 2,
    <<Uuid("timesheet_id"), Text("employee_party_code"), Date("work_date"),
      UpTo(24, Pos("hours")), Enum("pay_code", {"DOUBLE_TIME", "HOLIDAY", "OVERTIME",
      "REGULAR", "SICK", "VACATION"}), NonNeg("hourly_rate"), NonNeg("total_amount"),
      Cur("currency"), Bool("is_billable"), Opt(Uuid("work_order_id")),
      Enum("allowability", {"ALLOWABLE", "CONDITIONAL", "UNALLOWABLE"}),
      Opt(Enum("unallowable_reason", {"ADVERTISING", "ALCOHOL", "BAD_DEBT",
      "COMPENSATION_EXCESS", "CONTRIBUTIONS", "ENTERTAINMENT", "FINES_PENALTIES", "GOODWILL",
      "INTEREST", "LOBBYING", "ORGANIZATION_COSTS", "OTHER", "PATENT_COSTS",
      "TRAVEL_EXCESS"})), Opt(Uuid("contract_id")), Opt(Note("contract_line_number")),
      Opt(Note("labor_category")), Text("org_unit"), Text("cost_center"),
      Opt(Note("project")), Opt(Note("department"))>>)
PAYROLL_LABOR_DISTRIBUTION_V2 ==
  EventSchema("payroll.labor_distribution", 2,
    <<Uuid("distribution_id"), Uuid("pay_period_id"), Text("employee_party_code"),
      Date("distribution_date"), Enum("labor_type", {"DIRECT", "INDIRECT", "OVERHEAD"}),
      Pos("amount"), Cur("currency"), Opt(Uuid("work_order_id")),
      Enum("allowability", {"ALLOWABLE", "CONDITIONAL", "UNALLOWABLE"}),
      Opt(Enum("unallowable_reason", {"ADVERTISING", "ALCOHOL", "BAD_DEBT",
      "COMPENSATION_EXCESS", "CONTRIBUTIONS", "ENTERTAINMENT", "FINES_PENALTIES", "GOODWILL",
      "INTEREST", "LOBBYING", "ORGANIZATION_COSTS", "OTHER", "PATENT_COSTS",
      "TRAVEL_EXCESS"})), Opt(Uuid("contract_id")), Opt(Note("contract_line_number")),
      Opt(Note("labor_category")), Opt(Enum("indirect_rate_type", {"FRINGE", "G_AND_A",
      "MATERIAL_HANDLING", "OVERHEAD"})), Text("org_unit"), Text("cost_center"),
      Opt(Note("project"))>>)
TIMESHEET_SUBMITTED_V3 ==
  EventSchema("timesheet.submitted", 3,
    <<Uuid("submission_id"), Uuid("employee_id"), Uuid("pay_period_id"),
      Date("work_week_start"), NonNeg("total_hours"), Whole("entry_count"),
      Date("submitted_at"), Text("org_unit")>>)
TIMESHEET_APPROVED_V3 ==
  EventSchema("timesheet.approved", 3,
    <<Uuid("submission_id"), Uuid("approver_id"), Date("approved_at")>>)
TIMESHEET_REJECTED_V3 ==
  EventSchema("timesheet.rejected", 3,
    <<Uuid("submission_id"), Uuid("rejector_id"), Text("reason"), Date("rejected_at")>>)
TIMESHEET_CORRECTED_V3 ==
  EventSchema("timesheet.corrected", 3,
    <<Uuid("correction_id"), Uuid("original_entry_id"), Uuid("reversal_event_id"),
      Uuid("new_entry_id"), Text("reason"), Date("corrected_at")>>)
FLOOR_CHECK_COMPLETED_V3 ==
  EventSchema("floor_check.completed", 3,
    <<Uuid("check_id"), Uuid("employee_id"), Date("check_date"),
      Opt(Note("observed_activity")), Opt(Uuid("charged_contract_id")),
      Enum("result", {"CONFIRMED", "DISCREPANCY", "EMPLOYEE_ABSENT"}), Uuid("checker_id")>>)
FLOOR_CHECK_DISCREPANCY_RESOLVED_V3 ==
  EventSchema("floor_check.discrepancy_resolved", 3,
    <<Uuid("check_id"), Text("resolution"), Uuid("resolved_by"), Date("resolved_at")>>)
EXPENSE_TRAVEL_AUTH_SUBMITTED_V3 ==
  EventSchema("expense.travel_auth_submitted", 3,
    <<Uuid("authorization_id"), Uuid("employee_id"), Text("destination"), Text("purpose"),
      Date("travel_start"), Date("travel_end"), Pos("total_estimated"), Cur("currency"),
      Opt(Uuid("contract_id")), Text("org_unit")>>)
EXPENSE_TRAVEL_AUTH_APPROVED_V3 ==
  EventSchema("expense.travel_auth_approved", 3,
    <<Uuid("authorization_id"), Uuid("approver_id"), Date("approved_at")>>)
EXPENSE_TRAVEL_AUTH_REJECTED_V3 ==
  EventSchema("expense.travel_auth_rejected", 3,
    <<Uuid("authorization_id"), Uuid("rejector_id"), Text("reason"), Date("rejected_at")>>)
EXPENSE_REPORT_GSA_VALIDATED_V3 ==
  EventSchema("expense.report_gsa_validated", 3,
    <<Uuid("report_id"), Bool("is_compliant"), NonNeg("total_claimed"),
      NonNeg("total_allowed"), Opt(NonNeg("excess_amount")), Whole("violation_count"),
      Text("travel_location")>>)
CONTRACT_RATE_VERIFIED_V3 ==
  EventSchema("contract.rate_verified", 3,
    <<Uuid("employee_id"), Opt(Uuid("contract_id")), Note("labor_category"),
      NonNeg("charged_rate"), NonNeg("approved_rate"), Opt(NonNeg("ceiling_rate")),
      Bool("is_valid"), Opt(Enum("violation_type", {"EXCEEDS_CLASSIFICATION",
      "EXCEEDS_CONTRACT_CEILING", "PROVISIONAL_NOT_APPROVED", "RATE_EXPIRED"})),
      Date("charge_date")>>)
CONTRACT_RATE_CEILING_EXCEEDED_V3 ==
  EventSchema("contract.rate_ceiling_exceeded", 3,
    <<Uuid("employee_id"), Uuid("contract_id"), Note("labor_category"),
      NonNeg("charged_rate"), NonNeg("ceiling_rate"), NonNeg("excess_amount"),
      Date("charge_date")>>)
CONTRACT_RATE_RECONCILIATION_V3 ==
  EventSchema("contract.rate_reconciliation", 3,
    <<Uuid("reconciliation_id"), Whole("fiscal_year"),
      Enum("rate_type", {"FRINGE", "G_AND_A", "MATERIAL_HANDLING", "OVERHEAD"}),
      NonNeg("provisional_rate"), NonNeg("final_rate"), NonNeg("base_amount"),
      Dec("adjustment_amount"), Enum("direction", {"OVERAPPLIED", "UNDERAPPLIED"}),
      Cur("currency"), Text("org_unit")>>)

\* deferred.py
DEFERRED_RECOGNITION_V1 ==
  EventSchema("deferred.recognition", 1,
    <<Uuid("recognition_id"), Uuid("source_document_id"),
      Enum("recognition_type", {"EXPENSE", "REVENUE"}), Date("recognition_date"),
      Date("period_start"), Date("period_end"), Pos("amount"), Cur("currency"),
      NonNeg("total_deferred"), NonNeg("remaining_deferred"), Opt(Note("schedule_reference")),
      Text("org_unit"), Opt(Note("cost_center")), Opt(Note("project"))>>)

\* fx.py
FX_REVALUATION_V1 ==
  EventSchema("fx.revaluation", 1,
    <<Uuid("revaluation_id"), Date("revaluation_date"), Text("account_code"),
      Cur("foreign_currency"), Cur("functional_currency"), Dec("foreign_balance"),
      Pos("old_rate"), Pos("new_rate"), Dec("old_functional_value"),
      Dec("new_functional_value"), Dec("gain_loss"), Bool("is_realized"), Text("org_unit")>>)

\* generic.py
GENERIC_POSTING_V1 ==
  EventSchema("generic.posting", 1,
    <<Text("description"), Cur("currency"), List("lines", <<Code("account_code"),
      Opt(NonNeg("debit")), Opt(NonNeg("credit")), Opt(Note("memo"))>>),
      Opt(Note("reference")), Opt(Note("memo"))>>)

\* inventory.py
INVENTORY_RECEIPT_V1 ==
  EventSchema("inventory.receipt", 1,
    <<Uuid("receipt_id"), Text("item_code"), Pos("quantity"), NonNeg("unit_cost"),
      NonNeg("total_cost"), Cur("currency"), Text("warehouse_code"), Opt(Note("lot_number")),
      Opt(ListOf("serial_numbers", "string")), Opt(Note("po_number")),
      Opt(Note("supplier_party_code")), Text("org_unit"), Opt(Note("cost_center"))>>)
INVENTORY_ISSUE_V1 ==
  EventSchema("inventory.issue", 1,
    <<Uuid("issue_id"), Text("item_code"), Pos("quantity"), NonNeg("unit_cost"),
      NonNeg("total_cost"), Cur("currency"), Text("warehouse_code"),
      Enum("issue_type", {"PRODUCTION", "SALE", "SAMPLE", "SCRAP", "TRANSFER"}),
      Opt(Note("lot_number")), Opt(ListOf("serial_numbers", "string")),
      Opt(Uuid("work_order_id")), Opt(Uuid("sales_order_id")), Text("org_unit"),
      Opt(Note("cost_center")), Opt(Note("project"))>>)
INVENTORY_ADJUSTMENT_V1 ==
  EventSchema("inventory.adjustment", 1,
    <<Uuid("adjustment_id"), Text("item_code"), Dec("quantity_change"), NonNeg("unit_cost"),
      Dec("total_value"), Cur("currency"), Text("warehouse_code"),
      Enum("adjustment_reason", {"DAMAGE", "ERROR_CORRECTION", "OBSOLESCENCE",
      "PHYSICAL_COUNT", "THEFT"}), Opt(Note("count_reference")), Text("org_unit")>>)

\* payroll.py
PAYROLL_TIMESHEET_V1 ==
  EventSchema("payroll.timesheet", 1,
    <<Uuid("timesheet_id"), Text("employee_party_code"), Date("work_date"),
      UpTo(24, Pos("hours")), Enum("pay_code", {"DOUBLE_TIME", "HOLIDAY", "OVERTIME",
      "REGULAR", "SICK", "VACATION"}), NonNeg("hourly_rate"), NonNeg("total_amount"),
      Cur("currency"), Bool("is_billable"), Opt(Uuid("work_order_id")), Text("org_unit"),
      Text("cost_center"), Opt(Note("project")), Opt(Note("department"))>>)
PAYROLL_LABOR_DISTRIBUTION_V1 ==
  EventSchema("payroll.labor_distribution", 1,
    <<Uuid("distribution_id"), Uuid("pay_period_id"), Text("employee_party_code"),
      Date("distribution_date"), Enum("labor_type", {"DIRECT", "INDIRECT", "OVERHEAD"}),
      Pos("amount"), Cur("currency"), Opt(Uuid("work_order_id")), Text("org_unit"),
      Text("cost_center"), Opt(Note("project"))>>)

\* Every definition registers itself when it is imported.
Schemas ==
  {AP_INVOICE_RECEIVED_V1, AP_PAYMENT_V1, AR_INVOICE_ISSUED_V1, AR_PAYMENT_RECEIVED_V1,
   AR_CREDIT_MEMO_V1, ASSET_ACQUISITION_V1, ASSET_DEPRECIATION_V1, ASSET_DISPOSAL_V1,
   BANK_DEPOSIT_V1, BANK_WITHDRAWAL_V1, BANK_TRANSFER_V1, BANK_RECONCILIATION_V1,
   CONTRACT_COST_INCURRED_V1, CONTRACT_BILLING_PROVISIONAL_V1, CONTRACT_FEE_ACCRUAL_V1,
   CONTRACT_INDIRECT_ALLOCATION_V1, CONTRACT_RATE_ADJUSTMENT_V1, AP_INVOICE_RECEIVED_V2,
   BANK_WITHDRAWAL_V2, PAYROLL_TIMESHEET_V2, PAYROLL_LABOR_DISTRIBUTION_V2,
   TIMESHEET_SUBMITTED_V3, TIMESHEET_APPROVED_V3, TIMESHEET_REJECTED_V3,
   TIMESHEET_CORRECTED_V3, FLOOR_CHECK_COMPLETED_V3, FLOOR_CHECK_DISCREPANCY_RESOLVED_V3,
   EXPENSE_TRAVEL_AUTH_SUBMITTED_V3, EXPENSE_TRAVEL_AUTH_APPROVED_V3,
   EXPENSE_TRAVEL_AUTH_REJECTED_V3, EXPENSE_REPORT_GSA_VALIDATED_V3,
   CONTRACT_RATE_VERIFIED_V3, CONTRACT_RATE_CEILING_EXCEEDED_V3,
   CONTRACT_RATE_RECONCILIATION_V3, DEFERRED_RECOGNITION_V1, FX_REVALUATION_V1,
   GENERIC_POSTING_V1, INVENTORY_RECEIPT_V1, INVENTORY_ISSUE_V1, INVENTORY_ADJUSTMENT_V1,
   PAYROLL_TIMESHEET_V1, PAYROLL_LABOR_DISTRIBUTION_V1}
============================================================================
