------------------------------ MODULE Payroll ------------------------------
(***************************************************************************)
(* Payroll and timesheets: finance_modules/payroll (workflows, profiles,   *)
(* helpers, service), with finance_engines/timesheet_compliance.py.        *)
(***************************************************************************)
EXTENDS PolicyPosting

---------------------------------------------------------------------------
(* Workflows. *)

_payroll_draft_posted == DraftPosted
PAYROLL_RUN_WORKFLOW == {
  T("draft", "calculate", "calculating", "all_timecards_approved"),
  T("calculating", "finish_calculation", "calculated", "calculation_complete"),
  T("calculated", "recalculate", "draft", Unguarded),
  T("calculated", "approve", "approved", "approval_obtained"),
  T("approved", "process", "processing", Unguarded),
  T("processing", "complete", "completed", Unguarded),
  T("completed", "reverse", "reversed", Unguarded)}
TIMESHEET_WORKFLOW == {T("draft", "submit", "submitted", "daily_recording_valid"),
  T("submitted", "route_for_approval", "pending_approval", "no_concurrent_overlap"),
  T("pending_approval", "approve", "approved", "supervisor_approved"),
  T("pending_approval", "reject", "rejected", Unguarded),
  T("rejected", "revise", "draft", Unguarded),
  T("approved", "initiate_correction", "correction_pending", "reversal_exists")}

---------------------------------------------------------------------------
(* Accounting policies. *)

PAYROLL_ACCRUAL ==
  Policy("PayrollAccrual", "payroll.accrual", <<>>,
    <<AtMost("gross_amount", 0)>>,
     <<Entry("GL", <<Dr("SALARY_EXPENSE", Amt), Dr("WAGE_EXPENSE", From("wage_amount")), Dr("PAYROLL_TAX_EXPENSE", From("tax_expense_amount")), Cr("FEDERAL_TAX_PAYABLE", From("federal_tax_amount")), Cr("STATE_TAX_PAYABLE", From("state_tax_amount")), Cr("FICA_PAYABLE", From("fica_amount")), Cr("BENEFITS_PAYABLE", From("benefits_amount")), Cr("ACCRUED_PAYROLL", From("net_pay_amount"))>>)>>)
PAYROLL_PAYMENT ==
  Policy("PayrollPayment", "payroll.payment", <<>>,
    <<AtMost("net_amount", 0)>>, <<GL("ACCRUED_PAYROLL", "CASH")>>)
PAYROLL_TAX_DEPOSIT ==
  Policy("PayrollTaxDeposit", "payroll.tax_deposit", <<>>,
    <<AtMost("deposit_amount", 0)>>,
     <<Entry("GL", <<Dr("FEDERAL_TAX_PAYABLE", From("federal_tax_amount")), Dr("STATE_TAX_PAYABLE", From("state_tax_amount")), Dr("FICA_PAYABLE", From("fica_amount")), Cr("CASH", Amt)>>)>>)
PAYROLL_BENEFITS_PAYMENT ==
  Policy("PayrollBenefitsPayment", "payroll.benefits_payment", <<>>,
    <<AtMost("amount", 0)>>, <<GL("BENEFITS_PAYABLE", "CASH")>>)
TIMESHEET_REGULAR ==
  Policy("TimesheetRegular", "timesheet.regular", <<Is("pay_code", "REGULAR")>>,
    <<AtMost("hours", 0), Above("hours", 24)>>,
     <<GL("WAGE_EXPENSE", "ACCRUED_PAYROLL")>>)
TIMESHEET_OVERTIME ==
  Policy("TimesheetOvertime", "timesheet.overtime", <<Is("pay_code", "OVERTIME")>>,
    <<AtMost("hours", 0)>>, <<GL("OVERTIME_EXPENSE", "ACCRUED_PAYROLL")>>)
TIMESHEET_PTO ==
  Policy("TimesheetPTO", "timesheet.pto", <<>>,
    <<>>, <<GL("PTO_EXPENSE", "ACCRUED_PAYROLL")>>)
LABOR_DISTRIBUTION_DIRECT ==
  Policy("LaborDistributionDirect", "labor.distribution_direct", <<Is("labor_type", "DIRECT")>>,
    <<AtMost("amount", 0)>>, <<GL("WIP", "LABOR_CLEARING")>>)
LABOR_DISTRIBUTION_INDIRECT ==
  Policy("LaborDistributionIndirect", "labor.distribution_indirect", <<Is("labor_type", "INDIRECT")>>,
    <<>>, <<GL("OVERHEAD_POOL", "LABOR_CLEARING")>>)
LABOR_DISTRIBUTION_OVERHEAD ==
  Policy("LaborDistributionOverhead", "labor.distribution_overhead", <<Is("labor_type", "OVERHEAD")>>,
    <<>>, <<GL("OVERHEAD_EXPENSE", "LABOR_CLEARING")>>)
PAYROLL_BENEFITS_DEDUCTED ==
  Policy("PayrollBenefitsDeducted", "payroll.benefits_deduction", <<>>,
    <<>>, <<GL("SALARY_EXPENSE", "BENEFITS_PAYABLE")>>)
PAYROLL_EMPLOYER_CONTRIBUTION ==
  Policy("PayrollEmployerContribution", "payroll.employer_contribution", <<>>,
    <<>>, <<GL("PAYROLL_TAX_EXPENSE", "BENEFITS_PAYABLE")>>)
Policies == <<PAYROLL_ACCRUAL, PAYROLL_PAYMENT, PAYROLL_TAX_DEPOSIT,
  PAYROLL_BENEFITS_PAYMENT, TIMESHEET_REGULAR, TIMESHEET_OVERTIME, TIMESHEET_PTO,
  LABOR_DISTRIBUTION_DIRECT, LABOR_DISTRIBUTION_INDIRECT, LABOR_DISTRIBUTION_OVERHEAD,
  PAYROLL_BENEFITS_DEDUCTED, PAYROLL_EMPLOYER_CONTRIBUTION>>

---------------------------------------------------------------------------
(* Service methods. *)

\* Rows the methods insert, as they are when inserted.
BenefitsDeduction == AddNew("payroll_benefits_deductions", "recorded")
TimesheetCorrection == AddNew("payroll_timesheet_corrections", "recorded")

PayrollRun(r) == <<"payroll_runs", r>>
Timesheet(t) == <<"payroll_timesheet_submissions", t>>
TimesheetEntry(e) == <<"payroll_timesheet_entries", e>>
FloorCheck(f) == <<"payroll_floor_checks", f>>

\* The run's id is the event's: a second call conflicts on both.
record_payroll_run(r, gross, federal, benefits) ==
  LET held == (IF federal = None THEN 0 ELSE federal) + (IF benefits = None THEN 0 ELSE benefits)
  IN  PostWithRow("record_payroll_run", _payroll_draft_posted, "payroll.accrual", gross,
        [gross_amount |-> gross, net_pay_amount |-> gross - held, federal_tax_amount |-> federal,
         benefits_amount |-> benefits], Add(PayrollRun(r), "draft"))
\* The tax goes to the field of its type; a type without one leaves the credit
\* alone, and the entry does not balance.
record_payroll_tax(tax_type, amount) ==
  LET In(t) == IF tax_type = t THEN amount ELSE None
  IN  PostOnly("record_payroll_tax", _payroll_draft_posted, "payroll.tax_deposit", amount,
        [deposit_amount |-> amount, federal_tax_amount |-> In("FEDERAL"),
         state_tax_amount |-> In("STATE"), fica_amount |-> In("FICA")])
record_payroll_payment(amount) ==
  PostOnly("record_payroll_payment", _payroll_draft_posted, "payroll.payment", amount,
    [net_amount |-> amount])
record_benefits_payment(amount) ==
  PostOnly("record_benefits_payment", _payroll_draft_posted, "payroll.benefits_payment",
    amount, [amount |-> amount])
record_regular_hours(hours, rate) ==
  PostOnly("record_regular_hours", _payroll_draft_posted, "timesheet.regular",
    hours * rate, [hours |-> hours, pay_code |-> "REGULAR"])
record_overtime(hours, rate) ==
  PostOnly("record_overtime", _payroll_draft_posted, "timesheet.overtime", hours * rate,
    [hours |-> hours, pay_code |-> "OVERTIME"])
record_pto(hours, rate) ==
  PostOnly("record_pto", _payroll_draft_posted, "timesheet.pto", hours * rate, [hours |-> hours])

\* One event for each target in one transaction; an unknown type is direct.
LaborEvent(t) ==
  CASE t = "INDIRECT" -> "labor.distribution_indirect" [] t = "OVERHEAD" -> "labor.distribution_overhead"
    [] OTHER -> "labor.distribution_direct"
allocate_labor_costs(targets) ==
  Call("allocate_labor_costs",
    IF targets = <<>> THEN <<RaiseError>>
    ELSE <<PostGuard(_payroll_draft_posted)>>
           \o [i \in DOMAIN targets |-> Post(LaborEvent(targets[i].type), targets[i].amount,
                 [amount |-> targets[i].amount, labor_type |-> targets[i].type])]
           \o <<Commit>>)

\* The row is added and nothing commits it.
record_benefits_deduction(amount) ==
  Call("record_benefits_deduction",
    <<PostGuard(_payroll_draft_posted), Post("payroll.benefits_deduction", amount, NoCtx),
      BenefitsDeduction>>)
record_employer_contribution(amount) ==
  PostOnly("record_employer_contribution", _payroll_draft_posted,
    "payroll.employer_contribution", amount, [amount |-> amount])

\* Timesheets.  The context of the transitions carries none of the flags that
\* their guards ask for.
submit_timesheet(t) ==
  Call("submit_timesheet",
    <<OrRaise(Guard(TIMESHEET_WORKFLOW, "draft", "submit", NoCtx)), Add(Timesheet(t), "submitted"),
      PostAnyway("timesheet.submitted", 0, NoCtx), Commit>>)
TimesheetEvent(pay_code) ==
  CASE pay_code \in {"OVERTIME", "DOUBLE_TIME"} -> "timesheet.overtime"
    [] pay_code \in {"SICK", "VACATION", "HOLIDAY", "PTO"} -> "timesheet.pto"
    [] OTHER -> "timesheet.regular"
approve_timesheet(t, entries) ==
  Call("approve_timesheet",
    <<Require(Timesheet(t), {"pending_approval"}),
      Guard(TIMESHEET_WORKFLOW, "pending_approval", "approve", NoCtx), Set(Timesheet(t), "approved"),
      PostAnyway("timesheet.approved", 0, NoCtx)>>
      \o [i \in DOMAIN entries |-> Post(TimesheetEvent(entries[i].pay_code), entries[i].hours,
            [hours |-> entries[i].hours, pay_code |-> entries[i].pay_code])]
      \o <<Commit>>)
reject_timesheet(t) ==
  Call("reject_timesheet",
    <<Require(Timesheet(t), {"pending_approval"}),
      OrRaise(Guard(TIMESHEET_WORKFLOW, "pending_approval", "reject", NoCtx)),
      Set(Timesheet(t), "rejected"), PostAnyway("timesheet.rejected", 0, NoCtx), Commit>>)
correct_timesheet_entry(e, new) ==
  Call("correct_timesheet_entry",
    <<Require(TimesheetEntry(e), {"recorded"}),
      Guard(TIMESHEET_WORKFLOW, "approved", "initiate_correction", NoCtx),
      Post("timesheet.corrected", 0, NoCtx), Add(TimesheetEntry(new), "recorded"),
      TimesheetCorrection, Commit>>)
record_floor_check(f) ==
  Call("record_floor_check",
    <<OrRaise(PostGuard(_payroll_draft_posted)), Add(FloorCheck(f), "recorded"),
      PostAnyway("floor_check.completed", 0, NoCtx), Commit>>)

Calls ==
  {record_payroll_run("r", 3, 1, 1), record_payroll_run("r", 1, None, 2), record_payroll_run("r", 0, None, None),
   record_payroll_payment(1), record_benefits_payment(1), record_regular_hours(1, 1),
   record_regular_hours(25, 1), record_overtime(1, 2), record_pto(1, 1),
   allocate_labor_costs(<<[type |-> "DIRECT", amount |-> 1], [type |-> "INDIRECT", amount |-> 1]>>),
   allocate_labor_costs(<<[type |-> "OVERHEAD", amount |-> 1], [type |-> "OTHER", amount |-> 1]>>),
   allocate_labor_costs(<<>>), record_benefits_deduction(1), record_employer_contribution(1),
   submit_timesheet("t"), approve_timesheet("t", <<[pay_code |-> "SICK", hours |-> 1]>>),
   reject_timesheet("t"), correct_timesheet_entry("e", "f"), record_floor_check("f")}
  \cup {record_payroll_tax(t, 1) : t \in {"FEDERAL", "STATE", "FICA", "LOCAL"}}
============================================================================
