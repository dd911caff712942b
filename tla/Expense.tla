------------------------------ MODULE Expense ------------------------------
(***************************************************************************)
(* Employee expenses: finance_modules/expense, with the travel checks of   *)
(* finance_engines/expense_compliance.py.                                  *)
(***************************************************************************)
EXTENDS PolicyPosting
LOCAL INSTANCE SequencesExt

---------------------------------------------------------------------------
(* Workflows. *)

_expense_draft_posted == DraftPosted
EXPENSE_REPORT_WORKFLOW == {T("draft", "submit", "submitted", "receipts_attached"),
  T("submitted", "route_for_approval", "pending_approval", Unguarded),
  T("pending_approval", "approve", "approved", "approval_authority"),
  T("pending_approval", "reject", "rejected", Unguarded),
  T("rejected", "revise", "draft", Unguarded),
  T("approved", "process_payment", "processing", Unguarded),
  T("processing", "mark_paid", "paid", Unguarded)}
TRAVEL_AUTH_WORKFLOW == {T("draft", "submit", "submitted", "pre_travel_valid"),
  T("submitted", "route_for_approval", "pending_approval", Unguarded),
  T("pending_approval", "approve", "approved", "travel_auth_authority"),
  T("pending_approval", "reject", "rejected", Unguarded),
  T("rejected", "revise", "draft", Unguarded)}

---------------------------------------------------------------------------
(* Accounting policies. *)

REPORT_APPROVED ==
  Policy("ExpenseReportApproved", "expense.report_approved", <<>>,
    <<AtMost("total_amount", 0)>>,
     <<Entry("GL", <<Dr("EXPENSE", Each("expense_lines")), Cr("EMPLOYEE_PAYABLE", Amt)>>)>>)
REPORT_APPROVED_BILLABLE ==
  Policy("ExpenseReportBillable", "expense.report_approved", <<Is("billable", TRUE)>>,
    <<AtMost("total_amount", 0)>>,
     <<Entry("GL", <<Dr("PROJECT_WIP", Each("expense_lines")), Cr("EMPLOYEE_PAYABLE", Amt)>>)>>)
REIMBURSEMENT_PAID ==
  Policy("ExpenseReimbursementPaid", "expense.reimbursement_paid", <<>>,
    <<AtMost("amount", 0)>>, <<GL("EMPLOYEE_PAYABLE", "CASH")>>)
CORPORATE_CARD_STATEMENT ==
  Policy("ExpenseCardStatement", "expense.card_statement", <<>>,
    <<AtMost("statement_total", 0)>>,
     <<Entry("GL", <<Dr("EXPENSE", Each("card_transactions")), Cr("CORPORATE_CARD_LIABILITY", Amt)>>)>>)
CORPORATE_CARD_PAYMENT ==
  Policy("ExpenseCardPayment", "expense.card_payment", <<>>,
    <<AtMost("amount", 0)>>, <<GL("CORPORATE_CARD_LIABILITY", "CASH")>>)
ADVANCE_ISSUED ==
  Policy("ExpenseAdvanceIssued", "expense.advance_issued", <<>>,
    <<AtMost("amount", 0)>>, <<GL("ADVANCE_CLEARING", "CASH")>>)
ADVANCE_CLEARED ==
  Policy("ExpenseAdvanceCleared", "expense.advance_cleared", <<>>,
    <<AtMost("amount", 0)>>, <<GL("EMPLOYEE_PAYABLE", "ADVANCE_CLEARING")>>)
RECEIPT_MATCHED ==
  Policy("ExpenseReceiptMatched", "expense.receipt_matched", <<>>,
    <<AtMost("amount", 0)>>, <<GL("EXPENSE", "CORPORATE_CARD_LIABILITY")>>)
Policies == <<REPORT_APPROVED, REPORT_APPROVED_BILLABLE, REIMBURSEMENT_PAID,
  CORPORATE_CARD_STATEMENT, CORPORATE_CARD_PAYMENT, ADVANCE_ISSUED, ADVANCE_CLEARED,
  RECEIPT_MATCHED>>

---------------------------------------------------------------------------
(* Service methods. *)

\* Rows the methods insert, as they are when inserted.
Reimbursement(r) == Add(<<"expense_reimbursements", r>>, "paid")

Report(r) == <<"expense_reports", r>>
TravelAuth(a) == <<"travel_authorizations", a>>
FromProject(project) == IF project = None THEN None ELSE TRUE

\* Tax is added on top of the amount; the expense line is the amount itself.
record_expense(amount, project) ==
  PostOnly("record_expense", _expense_draft_posted, "expense.report_approved", amount,
    [total_amount |-> amount, expense_lines |-> <<amount>>, billable |-> FromProject(project)])

SumOf(lines) == FoldSeq(LAMBDA x, acc : x + acc, 0, lines)
\* With tax the gross amount is posted against lines that carry no tax.
ReportSteps(r, lines, tax, billable) ==
  <<PostGuard(_expense_draft_posted),
    Post("expense.report_approved", SumOf(lines) + tax,
         [total_amount |-> SumOf(lines), expense_lines |-> lines,
          billable |-> IF billable THEN TRUE ELSE None]),
    Add(Report(r), "approved"), Commit>>
record_expense_report(r, lines, tax, billable) ==
  Call("record_expense_report", ReportSteps(r, lines, tax, billable))

\* shares: what the allocation engine gave the cost centers, zeros left out.
allocate_expense(amount, shares) ==
  PostOnly("allocate_expense", _expense_draft_posted, "expense.report_approved", amount,
    [total_amount |-> amount, expense_lines |-> shares])
record_reimbursement(r, amount) ==
  PostWithRow("record_reimbursement", _expense_draft_posted,
    "expense.reimbursement_paid", amount, [amount |-> amount],
    Reimbursement(r))
record_card_statement(transactions) ==
  PostOnly("record_card_statement", _expense_draft_posted,
    "expense.card_statement", SumOf(transactions),
    [statement_total |-> SumOf(transactions), card_transactions |-> transactions])
record_card_payment(amount) ==
  PostOnly("record_card_payment", _expense_draft_posted, "expense.card_payment",
    amount, [amount |-> amount])
issue_advance(amount) ==
  PostOnly("issue_advance", _expense_draft_posted, "expense.advance_issued", amount,
    [amount |-> amount])
clear_advance(amount) ==
  PostOnly("clear_advance", _expense_draft_posted, "expense.advance_cleared", amount,
    [amount |-> amount])
record_receipt_match(amount) ==
  PostOnly("record_receipt_match", _expense_draft_posted,
    "expense.receipt_matched", amount, [amount |-> amount])

\* No policy stands behind the travel events; their results are not looked at.
submit_travel_authorization(a, amount) ==
  Call("submit_travel_authorization",
    <<OrRaise(PostGuard(_expense_draft_posted)), Add(TravelAuth(a), "submitted"),
      PostAnyway("expense.travel_auth_submitted", amount, NoCtx), Commit>>)
approve_travel_authorization(a, amount) ==
  Call("approve_travel_authorization",
    <<Require(TravelAuth(a), {"submitted", "pending_approval"}),
      OrRaise(Guard(_expense_draft_posted, "pending_approval", "approve", NoCtx)),
      Set(TravelAuth(a), "approved"),
      PostAnyway("expense.travel_auth_approved", amount, NoCtx), Commit>>)

compute_allowable_per_diem(days, rate) ==
  CASE days <= 0 -> 0 [] days = 1 -> rate.first_last [] OTHER -> 2 * rate.first_last + rate.meals * (days - 2)
validate_gsa_compliance(lines, days, rate) ==
  LET Of(c) == SelectSeq(lines, LAMBDA l : l.category = c)
      amounts(c) == [i \in DOMAIN Of(c) |-> Of(c)[i].amount]
  IN  /\ \A i \in DOMAIN Of("lodging") : Of("lodging")[i].amount <= rate.lodging
      /\ SumOf(amounts("meals")) <= compute_allowable_per_diem(days, rate)

TravelExpenseCategory == {"airfare", "lodging", "meals", "mileage", "rental_car",
                          "taxi_rideshare", "parking", "other"}
\* Travel lines need an approved authorization, then the rates of the location.
record_expense_report_with_gsa_check(r, lines, auth, days, rate) ==
  LET travel == \E i \in DOMAIN lines : lines[i].category \in TravelExpenseCategory
      checked == SelectSeq(lines, LAMBDA l : l.category \in TravelExpenseCategory)
  IN  Call("record_expense_report_with_gsa_check",
        <<PostGuard(_expense_draft_posted)>>
          \o (IF ~travel THEN <<>>
              ELSE IF auth = None THEN <<RaiseError>>
              ELSE <<Require(TravelAuth(auth), {"approved"})>>)
          \o (IF checked = <<>> \/ rate = None THEN <<>>
              ELSE IF ~validate_gsa_compliance(checked, days, rate) THEN <<RaiseError>>
              ELSE <<PostAnyway("expense.report_gsa_validated", 0, NoCtx)>>)
          \o ReportSteps(r, [i \in DOMAIN lines |-> lines[i].amount], 0, FALSE))

Calls ==
  LET meal(n) == [category |-> "meals", amount |-> n]
      plain == [category |-> "office", amount |-> 1]
      rate == [lodging |-> 1, meals |-> 1, first_last |-> 1]
  IN  {record_expense(1, None), record_expense(1, "p"), record_expense_report("r", <<1, 1>>, 0, FALSE),
       record_expense_report("r", <<1>>, 1, TRUE), allocate_expense(2, <<1, 1>>),
       allocate_expense(2, <<1>>), record_reimbursement("r", 1), record_card_statement(<<1, 1>>),
       record_card_payment(1), issue_advance(1), clear_advance(1), record_receipt_match(1),
       submit_travel_authorization("a", 1), approve_travel_authorization("a", 1),
       record_expense_report_with_gsa_check("r", <<meal(1)>>, "a", 1, rate),
       record_expense_report_with_gsa_check("r", <<plain>>, None, 1, rate)}
============================================================================
