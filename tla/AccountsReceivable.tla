------------------------- MODULE AccountsReceivable -------------------------
(***************************************************************************)
(* Accounts receivable: finance_modules/ar (workflows, profiles, service). *)
(***************************************************************************)
EXTENDS PolicyPosting

---------------------------------------------------------------------------
(* Workflows. *)

INVOICE_WORKFLOW == {T("draft", "issue", "issued", "credit_check_passed"),
  T("draft", "post", "issued", "credit_check_passed"),
  T("draft", "cancel", "cancelled", Unguarded),
  T("issued", "mark_delivered", "delivered", Unguarded),
  T("issued", "apply_payment", "partially_paid", Unguarded),
  T("issued", "apply_payment", "paid", "balance_zero"),
  T("delivered", "apply_payment", "partially_paid", Unguarded),
  T("delivered", "apply_payment", "paid", "balance_zero"),
  T("partially_paid", "apply_payment", "paid", "balance_zero"),
  T("partially_paid", "write_off", "written_off", "write_off_approved"),
  T("issued", "write_off", "written_off", "write_off_approved"),
  T("delivered", "write_off", "written_off", "write_off_approved"),
  T("issued", "cancel", "cancelled", Unguarded)}
RECEIPT_WORKFLOW == {T("unallocated", "post", "unallocated", Unguarded),
  T("unallocated", "allocate", "partially_allocated", Unguarded),
  T("unallocated", "allocate", "fully_allocated", Unguarded),
  T("partially_allocated", "allocate", "fully_allocated", Unguarded),
  T("partially_allocated", "unallocate", "unallocated", Unguarded),
  T("fully_allocated", "unallocate", "partially_allocated", Unguarded)}
AR_RECEIPT_APPLICATION_WORKFLOW == DraftPosted
AR_CREDIT_MEMO_WORKFLOW == DraftPosted
AR_WRITE_OFF_WORKFLOW == DraftPosted
AR_DEFERRED_REVENUE_WORKFLOW == DraftPosted
AR_REFUND_WORKFLOW == DraftPosted
AR_FINANCE_CHARGE_WORKFLOW == DraftPosted

---------------------------------------------------------------------------
(* Accounting policies. *)

AR_INVOICE ==
  Policy("ARInvoice", "ar.invoice", <<>>,
    <<Flag("party_is_frozen"), Unread("not check_credit_limit(party, payload.gross_amount)"), AtMost("gross_amount", 0)>>,
     <<Entry("GL", <<Dr("ACCOUNTS_RECEIVABLE", Amt), Cr("REVENUE", Each("invoice_lines")), Cr("TAX_LIABILITY", From("tax_amount"))>>),
     Pair("AR", "CUSTOMER_BALANCE", "INVOICE")>>)
AR_PAYMENT_RECEIVED ==
  Policy("ARPaymentReceived", "ar.payment", <<>>,
    <<AtMost("payment_amount", 0)>>, <<GL("CASH", "ACCOUNTS_RECEIVABLE"),
     Pair("AR", "PAYMENT", "CUSTOMER_BALANCE")>>)
AR_RECEIPT_RECEIVED ==
  Policy("ARReceiptReceived", "ar.receipt", <<>>,
    <<AtMost("receipt_amount", 0)>>, <<GL("CASH", "UNAPPLIED_CASH")>>)
AR_RECEIPT_APPLIED ==
  Policy("ARReceiptApplied", "ar.receipt_applied", <<>>,
    <<>>, <<GL("UNAPPLIED_CASH", "ACCOUNTS_RECEIVABLE"),
     Pair("AR", "PAYMENT", "CUSTOMER_BALANCE")>>)
AR_RECEIPT_APPLIED_WITH_DISCOUNT ==
  Policy("ARReceiptAppliedDiscount", "ar.receipt_applied", <<Is("has_discount", TRUE)>>,
    <<>>,
     <<Entry("GL", <<Dr("UNAPPLIED_CASH", Amt), Dr("DISCOUNT_EXPENSE", From("discount_amount")), Cr("ACCOUNTS_RECEIVABLE", Amt)>>),
     Pair("AR", "PAYMENT", "CUSTOMER_BALANCE")>>)
AR_CREDIT_MEMO_RETURN ==
  Policy("ARCreditMemoReturn", "ar.credit_memo", <<Is("reason_code", "RETURN")>>,
    <<>>, <<GL("SALES_RETURNS", "ACCOUNTS_RECEIVABLE"),
     Pair("AR", "CREDIT", "CUSTOMER_BALANCE")>>)
AR_CREDIT_MEMO_PRICE_ADJ ==
  Policy("ARCreditMemoPriceAdj", "ar.credit_memo", <<Is("reason_code", "PRICE_ADJUSTMENT")>>,
    <<>>, <<GL("SALES_ALLOWANCE", "ACCOUNTS_RECEIVABLE"),
     Pair("AR", "CREDIT", "CUSTOMER_BALANCE")>>)
AR_CREDIT_MEMO_SERVICE ==
  Policy("ARCreditMemoService", "ar.credit_memo", <<Is("reason_code", "SERVICE_CREDIT")>>,
    <<>>, <<GL("REVENUE", "ACCOUNTS_RECEIVABLE"),
     Pair("AR", "CREDIT", "CUSTOMER_BALANCE")>>)
AR_CREDIT_MEMO_ERROR ==
  Policy("ARCreditMemoError", "ar.credit_memo", <<Is("reason_code", "ERROR_CORRECTION")>>,
    <<>>, <<GL("REVENUE", "ACCOUNTS_RECEIVABLE"),
     Pair("AR", "CREDIT", "CUSTOMER_BALANCE")>>)
AR_WRITE_OFF ==
  Policy("ARWriteOff", "ar.write_off", <<>>,
    <<AtMost("write_off_amount", 0)>>,
     <<GL("ALLOWANCE_DOUBTFUL", "ACCOUNTS_RECEIVABLE"),
     Pair("AR", "WRITE_OFF", "CUSTOMER_BALANCE")>>)
AR_BAD_DEBT_PROVISION ==
  Policy("ARBadDebtProvision", "ar.bad_debt_provision", <<>>,
    <<>>, <<GL("BAD_DEBT_EXPENSE", "ALLOWANCE_DOUBTFUL")>>)
AR_DEFERRED_REVENUE_RECORDED ==
  Policy("ARDeferredRevenueRecorded", "ar.deferred_revenue_recorded", <<>>,
    <<>>, <<GL("CASH", "DEFERRED_REVENUE")>>)
AR_DEFERRED_REVENUE_RECOGNIZED ==
  Policy("ARDeferredRevenueRecognized", "ar.deferred_revenue_recognized", <<>>,
    <<>>, <<GL("DEFERRED_REVENUE", "REVENUE")>>)
AR_REFUND_ISSUED ==
  Policy("ARRefundIssued", "ar.refund", <<>>,
    <<AtMost("refund_amount", 0)>>, <<GL("ACCOUNTS_RECEIVABLE", "CASH"),
     Pair("AR", "REFUND", "CUSTOMER_BALANCE")>>)
AR_FINANCE_CHARGE ==
  Policy("ARFinanceCharge", "ar.finance_charge", <<>>,
    <<AtMost("amount", 0)>>, <<GL("ACCOUNTS_RECEIVABLE", "INTEREST_INCOME"),
     Pair("AR", "CUSTOMER_BALANCE", "FINANCE_CHARGE")>>)
Policies == <<AR_INVOICE, AR_PAYMENT_RECEIVED, AR_RECEIPT_RECEIVED, AR_RECEIPT_APPLIED,
  AR_RECEIPT_APPLIED_WITH_DISCOUNT, AR_CREDIT_MEMO_RETURN, AR_CREDIT_MEMO_PRICE_ADJ,
  AR_CREDIT_MEMO_SERVICE, AR_CREDIT_MEMO_ERROR, AR_WRITE_OFF, AR_BAD_DEBT_PROVISION,
  AR_DEFERRED_REVENUE_RECORDED, AR_DEFERRED_REVENUE_RECOGNIZED, AR_REFUND_ISSUED,
  AR_FINANCE_CHARGE>>

---------------------------------------------------------------------------
(* Service methods. *)

\* Rows the methods insert, as they are when inserted.
CreditMemo(m) == Add(<<"ar_credit_memos", m>>, "draft")
DunningHistory(level) == AddNew("ar_dunning_history", level)
CreditDecision(status) == AddNew("ar_credit_decisions", status)

Invoice(i) == <<"ar_invoices", i>>
Receipt(r) == <<"ar_receipts", r>>

\* The credit guard compares the customer's subledger balance plus the invoice
\* with the party's limit (None: no limit).
record_invoice(i, amount, tax, lines, balance, limit) ==
  Call("record_invoice",
    <<Guard(INVOICE_WORKFLOW, "draft", "post",
        [current_balance |-> balance, proposed_amount |-> amount, credit_limit |-> limit]),
      Post("ar.invoice", amount,
           [gross_amount |-> amount, tax_amount |-> tax, invoice_lines |-> lines]),
      Add(Invoice(i), "draft"), Commit>>)

ReceiptGuard == Guard(RECEIPT_WORKFLOW, "unallocated", "post", NoCtx)
record_payment(p, amount) ==
  Call("record_payment",
    <<ReceiptGuard, Post("ar.payment", amount, [payment_amount |-> amount]),
      Add(Receipt(p), "unallocated"), Commit>>)
record_receipt(r, amount) ==
  Call("record_receipt",
    <<ReceiptGuard, Post("ar.receipt", amount, [receipt_amount |-> amount]),
      Add(Receipt(r), "unallocated"), Commit>>)

\* With one amount for all invoices the sequential allocation, which has no
\* eligible amounts to go by, gives it all to the first of them; with neither
\* amounts the method raises.
Allocate(invoices, payment_amount, invoice_amounts) ==
  IF invoice_amounts # None /\ Len(invoice_amounts) = Len(invoices)
  THEN [n \in DOMAIN invoices |-> [invoice |-> invoices[n], amount |-> invoice_amounts[n]]]
  ELSE IF payment_amount = None \/ invoices = <<>> THEN <<>>
  ELSE <<[invoice |-> invoices[1], amount |-> payment_amount]>>
Applied(as) == IF as = <<>> THEN 0 ELSE IF Len(as) = 1 THEN as[1].amount
               ELSE as[1].amount + as[2].amount

ApplySteps(p, invoices, payment_amount, invoice_amounts, discount) ==
  LET as == Allocate(invoices, payment_amount, invoice_amounts)
      discounted == discount # None /\ discount > 0
  IN  IF payment_amount = None /\ as = <<>> THEN <<PostGuard(AR_RECEIPT_APPLICATION_WORKFLOW), RaiseError>>
      ELSE <<PostGuard(AR_RECEIPT_APPLICATION_WORKFLOW)>>
             \o [n \in DOMAIN as |-> Apply(as[n].invoice, p, as[n].amount)]
             \o <<Post("ar.receipt_applied", Applied(as),
                       [total_applied |-> Applied(as),
                        has_discount |-> IF discounted THEN TRUE ELSE None,
                        discount_amount |-> IF discounted THEN discount ELSE None]),
                  Commit>>
apply_payment(p, invoices, payment_amount, invoice_amounts, discount) ==
  Call("apply_payment", ApplySteps(p, invoices, payment_amount, invoice_amounts, discount))
auto_apply_payment(p, invoices, payment_amount) ==
  Call("auto_apply_payment", <<PostGuard(AR_RECEIPT_APPLICATION_WORKFLOW)>>
                               \o ApplySteps(p, invoices, payment_amount, None, None))

record_credit_memo(m, amount, reason_code) ==
  Call("record_credit_memo",
    <<PostGuard(AR_CREDIT_MEMO_WORKFLOW),
      Post("ar.credit_memo", amount, [reason_code |-> reason_code]),
      CreditMemo(m), Commit>>)

\* The invoice is looked up after the posting; nothing looks at its status.
WriteOffSteps(i, amount) ==
  <<PostGuard(AR_WRITE_OFF_WORKFLOW),
    Post("ar.write_off", amount, [write_off_amount |-> amount]),
    Set(Invoice(i), "written_off"), Commit>>
record_write_off(i, amount) == Call("record_write_off", WriteOffSteps(i, amount))
auto_write_off_small_balances(threshold, balances) ==
  LET small == SelectSeq(balances, LAMBDA b : b.balance > 0 /\ b.balance <= threshold)
  IN  Batch("auto_write_off_small_balances",
            [n \in DOMAIN small |-> WriteOffSteps(small[n].invoice, small[n].balance)])

record_bad_debt_provision(amount) ==
  PostOnly("record_bad_debt_provision", AR_WRITE_OFF_WORKFLOW, "ar.bad_debt_provision", amount,
         [provision_amount |-> amount])
record_deferred_revenue(amount) ==
  PostOnly("record_deferred_revenue", AR_DEFERRED_REVENUE_WORKFLOW,
         "ar.deferred_revenue_recorded", amount, [deferred_amount |-> amount])
recognize_deferred_revenue(amount) ==
  PostOnly("recognize_deferred_revenue", AR_DEFERRED_REVENUE_WORKFLOW,
         "ar.deferred_revenue_recognized", amount, [recognized_amount |-> amount])
record_refund(amount) ==
  PostOnly("record_refund", AR_REFUND_WORKFLOW, "ar.refund", amount, [refund_amount |-> amount])
record_finance_charge(amount) ==
  PostOnly("record_finance_charge", AR_FINANCE_CHARGE_WORKFLOW, "ar.finance_charge", amount,
         [charge_amount |-> amount])

\* Rows added to the session and left to a later commit.  The level of a letter
\* follows the days overdue.
DunningLevel(days) ==
  CASE days <= 30 -> "reminder" [] days <= 60 -> "first_notice" [] days <= 90 -> "second_notice"
    [] days <= 120 -> "final_notice" [] OTHER -> "collection"
generate_dunning_letters(days_overdue) ==
  Call("generate_dunning_letters",
       IF days_overdue <= 0 THEN <<>>
       ELSE <<DunningHistory(DunningLevel(days_overdue))>>)
check_credit_limit(order_amount, current_balance, credit_limit) ==
  Call("check_credit_limit", <<CreditDecision(
         IF current_balance + order_amount <= credit_limit THEN "approved" ELSE "declined")>>)
update_credit_limit == Call("update_credit_limit", <<CreditDecision( "approved")>>)

Calls ==
  {record_invoice("i", 2, 1, <<1>>, 0, 2), record_invoice("i", 2, None, None, 1, 2),
   record_payment("r", 1), record_receipt("r", 1),
   apply_payment("r", <<"i", "j">>, None, <<1, 1>>, None),
   apply_payment("q", <<"i">>, 2, None, None), apply_payment("q", <<"i">>, None, None, None),
   apply_payment("q", <<"i">>, 2, None, 1),
   auto_apply_payment("r", <<"i", "j">>, 2),
   record_write_off("i", 1),
   auto_write_off_small_balances(1, <<[invoice |-> "i", balance |-> 1],
                                      [invoice |-> "j", balance |-> 2]>>),
   record_bad_debt_provision(1), record_deferred_revenue(1), recognize_deferred_revenue(1),
   record_refund(1), record_finance_charge(1), generate_dunning_letters(45),
   check_credit_limit(1, 1, 1), update_credit_limit}
  \cup {record_credit_memo("m", 1, r) : r \in {"RETURN", "PRICE_ADJUSTMENT", "SERVICE_CREDIT", "ERROR_CORRECTION"}}
============================================================================
