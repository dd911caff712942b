-------------------------- MODULE AccountsPayable --------------------------
(***************************************************************************)
(* Accounts payable: finance_modules/ap (workflows, profiles, service).    *)
(***************************************************************************)
EXTENDS PolicyPosting

---------------------------------------------------------------------------
(* Workflows. *)

INVOICE_WORKFLOW == {T("draft", "submit", "pending_match", Unguarded),
  T("draft", "cancel", "cancelled", Unguarded),
  T("pending_match", "match", "matched", "match_within_tolerance"),
  T("pending_match", "match_override", "pending_approval", Unguarded),
  T("pending_match", "cancel", "cancelled", Unguarded),
  T("matched", "request_approval", "pending_approval", Unguarded),
  T("pending_approval", "approve", "approved", "approval_threshold_met"),
  T("pending_approval", "reject", "matched", Unguarded),
  T("approved", "schedule_payment", "scheduled", Unguarded),
  T("scheduled", "mark_paid", "paid", Unguarded),
  T("approved", "cancel", "cancelled", Unguarded)}
PAYMENT_WORKFLOW == {T("draft", "submit", "pending_approval", "sufficient_funds"),
  T("draft", "void", "voided", Unguarded),
  T("pending_approval", "approve", "approved", "payment_approved"),
  T("pending_approval", "reject", "draft", Unguarded),
  T("approved", "release", "submitted", Unguarded),
  T("approved", "void", "voided", Unguarded),
  T("submitted", "confirm_cleared", "cleared", Unguarded),
  T("submitted", "void", "voided", Unguarded)}
_ap_draft_posted_workflow == DraftPosted

---------------------------------------------------------------------------
(* Accounting policies. *)

AP_INVOICE_EXPENSE ==
  Policy("APInvoiceExpense", "ap.invoice_received", <<Is("po_number", None)>>,
    <<Flag("party_is_frozen"), AtMost("gross_amount", 0)>>,
     <<Entry("GL", <<Dr("EXPENSE", Each("invoice_lines")), Dr("TAX_PAYABLE", From("tax_amount")), Cr("ACCOUNTS_PAYABLE", Amt)>>),
     Pair("AP", "INVOICE", "SUPPLIER_BALANCE")>>)
AP_INVOICE_PO_MATCHED ==
  Policy("APInvoicePOMatched", "ap.invoice_received", <<>>,
    <<Flag("party_is_frozen")>>,
     <<Entry("GL", <<Dr("GRNI", Amt), Dr("TAX_PAYABLE", From("tax_amount")), Cr("ACCOUNTS_PAYABLE", Amt)>>),
     Pair("AP", "INVOICE", "SUPPLIER_BALANCE")>>)
AP_INVOICE_INVENTORY ==
  Policy("APInvoiceInventory", "ap.invoice_received_inventory", <<>>,
    <<Flag("party_is_frozen")>>,
     <<Entry("GL", <<Dr("INVENTORY", Each("invoice_lines")), Dr("TAX_PAYABLE", From("tax_amount")), Cr("ACCOUNTS_PAYABLE", Amt)>>),
     Pair("AP", "INVOICE", "SUPPLIER_BALANCE")>>)
AP_PAYMENT ==
  Policy("APPayment", "ap.payment", <<>>,
    <<Flag("party_is_frozen"), AtMost("payment_amount", 0)>>,
     <<GL("ACCOUNTS_PAYABLE", "CASH"), Pair("AP", "SUPPLIER_BALANCE", "PAYMENT")>>)
AP_PAYMENT_WITH_DISCOUNT ==
  Policy("APPaymentWithDiscount", "ap.payment_with_discount", <<>>,
    <<>>,
     <<Entry("GL", <<Dr("ACCOUNTS_PAYABLE", Amt), Cr("CASH", From("payment_amount")), Cr("PURCHASE_DISCOUNT", From("discount_amount"))>>),
     Pair("AP", "SUPPLIER_BALANCE", "PAYMENT")>>)
AP_INVOICE_CANCELLED ==
  Policy("APInvoiceCancelled", "ap.invoice_cancelled", <<>>,
    <<>>,
     <<Entry("GL", <<Dr("ACCOUNTS_PAYABLE", Amt), Cr("EXPENSE", Each("invoice_lines")), Cr("TAX_PAYABLE", From("tax_amount"))>>),
     Pair("AP", "SUPPLIER_BALANCE", "REVERSAL")>>)
AP_ACCRUAL_RECORDED ==
  Policy("APAccrualRecorded", "ap.accrual_recorded", <<>>,
    <<>>, <<GL("EXPENSE", "ACCRUED_LIABILITY")>>)
AP_ACCRUAL_REVERSED ==
  Policy("APAccrualReversed", "ap.accrual_reversed", <<>>,
    <<>>, <<GL("ACCRUED_LIABILITY", "EXPENSE")>>)
AP_PREPAYMENT_RECORDED ==
  Policy("APPrepaymentRecorded", "ap.prepayment_recorded", <<>>,
    <<>>, <<GL("PREPAID_EXPENSE", "CASH")>>)
AP_PREPAYMENT_APPLIED ==
  Policy("APPrepaymentApplied", "ap.prepayment_applied", <<>>,
    <<>>, <<GL("ACCOUNTS_PAYABLE", "PREPAID_EXPENSE")>>)
Policies == <<AP_INVOICE_EXPENSE, AP_INVOICE_PO_MATCHED, AP_INVOICE_INVENTORY,
  AP_PAYMENT, AP_PAYMENT_WITH_DISCOUNT, AP_INVOICE_CANCELLED, AP_ACCRUAL_RECORDED,
  AP_ACCRUAL_REVERSED, AP_PREPAYMENT_RECORDED, AP_PREPAYMENT_APPLIED>>

---------------------------------------------------------------------------
(* Service methods. *)

\* Rows the methods insert, as they are when inserted.
Payment(p) == Add(<<"ap_payments", p>>, "draft")
PaymentRun(r) == Add(<<"ap_payment_runs", r>>, "draft")
VendorHold(h) == Add(<<"ap_vendor_holds", h>>, "active")

Invoice(i) == <<"ap_invoices", i>>

\* tax and po may be None; lines are the amounts of the invoice lines.
record_invoice(i, amount, tax, po, lines, frozen) ==
  Call("record_invoice",
    <<Guard(INVOICE_WORKFLOW, "draft", "submit", NoCtx),
      Post("ap.invoice_received", amount,
           [gross_amount |-> amount, tax_amount |-> tax, po_number |-> po,
            invoice_lines |-> lines, party_is_frozen |-> frozen]),
      Add(Invoice(i), "draft"), Commit>>)

\* Transitions only: nothing is written, the row keeps its status.
submit_payment(amount, bank_balance) ==
  Call("submit_payment", <<Guard(PAYMENT_WORKFLOW, "draft", "submit",
         [bank_balance |-> bank_balance, payment_amount |-> amount])>>)
approve_payment(invoice_status) ==
  Call("approve_payment", <<Guard(PAYMENT_WORKFLOW, "pending_approval", "approve",
         [invoice_status |-> IF invoice_status = None THEN "approved" ELSE invoice_status])>>)
approve_invoice ==
  Call("approve_invoice", <<Guard(INVOICE_WORKFLOW, "pending_approval", "approve", NoCtx)>>)

PaymentSteps(p, i, amount, discount, frozen) ==
  LET discounted == discount # None /\ discount > 0
      payload == [payment_amount |-> amount, party_is_frozen |-> frozen,
                  discount_amount |-> IF discounted THEN discount ELSE None]
  IN  <<Guard(PAYMENT_WORKFLOW, "approved", "release", NoCtx), Apply(i, p, amount),
        IF discounted THEN Post("ap.payment_with_discount", amount + discount, payload)
        ELSE Post("ap.payment", amount, payload),
        Payment(p), Commit>>
record_payment(p, i, amount, discount, frozen) ==
  Call("record_payment", PaymentSteps(p, i, amount, discount, frozen))

\* The three-way match posts the matched amount, the smallest of the documents.
\* The FULFILLED_BY links it writes besides are read by nothing in the model.
match_invoice_to_po(invoice_amount, po_amount, tolerance) ==
  LET matched == IF invoice_amount < po_amount THEN invoice_amount ELSE po_amount
  IN  Call("match_invoice_to_po",
        <<Guard(INVOICE_WORKFLOW, "pending_match", "match",
            [invoice_amount |-> invoice_amount, po_amount |-> po_amount,
             tolerance_percent |-> tolerance]),
          Post("ap.invoice_received", matched,
            [po_number |-> "po", matched_amount |-> matched, party_is_frozen |-> FALSE]),
          Commit>>)

\* The status that decides is read before the posting.
cancel_invoice(i, amount, tax, lines) ==
  Call("cancel_invoice",
    <<GuardRow(INVOICE_WORKFLOW, Invoice(i), "draft", "cancel", NoCtx),
      Post("ap.invoice_cancelled", amount, [tax_amount |-> tax, invoice_lines |-> lines]),
      Set(Invoice(i), "cancelled"), Commit>>)

record_inventory_invoice(i, amount, tax, lines) ==
  Call("record_inventory_invoice",
    <<PostGuard(_ap_draft_posted_workflow),
      Post("ap.invoice_received_inventory", amount,
           [gross_amount |-> amount, tax_amount |-> tax, invoice_lines |-> lines]),
      Add(Invoice(i), "draft"), Commit>>)

record_accrual(amount) ==
  Call("record_accrual", <<PostGuard(_ap_draft_posted_workflow),
                           Post("ap.accrual_recorded", amount, NoCtx), Commit>>)
reverse_accrual(amount) ==
  Call("reverse_accrual", <<PostGuard(_ap_draft_posted_workflow),
                            Post("ap.accrual_reversed", amount, NoCtx), Commit>>)
record_prepayment(amount) ==
  Call("record_prepayment", <<PostGuard(_ap_draft_posted_workflow),
         Post("ap.prepayment_recorded", amount, [prepayment_amount |-> amount]), Commit>>)
apply_prepayment(p, i, amount) ==
  Call("apply_prepayment",
    <<PostGuard(_ap_draft_posted_workflow), Apply(i, p, amount),
      Post("ap.prepayment_applied", amount, [applied_amount |-> amount]), Commit>>)

\* A run is added to the session and not committed; its execution pays each
\* line under a new payment id, and goes on after a line that fails.
create_payment_run(r) == Call("create_payment_run", <<PaymentRun(r)>>)
execute_payment_run(lines) ==
  Batch("execute_payment_run",
    [n \in DOMAIN lines |-> PaymentSteps(lines[n].payment, lines[n].invoice, lines[n].amount,
                                         lines[n].discount, lines[n].frozen)])

hold_vendor(h) == Call("hold_vendor", <<VendorHold(h)>>)
release_vendor_hold(h) ==
  Call("release_vendor_hold", <<Set(<<"ap_vendor_holds", h>>, "released")>>)

PayLine(p, i, amount, frozen) ==
  [payment |-> p, invoice |-> i, amount |-> amount, discount |-> None, frozen |-> frozen]

Calls ==
  {record_invoice("i", 2, x[1], None, x[2], x[3]) :
     x \in {<<None, None, FALSE>>, <<1, <<1>>, FALSE>>, <<None, <<1, 1>>, TRUE>>}}
  \cup {record_invoice("i", 2, None, "po", None, FALSE),
        record_invoice("i", 2, 1, "po", None, FALSE), record_inventory_invoice("i", 2, 1, <<1>>)}
  \cup {submit_payment(2, 1), approve_payment(None), approve_invoice,
        record_payment("p", "i", 2, 1, FALSE), record_payment("q", "i", 1, None, FALSE),
        match_invoice_to_po(2, 2, 5), match_invoice_to_po(3, 2, 5),
        cancel_invoice("i", 2, 1, <<1>>), record_accrual(1), reverse_accrual(1),
        record_prepayment(1), apply_prepayment("p", "i", 1), create_payment_run("r"),
        execute_payment_run(<<PayLine("p", "i", 1, TRUE), PayLine("q", "j", 1, FALSE)>>),
        hold_vendor("h"), release_vendor_hold("h")}
============================================================================
