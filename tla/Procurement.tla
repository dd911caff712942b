---------------------------- MODULE Procurement ----------------------------
(***************************************************************************)
(* Procurement: finance_modules/procurement (workflows, profiles, service). *)
(***************************************************************************)
EXTENDS PolicyPosting

---------------------------------------------------------------------------
(* Workflows. *)

_procurement_draft_posted == DraftPosted
REQUISITION_WORKFLOW == {T("draft", "submit", "submitted", Unguarded),
  T("submitted", "approve", "approved", "budget_available"),
  T("submitted", "reject", "rejected", Unguarded),
  T("rejected", "revise", "draft", Unguarded),
  T("approved", "convert_to_po", "converted", Unguarded),
  T("draft", "cancel", "cancelled", Unguarded),
  T("submitted", "cancel", "cancelled", Unguarded)}
PURCHASE_ORDER_WORKFLOW == {T("draft", "submit", "pending_approval", Unguarded),
  T("pending_approval", "approve", "approved", Unguarded),
  T("pending_approval", "reject", "draft", Unguarded),
  T("approved", "send", "sent", "vendor_approved"),
  T("sent", "acknowledge", "acknowledged", Unguarded),
  T("sent", "receive", "partially_received", Unguarded),
  T("acknowledged", "receive", "partially_received", Unguarded),
  T("partially_received", "receive", "received", "all_lines_received"),
  T("received", "match_invoice", "invoiced", "fully_invoiced"),
  T("invoiced", "close", "closed", Unguarded),
  T("draft", "cancel", "cancelled", Unguarded),
  T("approved", "cancel", "cancelled", Unguarded)}

---------------------------------------------------------------------------
(* Accounting policies. *)

PO_ENCUMBRANCE ==
  Policy("POEncumbrance", "procurement.po_encumbered", <<>>,
    <<AtMost("amount", 0)>>, <<GL("ENCUMBRANCE", "RESERVE_FOR_ENCUMBRANCE")>>)
PO_ENCUMBRANCE_RELIEF ==
  Policy("POEncumbranceRelief", "procurement.po_relief", <<>>,
    <<AtMost("amount", 0)>>, <<GL("RESERVE_FOR_ENCUMBRANCE", "ENCUMBRANCE")>>)
PO_COMMITMENT ==
  Policy("POCommitment", "procurement.commitment_recorded", <<>>,
    <<AtMost("amount", 0)>>, <<GL("PURCHASE_COMMITMENT", "COMMITMENT_OFFSET")>>)
PO_COMMITMENT_RELIEF ==
  Policy("POCommitmentRelief", "procurement.commitment_relieved", <<>>,
    <<AtMost("amount", 0)>>, <<GL("COMMITMENT_OFFSET", "PURCHASE_COMMITMENT")>>)
REQUISITION_CREATED ==
  Policy("RequisitionCreated", "procurement.requisition_created", <<>>,
    <<AtMost("amount", 0)>>, <<GL("PURCHASE_COMMITMENT", "COMMITMENT_OFFSET")>>)
REQUISITION_CONVERTED ==
  Policy("RequisitionConverted", "procurement.requisition_converted", <<>>,
    <<AtMost("amount", 0)>>,
     <<Entry("GL", <<Dr("COMMITMENT_OFFSET", Amt), Cr("PURCHASE_COMMITMENT", Amt), Dr("ENCUMBRANCE", Amt), Cr("RESERVE_FOR_ENCUMBRANCE", Amt)>>),
     Entry("GL", <<Dr("COMMITMENT_OFFSET", Amt), Cr("PURCHASE_COMMITMENT", Amt), Dr("ENCUMBRANCE", Amt), Cr("RESERVE_FOR_ENCUMBRANCE", Amt)>>)>>)
PO_AMENDED ==
  Policy("POAmended", "procurement.po_amended", <<>>,
    <<AtMost("amount", 0)>>, <<GL("ENCUMBRANCE", "RESERVE_FOR_ENCUMBRANCE")>>)
RECEIPT_MATCHED ==
  Policy("ReceiptMatched", "procurement.receipt_matched", <<>>,
    <<AtMost("amount", 0)>>, <<GL("RESERVE_FOR_ENCUMBRANCE", "ENCUMBRANCE"),
     Pair("AP", "INVOICE", "SUPPLIER_BALANCE")>>)
QUANTITY_VARIANCE ==
  Policy("QuantityVariance", "procurement.quantity_variance", <<>>,
    <<AtMost("amount", 0)>>, <<GL("QUANTITY_VARIANCE", "RESERVE_FOR_ENCUMBRANCE")>>)
Policies == <<PO_ENCUMBRANCE, PO_ENCUMBRANCE_RELIEF, PO_COMMITMENT,
  PO_COMMITMENT_RELIEF, REQUISITION_CREATED, REQUISITION_CONVERTED, PO_AMENDED,
  RECEIPT_MATCHED, QUANTITY_VARIANCE>>

---------------------------------------------------------------------------
(* Service methods. *)

PurchaseOrder(p) == <<"procurement_purchase_orders", p>>
Requisition(r) == <<"procurement_requisitions", r>>
ReceivingReport(r) == <<"procurement_receiving_reports", r>>
MatchReport(r) == <<"procurement_receiving_reports:MATCH", r>>   \* the same table, number MATCH-r

create_purchase_order(p, amount) ==
  PostWithRow("create_purchase_order", _procurement_draft_posted, "procurement.po_encumbered",
    amount, [amount |-> amount], Add(PurchaseOrder(p), "draft"))
record_commitment(amount) ==
  PostOnly("record_commitment", _procurement_draft_posted,
    "procurement.commitment_recorded", amount, [amount |-> amount])
relieve_commitment(amount) ==
  PostOnly("relieve_commitment", _procurement_draft_posted,
    "procurement.commitment_relieved", amount, [amount |-> amount])
\* The receipt and its later match use one link, which is left as it is, and
\* both relieve the encumbrance; their rows have different numbers.
receive_goods(receipt, p, amount) ==
  Call("receive_goods",
    <<PostGuard(_procurement_draft_posted), Link("FULFILLED_BY", p, receipt),
      Post("procurement.po_relief", amount, [amount |-> amount]),
      Add(ReceivingReport(receipt), "accepted"), Commit>>)
match_receipt_to_po(receipt, p, amount) ==
  Call("match_receipt_to_po",
    <<PostGuard(_procurement_draft_posted), Link("FULFILLED_BY", p, receipt),
      Post("procurement.receipt_matched", amount, [amount |-> amount]),
      Add(MatchReport(receipt), "matched"), Commit>>)
record_price_variance(p, invoice, variance) ==
  Call("record_price_variance",
    <<PostGuard(_procurement_draft_posted), Link("FULFILLED_BY", p, invoice),
      Post("procurement.po_relief", Abs(variance), [amount |-> Abs(variance)]), Commit>>)
create_requisition(r, amount) ==
  PostWithRow("create_requisition", _procurement_draft_posted,
    "procurement.requisition_created", amount, [amount |-> amount], Add(Requisition(r), "draft"))
\* Two events in one transaction: relief of the commitment, then encumbrance.
\* The requisition's row is not looked at.
convert_requisition_to_po(r, p, amount) ==
  Call("convert_requisition_to_po",
    <<PostGuard(_procurement_draft_posted), Link("DERIVED_FROM", p, r),
      Post("procurement.commitment_relieved", amount, [amount |-> amount]),
      Post("procurement.po_encumbered", amount, [amount |-> amount]), Commit>>)
amend_purchase_order(delta) ==
  PostOnly("amend_purchase_order", _procurement_draft_posted, "procurement.po_amended",
    Abs(delta), [amount |-> Abs(delta)])
record_quantity_variance(variance) ==
  PostOnly("record_quantity_variance", _procurement_draft_posted,
    "procurement.quantity_variance", Abs(variance), [amount |-> Abs(variance)])

Calls ==
  {create_purchase_order("p", 1), create_purchase_order("p", 0), record_commitment(1),
   relieve_commitment(1), receive_goods("g", "p", 1), match_receipt_to_po("g", "p", 1),
   record_price_variance("p", "i", -1), create_requisition("q", 1),
   convert_requisition_to_po("q", "p", 1), convert_requisition_to_po("q", "p", 0),
   amend_purchase_order(-1), amend_purchase_order(0), record_quantity_variance(1)}
============================================================================
