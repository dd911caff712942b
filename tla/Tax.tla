-------------------------------- MODULE Tax --------------------------------
(***************************************************************************)
(* Taxes: finance_modules/tax (workflows, profiles, helpers, service).     *)
(***************************************************************************)
EXTENDS PolicyPosting
LOCAL INSTANCE SequencesExt

---------------------------------------------------------------------------
(* Workflows. *)

TAX_RETURN_WORKFLOW == {T("draft", "calculate", "calculated", "period_closed"),
  T("calculated", "review", "reviewed", "reconciled"),
  T("reviewed", "file", "filed", "reviewed"), T("filed", "pay", "paid", Unguarded),
  T("filed", "amend", "amended", Unguarded), T("amended", "refile", "filed", Unguarded)}
_tax_draft_posted == DraftPosted

---------------------------------------------------------------------------
(* Accounting policies. *)

SALES_TAX_COLLECTED ==
  Policy("SalesTaxCollected", "tax.sales_tax_collected", <<>>,
    <<AtMost("amount", 0)>>, <<GL("TAX_CLEARING", "TAX_PAYABLE")>>)
USE_TAX_ACCRUED ==
  Policy("UseTaxAccrued", "tax.use_tax_accrued", <<>>,
    <<AtMost("amount", 0)>>, <<GL("TAX_EXPENSE", "USE_TAX_ACCRUAL")>>)
TAX_PAYMENT ==
  Policy("TaxPayment", "tax.payment", <<>>,
    <<AtMost("amount", 0)>>, <<GL("TAX_PAYABLE", "CASH")>>)
VAT_INPUT ==
  Policy("VatInput", "tax.vat_input", <<>>,
    <<AtMost("amount", 0)>>, <<GL("TAX_RECEIVABLE", "TAX_CLEARING")>>)
VAT_OUTPUT ==
  Policy("VatOutput", "tax.vat_output", <<>>,
    <<AtMost("amount", 0)>>, <<GL("TAX_CLEARING", "TAX_PAYABLE")>>)
VAT_SETTLEMENT ==
  Policy("VatSettlement", "tax.vat_settlement", <<>>,
    <<AtMost("amount", 0)>>,
     <<Entry("GL", <<Dr("TAX_PAYABLE", Amt), Cr("TAX_RECEIVABLE", From("input_vat_amount")), Cr("CASH", From("net_payment"))>>)>>)
TAX_REFUND_RECEIVED ==
  Policy("TaxRefundReceived", "tax.refund_received", <<>>,
    <<AtMost("amount", 0)>>, <<GL("CASH", "TAX_RECEIVABLE")>>)
TAX_DTA_RECORDED ==
  Policy("TaxDTARecorded", "tax.dta_recorded", <<>>,
    <<AtMost("amount", 0)>>, <<GL("TAX_RECEIVABLE", "TAX_EXPENSE")>>)
TAX_DTL_RECORDED ==
  Policy("TaxDTLRecorded", "tax.dtl_recorded", <<>>,
    <<AtMost("amount", 0)>>, <<GL("TAX_EXPENSE", "TAX_PAYABLE")>>)
TAX_MULTI_JURISDICTION ==
  Policy("TaxMultiJurisdiction", "tax.multi_jurisdiction", <<>>,
    <<AtMost("amount", 0)>>, <<GL("TAX_EXPENSE", "TAX_PAYABLE")>>)
TAX_ADJUSTMENT ==
  Policy("TaxAdjustment", "tax.adjustment", <<>>,
    <<AtMost("amount", 0)>>, <<GL("TAX_EXPENSE", "TAX_PAYABLE")>>)
Policies == <<SALES_TAX_COLLECTED, USE_TAX_ACCRUED, TAX_PAYMENT, VAT_INPUT, VAT_OUTPUT,
  VAT_SETTLEMENT, TAX_REFUND_RECEIVED, TAX_DTA_RECORDED, TAX_DTL_RECORDED,
  TAX_MULTI_JURISDICTION, TAX_ADJUSTMENT>>

---------------------------------------------------------------------------
(* Service methods. *)

\* Rows the methods insert, as they are when inserted.
DeferredAsset == AddNew("tax_deferred_assets", "recorded")
DeferredLiability == AddNew("tax_deferred_liabilities", "recorded")

Transaction(t) == <<"tax_transactions", t>>

\* Obligations, payments and settlements share one table and its ids.
record_tax_obligation(t, tax_type, amount) ==
  PostWithRow("record_tax_obligation", _tax_draft_posted,
    CASE tax_type = "sales_tax_collected" -> "tax.sales_tax_collected"
      [] tax_type = "use_tax_accrued" -> "tax.use_tax_accrued"
      [] tax_type = "vat_input" -> "tax.vat_input"
      [] tax_type = "vat_output" -> "tax.vat_output"
      [] OTHER -> "tax.unknown",
    amount, [amount |-> amount], Add(Transaction(t), "recorded"))
record_tax_payment(t, amount) ==
  PostWithRow("record_tax_payment", _tax_draft_posted, "tax.payment", amount,
    [amount |-> amount], Add(Transaction(t), "recorded"))
\* Input above output is cash coming in: the negative line changes sides.
record_vat_settlement(t, output, input) ==
  PostWithRow("record_vat_settlement", _tax_draft_posted, "tax.vat_settlement",
    output, [amount |-> output, input_vat_amount |-> input, net_payment |-> output - input],
    Add(Transaction(t), "recorded"))

calculate_temporary_differences(book, tax) ==
  [amount |-> Abs(book - tax),
   type |-> CASE book > tax -> "taxable" [] book < tax -> "deductible" [] OTHER -> "none"]
\* percent: how much of the asset will be realized.
calculate_dta_valuation_allowance(amount, percent) ==
  CASE percent >= 100 -> 0 [] percent <= 0 -> amount
    [] percent > 0 /\ percent < 100 -> (amount * (100 - percent)) \div 100
record_deferred_tax_asset(amount, percent) ==
  LET net == amount - calculate_dta_valuation_allowance(amount, percent)
  IN  PostWithRow("record_deferred_tax_asset", _tax_draft_posted,
        "tax.dta_recorded", net, [amount |-> net], DeferredAsset)
record_deferred_tax_liability(amount) ==
  PostWithRow("record_deferred_tax_liability", _tax_draft_posted,
    "tax.dtl_recorded", amount, [amount |-> amount], DeferredLiability)
aggregate_multi_jurisdiction(taxes) == FoldSeq(LAMBDA x, acc : x + acc, 0, taxes)
record_multi_jurisdiction_tax(taxes) ==
  LET total == aggregate_multi_jurisdiction(taxes)
  IN  PostWithRow("record_multi_jurisdiction_tax", _tax_draft_posted,
        "tax.multi_jurisdiction", total, [amount |-> total], AddNew("tax_transactions", "recorded"))
record_tax_adjustment(amount) ==
  PostOnly("record_tax_adjustment", _tax_draft_posted, "tax.adjustment", amount,
    [amount |-> amount])

Calls ==
  {record_tax_obligation("t", k, 1) : k \in {"sales_tax_collected", "use_tax_accrued", "vat_input",
                                             "vat_output", "excise"}}
  \cup {record_tax_payment("t", 1), record_vat_settlement("s", 2, 1), record_vat_settlement("s", 1, 2),
        record_deferred_tax_asset(2, 50), record_deferred_tax_asset(2, 0),
        record_deferred_tax_liability(calculate_temporary_differences(1, 2).amount),
        record_multi_jurisdiction_tax(<<1, 1>>), record_multi_jurisdiction_tax(<<>>),
        record_tax_adjustment(1), record_tax_adjustment(-1)}
============================================================================
