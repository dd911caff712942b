----------------------------- MODULE GLEntries -----------------------------
(***************************************************************************)
(* The general ledger's own entries, finance_modules/gl, and the three     *)
(* modules that only post to it: finance_modules/intercompany,             *)
(* finance_modules/credit_loss and finance_modules/budget.                 *)
(***************************************************************************)
EXTENDS PolicyPosting

---------------------------------------------------------------------------
(* Workflows. *)

PERIOD_CLOSE_WORKFLOW == {T("future", "open_period", "open", Unguarded),
  T("open", "begin_close", "closing", "all_subledgers_closed"),
  T("closing", "close", "closed", "trial_balance_balanced"),
  T("closed", "reopen", "open", Unguarded),
  T("closed", "lock", "locked", "year_end_entries_posted")}
_gl_draft_posted == DraftPosted

---------------------------------------------------------------------------
(* Accounting policies. *)

YEAR_END_CLOSE ==
  Policy("YearEndClose", "gl.year_end_close", <<>>,
    <<>>, <<GL("INCOME_SUMMARY", "RETAINED_EARNINGS")>>)
DIVIDEND_DECLARED ==
  Policy("DividendDeclared", "gl.dividend_declared", <<>>,
    <<>>, <<GL("RETAINED_EARNINGS", "DIVIDENDS")>>)
FX_REVALUATION ==
  Policy("FXRevaluation", "gl.fx_revaluation", <<>>,
    <<>>, <<GL("FOREIGN_CURRENCY_BALANCE", "FOREIGN_EXCHANGE_GAIN_LOSS")>>)
INTERCOMPANY_TRANSFER ==
  Policy("IntercompanyTransfer", "gl.intercompany_transfer", <<>>,
    <<>>, <<GL("INTERCOMPANY_DUE_FROM", "INTERCOMPANY_DUE_TO")>>)
DEFERRED_REVENUE_RECOGNITION ==
  Policy("DeferredRevenueRecognition", "deferred.revenue_recognition", <<>>,
    <<AtMost("amount", 0), Below("remaining_deferred", 0)>>,
     <<GL("DEFERRED_REVENUE", "REVENUE")>>)
DEFERRED_EXPENSE_RECOGNITION ==
  Policy("DeferredExpenseRecognition", "deferred.expense_recognition", <<>>,
    <<AtMost("amount", 0), Below("remaining_deferred", 0)>>,
     <<GL("EXPENSE", "PREPAID_EXPENSE")>>)
FX_UNREALIZED_GAIN ==
  Policy("FXUnrealizedGain", "fx.unrealized_gain", <<>>,
    <<>>, <<GL("FOREIGN_CURRENCY_BALANCE", "UNREALIZED_FX_GAIN")>>)
FX_UNREALIZED_LOSS ==
  Policy("FXUnrealizedLoss", "fx.unrealized_loss", <<>>,
    <<>>, <<GL("UNREALIZED_FX_LOSS", "FOREIGN_CURRENCY_BALANCE")>>)
FX_REALIZED_GAIN ==
  Policy("FXRealizedGain", "fx.realized_gain", <<>>,
    <<>>, <<GL("FOREIGN_CURRENCY_BALANCE", "REALIZED_FX_GAIN")>>)
FX_REALIZED_LOSS ==
  Policy("FXRealizedLoss", "fx.realized_loss", <<>>,
    <<>>, <<GL("REALIZED_FX_LOSS", "FOREIGN_CURRENCY_BALANCE")>>)
GL_RECURRING_ENTRY ==
  Policy("GLRecurringEntry", "gl.recurring_entry", <<>>,
    <<AtMost("amount", 0)>>, <<GL("EXPENSE", "ACCRUED_LIABILITY")>>)
GL_RETAINED_EARNINGS_ROLL ==
  Policy("GLRetainedEarningsRoll", "gl.retained_earnings_roll", <<>>,
    <<AtMost("amount", 0)>>, <<GL("INCOME_SUMMARY", "RETAINED_EARNINGS")>>)
FX_TRANSLATION_ADJUSTMENT ==
  Policy("FXTranslationAdjustment", "fx.translation_adjustment", <<>>,
    <<AtMost("amount", 0)>>, <<GL("UNREALIZED_FX_LOSS", "CUMULATIVE_TRANSLATION_ADJ")>>)
Policies == <<YEAR_END_CLOSE, DIVIDEND_DECLARED, FX_REVALUATION, INTERCOMPANY_TRANSFER,
  DEFERRED_REVENUE_RECOGNITION, DEFERRED_EXPENSE_RECOGNITION, FX_UNREALIZED_GAIN,
  FX_UNREALIZED_LOSS, FX_REALIZED_GAIN, FX_REALIZED_LOSS, GL_RECURRING_ENTRY,
  GL_RETAINED_EARNINGS_ROLL, FX_TRANSLATION_ADJUSTMENT>>

---------------------------------------------------------------------------
(* Service methods. *)

\* Rows the methods insert, as they are when inserted.
RecurringEntry(template) == Add(<<"gl_recurring_entries", template>>, "active")
AccountReconciliation(account_period) == Add(<<"gl_account_reconciliations", account_period>>, "reconciled")

\* No policy is registered for the journal entries and adjustments of the module.
record_journal_entry(amount) ==
  PostOnly("record_journal_entry", _gl_draft_posted, "gl.journal_entry", amount, NoCtx)
record_adjustment(amount) ==
  PostOnly("record_adjustment", _gl_draft_posted, "gl.adjustment", amount, NoCtx)
record_closing_entry(net_income) ==
  PostOnly("record_closing_entry", _gl_draft_posted, "gl.year_end_close",
    IF net_income = None THEN 0 ELSE Abs(net_income), [net_income |-> net_income])
record_intercompany_transfer(amount) ==
  PostOnly("record_intercompany_transfer", _gl_draft_posted,
    "gl.intercompany_transfer", amount, NoCtx)
record_dividend_declared(amount) ==
  PostOnly("record_dividend_declared", _gl_draft_posted, "gl.dividend_declared",
    amount, NoCtx)
recognize_deferred_revenue(amount, remaining) ==
  PostOnly("recognize_deferred_revenue", _gl_draft_posted,
    "deferred.revenue_recognition", amount, [amount |-> amount, remaining_deferred |-> remaining])
recognize_deferred_expense(amount, remaining) ==
  PostOnly("recognize_deferred_expense", _gl_draft_posted,
    "deferred.expense_recognition", amount, [amount |-> amount, remaining_deferred |-> remaining])

UnrealizedGain(amount) == <<PostGuard(_gl_draft_posted),
                            Post("fx.unrealized_gain", amount, [amount |-> amount]), Commit>>
UnrealizedLoss(amount) == <<PostGuard(_gl_draft_posted),
                            Post("fx.unrealized_loss", amount, [amount |-> amount]), Commit>>
record_fx_unrealized_gain(amount) == Call("record_fx_unrealized_gain", UnrealizedGain(amount))
record_fx_unrealized_loss(amount) == Call("record_fx_unrealized_loss", UnrealizedLoss(amount))
record_fx_realized_gain(amount) ==
  PostOnly("record_fx_realized_gain", _gl_draft_posted, "fx.realized_gain", amount,
    [amount |-> amount])
record_fx_realized_loss(amount) ==
  PostOnly("record_fx_realized_loss", _gl_draft_posted, "fx.realized_loss", amount,
    [amount |-> amount])

\* Every generation adds the template's row again, under the template's id.
generate_recurring_entry(template, active, ended, amount) ==
  Call("generate_recurring_entry",
    IF ~active \/ ended THEN <<>>
    ELSE <<PostGuard(_gl_draft_posted),
           Post("gl.recurring_entry", IF amount = None THEN 0 ELSE amount, NoCtx),
           RecurringEntry(template), Commit>>)
record_retained_earnings_roll(net_income) ==
  PostOnly("record_retained_earnings_roll", _gl_draft_posted,
    "gl.retained_earnings_roll", Abs(net_income), [net_income |-> net_income])
\* One reconciliation for an account and a period.
reconcile_account(account_period) ==
  Call("reconcile_account",
    <<AccountReconciliation(account_period), Commit>>)

translate_balances(balance, rate) ==
  [translated |-> balance * rate, cta |-> balance * rate - balance]
record_cta(cta) ==
  PostOnly("record_cta", _gl_draft_posted, "fx.translation_adjustment", Abs(cta), [cta_amount |-> cta])
\* Each entry is posted and committed on its own.
run_period_end_revaluation(entries) ==
  Batch("run_period_end_revaluation",
    [i \in DOMAIN entries |-> IF entries[i].is_gain THEN UnrealizedGain(entries[i].amount)
                              ELSE UnrealizedLoss(entries[i].amount)])

Calls ==
  {record_journal_entry(1), record_adjustment(1), record_closing_entry(None), record_closing_entry(-1),
   record_intercompany_transfer(1), record_dividend_declared(1), recognize_deferred_revenue(1, 0),
   recognize_deferred_expense(1, -1), record_fx_unrealized_gain(1), record_fx_unrealized_loss(1),
   record_fx_realized_gain(1), record_fx_realized_loss(1),
   generate_recurring_entry("t", TRUE, FALSE, 1), generate_recurring_entry("t", TRUE, TRUE, 1),
   record_retained_earnings_roll(-1), reconcile_account("p"),
   record_cta(translate_balances(2, 3).cta), record_cta(translate_balances(2, 1).cta),
   run_period_end_revaluation(<<[is_gain |-> TRUE, amount |-> -1], [is_gain |-> FALSE, amount |-> 1]>>)}

---------------------------------------------------------------------------
(* Intercompany: finance_modules/intercompany. *)

_ic_draft_posted == DraftPosted

ICTransferPosted ==
  Policy("ICTransferPosted", "ic.transfer", <<>>,
    <<>>, <<GL("INTERCOMPANY_DUE_FROM", "INTERCOMPANY_DUE_TO")>>)
ICEliminationPosted ==
  Policy("ICEliminationPosted", "ic.elimination", <<>>,
    <<>>, <<GL("INTERCOMPANY_DUE_TO", "INTERCOMPANY_DUE_FROM")>>)
ICMarkupPosted ==
  Policy("ICMarkupPosted", "ic.markup", <<>>,
    <<>>, <<GL("INTERCOMPANY_DUE_FROM", "INCOME_SUMMARY")>>)
ICTransferPricing ==
  Policy("ICTransferPricing", "ic.transfer_pricing", <<>>,
    <<>>, <<GL("INTERCOMPANY_DUE_FROM", "INTERCOMPANY_DUE_TO")>>)
INTERCOMPANY_PROFILES == <<ICTransferPosted, ICEliminationPosted, ICMarkupPosted, ICTransferPricing>>

Txn == AddNew("intercompany_transactions", "posted")
post_ic_transfer(amount) ==
  PostWithRow("post_ic_transfer", _ic_draft_posted, "ic.transfer", amount, NoCtx, Txn)
generate_eliminations(amount) ==
  PostWithRow("generate_eliminations", _ic_draft_posted, "ic.elimination", amount,
    NoCtx, Txn)
post_transfer_pricing_adjustment(base_amount, markup_rate) ==
  PostWithRow("post_transfer_pricing_adjustment", _ic_draft_posted,
    "ic.transfer_pricing", base_amount * markup_rate,
    [base_amount |-> base_amount, markup_rate |-> markup_rate], Txn)

IntercompanyCalls ==
  {post_ic_transfer(1), generate_eliminations(1), post_transfer_pricing_adjustment(1, 2),
   post_transfer_pricing_adjustment(1, -1)}

---------------------------------------------------------------------------
(* Expected credit losses: finance_modules/credit_loss. *)

_credit_loss_draft_posted == DraftPosted

CREDIT_LOSS_PROVISION ==
  Policy("CreditLossProvision", "credit_loss.provision", <<>>,
    <<AtMost("amount", 0)>>, <<GL("BAD_DEBT_EXPENSE", "ALLOWANCE_DOUBTFUL")>>)
CREDIT_LOSS_ADJUSTMENT ==
  Policy("CreditLossAdjustment", "credit_loss.adjustment", <<>>,
    <<AtMost("amount", 0)>>, <<GL("BAD_DEBT_EXPENSE", "ALLOWANCE_DOUBTFUL")>>)
CREDIT_LOSS_WRITE_OFF ==
  Policy("CreditLossWriteOff", "credit_loss.write_off", <<>>,
    <<AtMost("amount", 0)>>, <<GL("ALLOWANCE_DOUBTFUL", "ACCOUNTS_RECEIVABLE")>>)
CREDIT_LOSS_RECOVERY ==
  Policy("CreditLossRecovery", "credit_loss.recovery", <<>>,
    <<AtMost("amount", 0)>>, <<GL("ACCOUNTS_RECEIVABLE", "ALLOWANCE_DOUBTFUL")>>)
CREDIT_LOSS_PROFILES == <<CREDIT_LOSS_PROVISION, CREDIT_LOSS_ADJUSTMENT, CREDIT_LOSS_WRITE_OFF,
  CREDIT_LOSS_RECOVERY>>

\* Expected losses, rates in percent.
calculate_ecl(method, gross, loss_rate, pd, lgd) ==
  IF method = "pd_lgd" THEN (gross * pd * lgd) \div 10000 ELSE (gross * loss_rate) \div 100
record_provision(amount) ==
  PostOnly("record_provision", _credit_loss_draft_posted, "credit_loss.provision",
    amount, [amount |-> amount])
adjust_provision(amount) ==
  PostOnly("adjust_provision", _credit_loss_draft_posted, "credit_loss.adjustment",
    amount, [amount |-> amount])
record_write_off(amount) ==
  PostOnly("record_write_off", _credit_loss_draft_posted, "credit_loss.write_off",
    amount, [amount |-> amount])
record_recovery(amount) ==
  PostOnly("record_recovery", _credit_loss_draft_posted, "credit_loss.recovery",
    amount, [amount |-> amount])

CreditLossCalls ==
  {record_provision(calculate_ecl("loss_rate", 2, 50, 0, 0)),
   record_provision(calculate_ecl("pd_lgd", 1, 0, 50, 50)),
   adjust_provision(1), adjust_provision(-1), record_write_off(1), record_recovery(1)}

---------------------------------------------------------------------------
(* Budgets: finance_modules/budget. *)

_budget_draft_posted == DraftPosted
BUDGET_VERSION_WORKFLOW == {T("draft", "approve", "approved", "approved_by_authority"),
  T("approved", "lock", "locked", Unguarded),
  T("approved", "reopen", "draft", Unguarded),
  T("locked", "archive", "archived", Unguarded)}

BUDGET_ENTRY ==
  Policy("BudgetEntry", "budget.entry", <<>>,
    <<AtMost("amount", 0)>>, <<GL("BUDGET_CONTROL", "BUDGET_OFFSET")>>)
BUDGET_TRANSFER ==
  Policy("BudgetTransfer", "budget.transfer", <<>>,
    <<AtMost("amount", 0)>>, <<GL("BUDGET_CONTROL", "BUDGET_CONTROL")>>)
ENCUMBRANCE_COMMIT ==
  Policy("EncumbranceCommit", "budget.encumbrance_commit", <<>>,
    <<AtMost("amount", 0)>>, <<GL("ENCUMBRANCE", "RESERVE_FOR_ENCUMBRANCE")>>)
ENCUMBRANCE_RELIEVE ==
  Policy("EncumbranceRelieve", "budget.encumbrance_relieve", <<>>,
    <<AtMost("amount", 0)>>, <<GL("RESERVE_FOR_ENCUMBRANCE", "ENCUMBRANCE")>>)
ENCUMBRANCE_CANCEL ==
  Policy("EncumbranceCancel", "budget.encumbrance_cancel", <<>>,
    <<AtMost("amount", 0)>>, <<GL("RESERVE_FOR_ENCUMBRANCE", "ENCUMBRANCE")>>)
FORECAST_UPDATE ==
  Policy("ForecastUpdate", "budget.forecast_update", <<>>,
    <<AtMost("amount", 0)>>, <<GL("BUDGET_CONTROL", "BUDGET_OFFSET")>>)
BUDGET_PROFILES == <<BUDGET_ENTRY, BUDGET_TRANSFER, ENCUMBRANCE_COMMIT, ENCUMBRANCE_RELIEVE,
  ENCUMBRANCE_CANCEL, FORECAST_UPDATE>>

\* Rows of the budget methods, as they are when inserted.
BudgetLine == AddNew("budget_lines", "entered")
BudgetTransfer == AddNew("budget_transfers", "posted")

post_budget_entry(amount) ==
  PostWithRow("post_budget_entry", _budget_draft_posted, "budget.entry", amount, NoCtx,
              BudgetLine)
transfer_budget(amount) ==
  PostWithRow("transfer_budget", _budget_draft_posted, "budget.transfer", amount, NoCtx,
              BudgetTransfer)
record_encumbrance(amount) ==
  PostOnly("record_encumbrance", _budget_draft_posted,
           "budget.encumbrance_commit", amount, NoCtx)

\* The encumbrance is the caller's object: nothing bounds what is relieved, and
\* a cancellation releases what this copy says is left.
relieve_encumbrance(amount) ==
  PostOnly("relieve_encumbrance", _budget_draft_posted,
           "budget.encumbrance_relieve", amount, [relief_amount |-> amount])
cancel_encumbrance(amount, relieved) ==
  PostOnly("cancel_encumbrance", _budget_draft_posted,
           "budget.encumbrance_cancel", amount - relieved, [cancelled_amount |-> amount - relieved])
update_forecast(amount) ==
  PostOnly("update_forecast", _budget_draft_posted, "budget.forecast_update", amount, NoCtx)

BudgetCalls ==
  {post_budget_entry(2), transfer_budget(1), record_encumbrance(2), relieve_encumbrance(1),
   cancel_encumbrance(2, 1), update_forecast(2)}
============================================================================
