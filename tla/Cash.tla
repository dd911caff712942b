-------------------------------- MODULE Cash --------------------------------
(***************************************************************************)
(* Cash management: finance_modules/cash (workflows, profiles, service).   *)
(***************************************************************************)
EXTENDS PolicyPosting
LOCAL INSTANCE SequencesExt

---------------------------------------------------------------------------
(* Workflows. *)

RECONCILIATION_WORKFLOW == {T("draft", "start", "in_progress", Unguarded),
  T("in_progress", "submit", "pending_review", "all_items_matched"),
  T("in_progress", "cancel", "draft", Unguarded),
  T("pending_review", "approve", "completed", "variance_within_tolerance"),
  T("pending_review", "reject", "in_progress", Unguarded)}
_cash_draft_posted == DraftPosted

---------------------------------------------------------------------------
(* Accounting policies. *)

CASH_DEPOSIT ==
  Policy("CashDeposit", "cash.deposit", <<>>,
    <<AtMost("amount", 0)>>, <<GL("BANK", "UNDEPOSITED_FUNDS")>>)
CASH_MAKE_AVAILABLE ==
  Policy("CashMakeAvailable", "cash.make_available", <<>>,
    <<AtMost("amount", 0)>>, <<Pair("BANK", "AVAILABLE", "DEPOSIT")>>)
CASH_WITHDRAWAL_EXPENSE ==
  Policy("CashWithdrawalExpense", "cash.withdrawal", <<Is("destination_type", "EXPENSE")>>,
    <<AtMost("amount", 0)>>, <<GL("EXPENSE", "BANK"),
     Pair("BANK", "WITHDRAWAL", "AVAILABLE")>>)
CASH_WITHDRAWAL_SUPPLIER ==
  Policy("CashWithdrawalSupplier", "cash.withdrawal", <<Is("destination_type", "SUPPLIER_PAYMENT")>>,
    <<>>, <<Pair("BANK", "WITHDRAWAL", "AVAILABLE")>>)
CASH_WITHDRAWAL_PAYROLL ==
  Policy("CashWithdrawalPayroll", "cash.withdrawal", <<Is("destination_type", "PAYROLL")>>,
    <<>>, <<GL("PAYROLL_CLEARING", "BANK"), Pair("BANK", "WITHDRAWAL", "AVAILABLE")>>)
CASH_BANK_FEE ==
  Policy("CashBankFee", "cash.bank_fee", <<>>,
    <<AtMost("amount", 0)>>, <<GL("BANK_FEE_EXPENSE", "CASH")>>)
CASH_INTEREST_EARNED ==
  Policy("CashInterestEarned", "cash.interest_earned", <<>>,
    <<AtMost("amount", 0)>>, <<GL("CASH", "INTEREST_INCOME")>>)
CASH_TRANSFER ==
  Policy("CashTransfer", "cash.transfer", <<>>,
    <<AtMost("amount", 0), Unread("payload.from_bank_account_code == payload.to_bank_account_code")>>,
     <<GL("BANK_DESTINATION", "BANK_SOURCE")>>)
CASH_WIRE_TRANSFER_OUT ==
  Policy("CashWireTransferOut", "cash.wire_transfer_out", <<>>,
    <<AtMost("amount", 0)>>, <<GL("CASH_IN_TRANSIT", "CASH")>>)
CASH_WIRE_TRANSFER_CLEARED ==
  Policy("CashWireTransferCleared", "cash.wire_transfer_cleared", <<>>,
    <<>>, <<GL("CASH", "CASH_IN_TRANSIT")>>)
CASH_RECONCILIATION ==
  Policy("CashReconciliation", "cash.reconciliation", <<>>,
    <<>>, <<GL("CASH", "RECON_VARIANCE"), Pair("BANK", "RECONCILED", "PENDING")>>)
CASH_AUTO_RECONCILED ==
  Policy("CashAutoReconciled", "cash.auto_reconciled", <<>>,
    <<>>, <<GL("CASH", "RECON_VARIANCE"), Pair("BANK", "RECONCILED", "PENDING")>>)
CASH_NSF_RETURN ==
  Policy("CashNSFReturn", "cash.nsf_return", <<>>,
    <<>>, <<GL("ACCOUNTS_RECEIVABLE", "CASH"), Pair("BANK", "PENDING", "DEPOSIT")>>)
Policies == <<CASH_DEPOSIT, CASH_MAKE_AVAILABLE, CASH_WITHDRAWAL_EXPENSE,
  CASH_WITHDRAWAL_SUPPLIER, CASH_WITHDRAWAL_PAYROLL, CASH_BANK_FEE,
  CASH_INTEREST_EARNED, CASH_TRANSFER, CASH_WIRE_TRANSFER_OUT,
  CASH_WIRE_TRANSFER_CLEARED, CASH_RECONCILIATION, CASH_AUTO_RECONCILED,
  CASH_NSF_RETURN>>

---------------------------------------------------------------------------
(* Service methods. *)

\* Rows the methods insert, as they are when inserted.
BankStatement == AddNew("cash_bank_statements", "imported")

Transaction(t) == <<"cash_bank_transactions", t>>
Reconciliation(r) == <<"cash_reconciliations", r>>

\* The general ledger and the bank subledger are two events; a failure of either
\* returns with neither commit nor rollback.
record_receipt(t, amount) ==
  Call("record_receipt",
    <<PostGuard(_cash_draft_posted),
      PostOrReturn("cash.deposit", amount, [amount |-> amount]),
      PostOrReturn("cash.make_available", amount, [amount |-> amount]),
      Add(Transaction(t), "posted"), Commit>>)
record_disbursement(t, amount, destination_type) ==
  PostWithRow("record_disbursement", _cash_draft_posted, "cash.withdrawal", amount,
    [amount |-> amount, destination_type |-> destination_type], Add(Transaction(t), "posted"))
record_bank_fee(t, amount) ==
  PostWithRow("record_bank_fee", _cash_draft_posted, "cash.bank_fee", amount,
    [amount |-> amount], Add(Transaction(t), "posted"))
record_interest_earned(t, amount) ==
  PostWithRow("record_interest_earned", _cash_draft_posted, "cash.interest_earned",
    amount, [amount |-> amount], Add(Transaction(t), "posted"))
record_transfer(t, amount) ==
  PostWithRow("record_transfer", _cash_draft_posted, "cash.transfer", amount,
    [amount |-> amount], Add(Transaction(t), "posted"))
record_wire_transfer_out(amount) ==
  PostOnly("record_wire_transfer_out", _cash_draft_posted, "cash.wire_transfer_out",
    amount, [amount |-> amount])
record_wire_transfer_cleared(amount) ==
  PostOnly("record_wire_transfer_cleared", _cash_draft_posted,
    "cash.wire_transfer_cleared", amount, [amount |-> amount])
record_nsf_return(amount) ==
  PostOnly("record_nsf_return", _cash_draft_posted, "cash.nsf_return", amount,
    [amount |-> amount])

\* The net of the entries decides; without an adjustment the row is added and
\* left to a later commit.  The policy debits cash whichever the sign.
reconcile_bank_statement(r, net) ==
  Call("reconcile_bank_statement",
    <<PostGuard(_cash_draft_posted)>> \o
    IF net = 0 THEN <<Add(Reconciliation(r), "completed")>>
    ELSE <<Post("cash.reconciliation", Abs(net), [amount |-> Abs(net)]),
           Add(Reconciliation(r), "completed"), Commit>>)

import_bank_statement(format) ==
  Call("import_bank_statement",
    IF format \in {"MT940", "BAI2", "CAMT053"}
    THEN <<BankStatement>> ELSE <<RaiseUnhandled>>)

\* Each statement line takes the first book entry that is free and within the
\* tolerance; the amounts of the others are the variance.
Variance(lines, book, tolerance) ==
  LET Free(acc, line) == {b \in DOMAIN book \ acc.used : Abs(line - book[b]) <= tolerance}
      Match(acc, line) ==
        IF Free(acc, line) = {} THEN [acc EXCEPT !.variance = @ + line]
        ELSE [acc EXCEPT !.used = @ \cup {CHOOSE b \in Free(acc, line) :
                                            \A c \in Free(acc, line) : b <= c}]
  IN  FoldSeq(LAMBDA line, acc : Match(acc, line), [used |-> {}, variance |-> 0],
              Reverse(lines)).variance
auto_reconcile(lines, book, tolerance) ==
  LET v == Variance(lines, book, tolerance)
  IN  Call("auto_reconcile",
        <<PostGuard(_cash_draft_posted)>> \o
        IF v = 0 \/ Abs(v) < tolerance THEN <<>>
        ELSE <<Post("cash.auto_reconciled", Abs(v), [net_variance |-> v]), Commit>>)

Calls ==
  {record_receipt("t", 1), record_receipt("t", 0), record_bank_fee("t", 1),
   record_interest_earned("u", 1), record_transfer("u", 1), record_wire_transfer_out(1),
   record_wire_transfer_cleared(1), record_nsf_return(1),
   auto_reconcile(<<1, 3>>, <<1>>, 1), auto_reconcile(<<1, 2>>, <<1, 2>>, 0)}
  \cup {record_disbursement("t", 1, d) : d \in {"EXPENSE", "SUPPLIER_PAYMENT", "PAYROLL", "OTHER"}}
  \cup {reconcile_bank_statement("s", net) : net \in {-1, 0}}
  \cup {import_bank_statement(f) : f \in {"MT940", "PDF"}}
============================================================================
