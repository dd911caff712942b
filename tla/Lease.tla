------------------------------- MODULE Lease -------------------------------
(***************************************************************************)
(* Leases: finance_modules/lease.  No payload carries the amount, so the   *)
(* guards on it never fire; and the postings do not look at the lease's    *)
(* status, only early termination writes it.                               *)
(***************************************************************************)
EXTENDS PolicyPosting

---------------------------------------------------------------------------
(* Workflows. *)

_lease_draft_posted == DraftPosted
LEASE_LIFECYCLE_WORKFLOW == {
  T("draft", "commence", "active", "classification_complete"),
  T("active", "modify", "modified", Unguarded),
  T("active", "terminate_early", "terminated", Unguarded),
  T("active", "expire", "expired", Unguarded),
  T("modified", "resume", "active", Unguarded),
  T("modified", "terminate_early", "terminated", Unguarded)}

---------------------------------------------------------------------------
(* Accounting policies. *)

LEASE_FINANCE_INITIAL ==
  Policy("LeaseFinanceInitial", "lease.finance_initial", <<>>,
    <<AtMost("amount", 0)>>, <<GL("ROU_ASSET", "LEASE_LIABILITY")>>)
LEASE_OPERATING_INITIAL ==
  Policy("LeaseOperatingInitial", "lease.operating_initial", <<>>,
    <<AtMost("amount", 0)>>, <<GL("ROU_ASSET", "LEASE_LIABILITY")>>)
LEASE_PAYMENT_MADE ==
  Policy("LeasePaymentMade", "lease.payment_made", <<>>,
    <<AtMost("amount", 0)>>, <<GL("LEASE_LIABILITY", "CASH")>>)
LEASE_INTEREST_ACCRUED ==
  Policy("LeaseInterestAccrued", "lease.interest_accrued", <<>>,
    <<AtMost("amount", 0)>>, <<GL("LEASE_INTEREST", "LEASE_LIABILITY")>>)
LEASE_AMORTIZATION_FINANCE ==
  Policy("LeaseAmortizationFinance", "lease.amortization_finance", <<>>,
    <<AtMost("amount", 0)>>, <<GL("ROU_AMORTIZATION", "ROU_ASSET")>>)
LEASE_AMORTIZATION_OPERATING ==
  Policy("LeaseAmortizationOperating", "lease.amortization_operating", <<>>,
    <<AtMost("amount", 0)>>, <<GL("ROU_AMORTIZATION", "ROU_ASSET")>>)
LEASE_MODIFIED ==
  Policy("LeaseModified", "lease.modified", <<>>,
    <<AtMost("amount", 0)>>, <<GL("ROU_ASSET", "LEASE_LIABILITY")>>)
LEASE_TERMINATED_EARLY ==
  Policy("LeaseTerminatedEarly", "lease.terminated_early", <<>>,
    <<AtMost("amount", 0)>>, <<GL("LEASE_LIABILITY", "ROU_ASSET")>>)
LEASE_IMPAIRMENT ==
  Policy("LeaseImpairment", "lease.impairment", <<>>,
    <<AtMost("amount", 0)>>, <<GL("IMPAIRMENT_LOSS", "ROU_ASSET")>>)
Policies == <<LEASE_FINANCE_INITIAL, LEASE_OPERATING_INITIAL, LEASE_PAYMENT_MADE,
  LEASE_INTEREST_ACCRUED, LEASE_AMORTIZATION_FINANCE, LEASE_AMORTIZATION_OPERATING,
  LEASE_MODIFIED, LEASE_TERMINATED_EARLY, LEASE_IMPAIRMENT>>

---------------------------------------------------------------------------
(* Service methods. *)

\* Rows the methods insert, as they are when inserted.
ROUAsset(l) == Add(<<"lease_rou_assets", l>>, "active")
LeaseLiability(l) == Add(<<"lease_liabilities", l>>, "active")
LeasePayment(l) == Add(<<"lease_payments", l>>, "paid")
LeaseModification == AddNew("lease_modifications", "recorded")

Lease(l) == <<"lease_leases", l>>

\* pv is the present value of the payments.
record_initial_recognition(l, classification, pv) ==
  Call("record_initial_recognition",
    <<PostGuard(_lease_draft_posted),
      Post(IF classification = "finance" THEN "lease.finance_initial"
           ELSE "lease.operating_initial", pv, [liability_value |-> pv]),
      Add(Lease(l), "active"), ROUAsset(l),
      LeaseLiability(l), Commit>>)
\* Every payment has the number 0, and a lease has one payment of a number.
record_periodic_payment(l, amount) ==
  PostWithRow("record_periodic_payment", _lease_draft_posted,
    "lease.payment_made", amount, NoCtx, LeasePayment(l))
accrue_interest(amount) ==
  PostOnly("accrue_interest", _lease_draft_posted, "lease.interest_accrued", amount, NoCtx)
record_amortization(classification, amount) ==
  PostOnly("record_amortization", _lease_draft_posted,
    IF classification = "finance" THEN "lease.amortization_finance"
    ELSE "lease.amortization_operating", amount, NoCtx)
modify_lease(remeasurement) ==
  PostWithRow("modify_lease", _lease_draft_posted, "lease.modified", Abs(remeasurement),
    [remeasurement_amount |-> remeasurement], LeaseModification)
terminate_early(l, remaining) ==
  PostWithRow("terminate_early", _lease_draft_posted, "lease.terminated_early",
    remaining, NoCtx, Set(Lease(l), "terminated"))

Calls ==
  {record_initial_recognition("l", c, 2) : c \in {"finance", "operating"}}
  \cup {record_amortization(c, 1) : c \in {"finance", "operating"}}
  \cup {record_periodic_payment("l", 1), record_periodic_payment("l", -1), accrue_interest(1),
        modify_lease(-1), terminate_early("l", 1)}
============================================================================
