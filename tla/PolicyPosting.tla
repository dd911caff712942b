--------------------------- MODULE PolicyPosting ---------------------------
(***************************************************************************)
(* How the kernel turns a business event into balanced ledger intents, and *)
(* the vocabulary in which the business modules are written:               *)
(*                                                                         *)
(*  - accounting policies, their selection (policy_selector.py), their     *)
(*    guards (meaning_builder.py) and the journal lines their mappings     *)
(*    build (policy_bridge.py), and the outcome of posting one event       *)
(*    (module_posting_service.py with the checks of journal_writer.py);    *)
(*  - workflows and the guards of their transitions                        *)
(*    (workflow_executor.py);                                              *)
(*  - the steps a service method takes, in order.                          *)
(*                                                                         *)
(* Amounts are small integers.  A payload (and a guard's context) is a     *)
(* record; a field that is absent and one that is None behave alike in all *)
(* of this code, so both read as None.                                     *)
(***************************************************************************)
EXTENDS Integers, Sequences, FiniteSets, TLC
LOCAL INSTANCE SequencesExt

CONSTANT None       \* Python's None

Get(f, k) == IF k \in DOMAIN f THEN f[k] ELSE None

---------------------------------------------------------------------------
(* Accounting policies.                                                    *)

\* The entries of a trigger's "where".
Is(k, v) == [field |-> k, op |-> "=", value |-> v]
Positive(k) == [field |-> k, op |-> ">", value |-> 0]
Negative(k) == [field |-> k, op |-> "<", value |-> 0]

\* Guard expressions.  Unread is an expression the evaluator cannot take apart
\* (two fields, a call, "is None"): it looks up the text as a field name, or
\* compares with the text, and the guard never fires.
AtMost(k, n) == [op |-> "<=", field |-> k, value |-> n]
Below(k, n) == [op |-> "<", field |-> k, value |-> n]
Above(k, n) == [op |-> ">", field |-> k, value |-> n]
Flag(k) == [op |-> "bool", field |-> k, value |-> 0]
Unread(text) == [op |-> "unread", field |-> text, value |-> 0]

\* Line mappings: the amount of the event, a field of the payload, or one line
\* for each item of a list in the payload.
Amt == [kind |-> "amount", key |-> ""]
From(k) == [kind |-> "from_context", key |-> k]
Each(k) == [kind |-> "foreach", key |-> k]
Dr(role, src) == [role |-> role, side |-> "debit", src |-> src]
Cr(role, src) == [role |-> role, side |-> "credit", src |-> src]
Entry(ledger, maps) == [ledger |-> ledger, maps |-> maps]
Pair(ledger, dr, cr) == Entry(ledger, <<Dr(dr, Amt), Cr(cr, Amt)>>)
GL(dr, cr) == Pair("GL", dr, cr)

Policy(name, event, where, guards, effects) ==
  [name |-> name, event |-> event, where |-> where, guards |-> guards,
   effects |-> effects, override |-> FALSE, priority |-> 0, overrides |-> {}]
Overriding(names, priority, p) ==
  [p EXCEPT !.override = TRUE, !.priority = priority, !.overrides = names]

---------------------------------------------------------------------------
(* Selecting the policy of an event.                                       *)

_matches_where(p, payload) ==
  \A i \in DOMAIN p.where :
    LET w == p.where[i]
        actual == Get(payload, w.field)
    IN  CASE w.op = "=" -> actual = w.value
          [] w.op = ">" -> actual # None /\ actual > w.value
          [] w.op = "<" -> actual # None /\ actual < w.value

\* Overriding policies win over the others, then the ones another one names are
\* dropped, then the highest priority wins (every scope is "*").  More than one
\* left is MultiplePoliciesMatchError.
_resolve_precedence(ps) ==
  LET overriding == SelectSeq(ps, LAMBDA p : p.override)
      named == UNION {overriding[i].overrides : i \in DOMAIN overriding}
      rest == IF overriding = <<>> THEN ps
              ELSE SelectSeq(overriding, LAMBDA p : p.name \notin named)
      Top(p) == \A i \in DOMAIN rest : rest[i].priority <= p.priority
  IN  SelectSeq(rest, Top)

\* The policies left for an event: none (PolicyNotFoundError), one, or several.
find_for_event(registry, event, payload) ==
  LET of == SelectSeq(registry, LAMBDA p : p.event = event)
      specific == SelectSeq(of, LAMBDA p : p.where # <<>> /\ _matches_where(p, payload))
      general == SelectSeq(of, LAMBDA p : p.where = <<>>)
      matching == IF specific # <<>> THEN specific ELSE general
  IN  IF Len(matching) < 2 THEN matching ELSE _resolve_precedence(matching)

---------------------------------------------------------------------------
(* Guards and intent lines.                                                *)

Fires(g, payload) ==
  LET v == Get(payload, g.field)
  IN  CASE g.op = "unread" -> FALSE
        [] g.op = "bool" -> v = TRUE
        [] g.op = "<=" -> v # None /\ v <= g.value
        [] g.op = "<" -> v # None /\ v < g.value
        [] g.op = ">" -> v # None /\ v > g.value

_evaluate_guards(p, payload) == \E i \in DOMAIN p.guards : Fires(p.guards[i], payload)

Flip(side) == IF side = "debit" THEN "credit" ELSE "debit"
Line(m, n) == [role |-> m.role, side |-> m.side, amount |-> n]

\* A negative amount taken from the payload changes sides; a list that is empty
\* or absent falls back on the amount of the event.
LinesOf(m, amount, payload) ==
  LET v == Get(payload, m.src.key)
  IN  CASE m.src.kind = "amount" -> <<Line(m, amount)>>
        [] m.src.kind = "from_context" ->
             IF v = None THEN <<>>
             ELSE IF v > 0 THEN <<Line(m, v)>>
             ELSE IF v < 0 THEN <<[Line(m, -v) EXCEPT !.side = Flip(m.side)]>> ELSE <<>>
        [] m.src.kind = "foreach" ->
             IF v = None \/ v = <<>> THEN <<Line(m, amount)>>
             ELSE [i \in DOMAIN v |-> Line(m, v[i])]

_build_intent_lines(e, amount, payload) ==
  FlattenSeq([i \in DOMAIN e.maps |-> LinesOf(e.maps[i], amount, payload)])

\* mutant: only the first ledger effect is built
build_first_intent(p, amount, payload) ==
  <<[ledger |-> p.effects[1].ledger,
     lines |-> _build_intent_lines(p.effects[1], amount, payload)]>>
build_accounting_intent(p, amount, payload) ==
  SelectSeq([i \in DOMAIN p.effects |->
               [ledger |-> p.effects[i].ledger,
                lines |-> _build_intent_lines(p.effects[i], amount, payload)]],
            LAMBDA e : e.lines # <<>>)

Total(lines, side) ==
  FoldLeft(LAMBDA acc, l : IF l.side = side THEN acc + l.amount ELSE acc, 0, lines)
Balanced(lines) == Total(lines, "debit") = Total(lines, "credit")

\* What a set of intents adds to a role of a ledger, debits positive.
Movement(intents, ledger, role) ==
  LET Of(e) == SelectSeq(e.lines, LAMBDA l : l.role = role)
      Net(e) == IF e.ledger = ledger THEN Total(Of(e), "debit") - Total(Of(e), "credit") ELSE 0
  IN  FoldLeft(LAMBDA acc, e : acc + Net(e), 0, intents)

\* One idempotency key per ledger: a second entry for the same ledger of one
\* intent violates its uniqueness, and the write fails.
OneEntryPerLedger(intents) ==
  \A i, j \in DOMAIN intents : intents[i].ledger = intents[j].ledger => i = j

Status(policies, intents, payload) ==
  CASE policies = <<>> -> "PROFILE_NOT_FOUND"
    [] Len(policies) > 1 -> "MULTIPLE_POLICIES"
    [] _evaluate_guards(policies[1], payload) -> "GUARD_REJECTED"
    [] intents = <<>> \/ \E i \in DOMAIN intents :
         \E j \in DOMAIN intents[i].lines : intents[i].lines[j].amount < 0 -> "INTENT_FAILED"
    [] (\E i \in DOMAIN intents : ~Balanced(intents[i].lines))
         \/ ~OneEntryPerLedger(intents) -> "POSTING_FAILED"
    [] OTHER -> "POSTED"

\* Posting one event in an open period by an active actor.  MULTIPLE_POLICIES
\* stands for the exception; the other statuses are the result's.
_do_post_event(registry, event, amount, payload) ==
  LET policies == find_for_event(registry, event, payload)
      intents == IF Len(policies) # 1 THEN <<>>
                 ELSE build_accounting_intent(policies[1], amount, payload)
  IN  [status |-> Status(policies, intents, payload), intents |-> intents]

---------------------------------------------------------------------------
(* Workflows.                                                              *)

Unguarded == ""
T(from, action, to, guard) == [from |-> from, action |-> action, to |-> to, guard |-> guard]
DraftPosted == {T("draft", "post", "posted", Unguarded)}

Has(ctx, ks) == \A k \in ks : Get(ctx, k) # None
FlagGuards ==
  {"all_timecards_approved", "daily_recording_valid", "no_concurrent_overlap",
   "total_time_balanced", "supervisor_approved", "reversal_exists", "vendor_approved",
   "fully_invoiced", "receipts_attached", "within_policy", "approval_authority",
   "pre_travel_valid", "travel_auth_authority", "disposal_approved",
   "approved_by_authority", "classification_complete", "period_closed", "reconciled",
   "reviewed", "contract_approved", "obligations_identified", "price_determined",
   "write_off_approved"}
Abs(n) == IF n < 0 THEN -n ELSE n

\* Percentages are compared without the division.
match_within_tolerance(c) ==
  /\ Has(c, {"invoice_amount", "po_amount", "tolerance_percent"})
  /\ IF c.po_amount <= 0 THEN c.invoice_amount = c.po_amount
     ELSE 100 * Abs(c.invoice_amount - c.po_amount) <= c.tolerance_percent * c.po_amount
payment_approved(c) == Get(c, "invoice_status") \in {"approved", "approved_for_payment"}
sufficient_funds(c) ==
  Has(c, {"bank_balance", "payment_amount"})
    /\ c.bank_balance >= c.payment_amount /\ c.payment_amount >= 0
budget_available(c) ==
  Has(c, {"requisition_amount", "available_budget"})
    /\ c.requisition_amount <= c.available_budget
fully_received(c) ==
  Has(c, {"quantity_ordered", "quantity_received"})
    /\ c.quantity_received >= c.quantity_ordered /\ c.quantity_ordered > 0
stock_available(c) ==
  Has(c, {"requested_quantity", "available_quantity"})
    /\ c.requested_quantity <= c.available_quantity /\ c.available_quantity >= 0
credit_check_passed(c) ==
  /\ Has(c, {"proposed_amount"})
  /\ Get(c, "credit_limit") = None
       \/ (IF Get(c, "current_balance") = None THEN 0 ELSE c.current_balance)
            + c.proposed_amount <= c.credit_limit
fully_depreciated(c) ==
  Has(c, {"net_book_value", "salvage_value"}) /\ c.net_book_value <= c.salvage_value
all_subledgers_closed(c) ==
  \A k \in {"ap_closed", "ar_closed", "inventory_closed", "payroll_closed"} : Get(c, k) = TRUE
no_pending_transactions(c) == Get(c, "pending_transaction_count") \in {None, 0}

\* A guard the executor has no evaluator for is never satisfied.
evaluate(guard, c) ==
  CASE guard \in {Unguarded, "approval_threshold_met"} -> TRUE
    [] guard \in FlagGuards -> Get(c, guard) = TRUE
    [] guard = "match_within_tolerance" -> match_within_tolerance(c)
    [] guard = "payment_approved" -> payment_approved(c)
    [] guard = "sufficient_funds" -> sufficient_funds(c)
    [] guard = "budget_available" -> budget_available(c)
    [] guard = "po_sent" -> Get(c, "po_status") = "sent"
    [] guard \in {"fully_received", "all_lines_received"} -> fully_received(c)
    [] guard = "stock_available" -> stock_available(c)
    [] guard = "qc_passed" -> Get(c, "qc_status") = "passed"
    [] guard = "calculation_complete" -> Get(c, "has_calculation_errors") # TRUE
    [] guard = "approval_obtained" -> Get(c, "approval_status") = "approved"
    [] guard = "credit_check_passed" -> credit_check_passed(c)
    [] guard = "balance_zero" -> Get(c, "balance_due") = 0
    [] guard = "fully_depreciated" -> fully_depreciated(c)
    [] guard = "in_service_date_set" -> Get(c, "in_service_date") # None
    [] guard = "all_subledgers_closed" -> all_subledgers_closed(c)
    [] guard = "no_pending_transactions" -> no_pending_transactions(c)
    [] guard = "trial_balance_balanced" -> all_subledgers_closed(c) /\ no_pending_transactions(c)
    [] OTHER -> FALSE

\* The transition the workflow allows (no approval policy applies).
Allows(workflow, from, action, c) ==
  \E t \in workflow : t.from = from /\ t.action = action /\ evaluate(t.guard, c)

---------------------------------------------------------------------------
(* The steps of a service method.  A call is a sequence of attempts (a     *)
(* batch method tries each item on its own), an attempt a sequence of      *)
(* steps, and a step's meaning is given in module ModuleCalls.  onfail     *)
(* says what a failure does: return the result as it is, roll the session  *)
(* back and return it, raise (the handler rolls back), or go on.           *)

NoCtx == <<>>

\* run_workflow_guard, from a state the method names or the status of a row.
Guard(wf, from, action, ctx) ==
  [op |-> "guard", wf |-> wf, from |-> from, action |-> action, ctx |-> ctx, onfail |-> "return"]
GuardRow(wf, key, absent, action, ctx) ==
  [op |-> "guard_row", wf |-> wf, key |-> key, absent |-> absent, action |-> action, ctx |-> ctx,
   onfail |-> "return"]
PostGuard(wf) == Guard(wf, "draft", "post", NoCtx)
OrRaise(guard) == [guard EXCEPT !.onfail = "raise"]
\* The row is there, with one of these statuses.
Require(key, statuses) == [op |-> "require", key |-> key, statuses |-> statuses]

\* ReconciliationManager.apply_payment of a payment to an invoice whose original
\* amount is given as the amount applied; establish_link of two artifacts.
Apply(invoice, payment, amount) ==
  [op |-> "apply", invoice |-> invoice, payment |-> payment, amount |-> amount]
Link(type, parent, child) == [op |-> "link", type |-> type, parent |-> parent, child |-> child]
\* ValuationLayer.create_lot, and consume_fifo or consume_lifo of an item.
CreateLot(item, quantity, cost, date) ==
  [op |-> "lot", item |-> item, quantity |-> quantity, cost |-> cost, date |-> date]
Consume(item, quantity, method, by) ==
  [op |-> "consume", item |-> item, quantity |-> quantity, method |-> method, by |-> by]

\* amount None: the cost of what the call has consumed.
Post(event, amount, payload) ==
  [op |-> "post", event |-> event, amount |-> amount, payload |-> payload, onfail |-> "rollback"]
PostCost(event, payload) == Post(event, None, payload)
PostOrReturn(event, amount, payload) == [Post(event, amount, payload) EXCEPT !.onfail = "return"]
PostAnyway(event, amount, payload) == [Post(event, amount, payload) EXCEPT !.onfail = "ignore"]

Add(key, status) == [op |-> "add", key |-> key, status |-> status]
AddNew(table, status) == Add(<<table, None>>, status)   \* under a generated id
Set(key, status) == [op |-> "set", key |-> key, status |-> status]
Commit == [op |-> "commit"]
RaiseError == [op |-> "raise", rollback |-> TRUE]
RaiseUnhandled == [op |-> "raise", rollback |-> FALSE]

Call(name, steps) == [name |-> name, attempts |-> <<steps>>]
Batch(name, attempts) == [name |-> name, attempts |-> attempts]
\* The common shapes: guard, post and commit, without and with a document row.
PostOnly(name, wf, event, amount, payload) ==
  Call(name, <<PostGuard(wf), Post(event, amount, payload), Commit>>)
PostWithRow(name, wf, event, amount, payload, row) ==
  Call(name, <<PostGuard(wf), Post(event, amount, payload), row, Commit>>)
============================================================================
