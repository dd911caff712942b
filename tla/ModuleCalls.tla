--------------------------- MODULE ModuleCalls ---------------------------
(***************************************************************************)
(* Sessions that call the services of one business module against one      *)
(* database.  Each service method is a plan of steps (PolicyPosting); this *)
(* module gives the steps their meaning and interleaves the sessions.      *)
(*                                                                         *)
(* An attempt at a call runs in two actions.  Begin takes the steps before *)
(* the first write that waits for anybody: workflow guards, application    *)
(* checks and lot consumption, which read committed data and the session's *)
(* own without locking it.  Complete takes the rest: posting takes the     *)
(* kernel's sequence lock and holds it to the commit, so no other posting  *)
(* comes in between (module Posting).  A session may crash at any time.    *)
(*                                                                         *)
(* A guard that fails ends the call without commit or rollback; a posting  *)
(* that fails and an exception roll the session back, including what       *)
(* earlier calls have left in it without a commit.                         *)
(***************************************************************************)
EXTENDS PolicyRegistry
LOCAL INSTANCE SequencesExt
LOCAL INSTANCE FiniteSetsExt

CONSTANTS
  Sessions,
  Modules,        \* the business modules, by name, that the instance starts from
  MaxCalls        \* bound: calls begun in one behaviour

\* The methods of each service, with inputs that take each of their paths.
CallsOf ==
  [ap |-> AP!Calls, ar |-> AR!Calls, assets |-> FA!Calls, budget |-> GE!BudgetCalls,
   cash |-> CA!Calls, contracts |-> CO!Calls, credit_loss |-> GE!CreditLossCalls,
   expense |-> EX!Calls, gl |-> GE!Calls, intercompany |-> GE!IntercompanyCalls,
   inventory |-> IV!Calls, lease |-> LE!Calls, payroll |-> PA!Calls,
   procurement |-> PR!Calls, project |-> PJ!Calls, revenue |-> RE!Calls, tax |-> TA!Calls,
   wip |-> WI!Calls]

VARIABLES
  module,     \* the business module whose services the sessions use
  rows,       \* committed document rows: <<table, id>> -> status
  lots,       \* committed cost lots
  links,      \* committed economic links, each with the session that made it
  journal,    \* committed postings, in commit order
  pend,       \* session -> what it has flushed and not committed
  todo,       \* session -> what is left of its call
  result,     \* session -> outcome of its last attempt
  acked,      \* attempts whose caller was told POSTED
  calls       \* calls begun so far

vars == <<module, rows, lots, links, journal, pend, todo, result, acked, calls>>

Nothing == [rows |-> <<>>, new |-> {}, lots |-> {}, links |-> <<>>, posts |-> <<>>]
Idle == [n |-> 0, name |-> None, attempts |-> <<>>, began |-> FALSE, cost |-> 0, missing |-> {}]

\* The attempt a session is at, and the ids generated in a call.
Attempt(s) == <<todo[s].n, Len(todo[s].attempts)>>
NewIds == <<"#1", "#2", "#3", "#4">>
KeyOf(s, key) == IF key[2] = None THEN <<key[1], NewIds[todo[s].n]>> ELSE key
Keys(s, steps) == {KeyOf(s, steps[i].key) : i \in {j \in DOMAIN steps : steps[j].op = "add"}}

---------------------------------------------------------------------------
(* What the steps do to a session's transaction.  acc holds the committed  *)
(* data, the session's pending data and how far the attempt has come: res  *)
(* is "running" until the attempt ends.                                    *)

\* The session is rolled back: everything pending is lost.
RollBack(acc, why) == [acc EXCEPT !.pend = Nothing, !.res = why]
Raise(acc) == RollBack(acc, "raised")

\* run_workflow_guard, and the existence and status checks of a row.
Seen(acc) == acc.pend.rows @@ acc.rows
StatusOf(acc, key, absent) == IF key \in DOMAIN Seen(acc) THEN Seen(acc)[key] ELSE absent
DoGuard(acc, st, from) ==
  IF Allows(st.wf, from, st.action, st.ctx) THEN acc
  ELSE IF st.onfail = "raise" THEN Raise(acc) ELSE [acc EXCEPT !.res = "GUARD_REJECTED"]
DoGuardRow(acc, st) ==
  LET missing == IF st.key \in DOMAIN Seen(acc) THEN {} ELSE {st.key}
  IN  DoGuard([acc EXCEPT !.missing = @ \cup missing], st, StatusOf(acc, st.key, st.absent))
DoRequire(acc, st) == IF StatusOf(acc, st.key, None) \in st.statuses THEN acc ELSE Raise(acc)

\* Links to a parent that the session sees, and what they sum to.
LinksTo(acc, type, parent) ==
  {l \in acc.links \cup ToSet(acc.pend.links) : l.type = type /\ l.parent = parent}
Applied(ls) == MapThenSumSet(LAMBDA l : l.amount, ls)
SameLink(l, k) == l.type = k.type /\ l.parent = k.parent /\ l.child = k.child
\* establish_link tolerating a duplicate: one that is there is left as it is.
establish_link(acc, l) ==
  IF \E k \in LinksTo(acc, l.type, l.parent) : SameLink(l, k) THEN acc
  ELSE [acc EXCEPT !.pend.links = Append(@, l)]

\* apply_payment: the original amount is the amount being applied, so anything
\* already applied to the invoice makes it fully matched or over-applied.
apply_payment(acc, s, st) ==
  IF Applied(LinksTo(acc, "PAID_BY", st.invoice)) > 0 THEN Raise(acc)
  ELSE [acc EXCEPT !.pend.links = Append(@,
          [type |-> "PAID_BY", parent |-> st.invoice, child |-> st.payment,
           amount |-> st.amount, by |-> s, dup |-> FALSE])]
DoLink(acc, s, st) ==
  establish_link(acc, [type |-> st.type, parent |-> st.parent, child |-> st.child,
                       amount |-> 0, by |-> s, dup |-> TRUE])

---------------------------------------------------------------------------
(* Cost lots (valuation_service.py).  Quantities divide the costs.         *)

\* A lot for st's item.  Its SOURCED_FROM link, which no consumption reads, is
\* left out.
create_lot(acc, s, st) ==
  IF st.quantity <= 0 \/ st.cost < 0 THEN Raise(acc)
  ELSE [acc EXCEPT !.pend.lots = @ \cup
          {[id |-> Attempt(s), item |-> st.item, quantity |-> st.quantity,
            cost |-> st.cost, date |-> st.date]}]

unit_cost(lot) == lot.cost \div lot.quantity
\* The remaining quantity follows from the remaining value; a lot without cost
\* never runs out.
Remaining(acc, lot) ==
  IF unit_cost(lot) = 0 THEN lot.quantity
  ELSE (lot.cost - Applied(LinksTo(acc, "CONSUMED_BY", lot.id))) \div unit_cost(lot)
get_available_layers(acc, item) ==
  {lot \in acc.lots \cup acc.pend.lots : lot.item = item /\ Remaining(acc, lot) > 0}

Older(a, b) == a.date < b.date \/ (a.date = b.date /\ a.id[1] <= b.id[1])
Consumption(s, st, lot, q) ==
  [type |-> "CONSUMED_BY", parent |-> lot.id, child |-> st.by,
   amount |-> q * unit_cost(lot), by |-> s, dup |-> TRUE]
\* mutant: the cost of the last layer stands for all of them
TakeLastCost(acc, s, st, c, lot) ==
  LET q == Min({c.left, Remaining(acc, lot)})
      l == Consumption(s, st, lot, q)
  IN  IF q <= 0 THEN c
      ELSE [left |-> c.left - q, acc |-> [establish_link(c.acc, l) EXCEPT !.cost = l.amount]]
\* One layer gives what is left to take, or all it has: an amount of cost, with
\* its link to the issue.
Take(acc, s, st, c, lot) ==
  LET q == Min({c.left, Remaining(acc, lot)})
      l == Consumption(s, st, lot, q)
  IN  IF q <= 0 THEN c
      ELSE [left |-> c.left - q, acc |-> [establish_link(c.acc, l) EXCEPT !.cost = @ + l.amount]]
\* The layers in the order of the method, until the quantity is reached.
_consume_with_method(acc, s, st) ==
  LET layers == get_available_layers(acc, st.item)
      fifo == SetToSortSeq(layers, Older)
      sorted == IF st.method = "lifo" THEN Reverse(fifo) ELSE fifo
      available == MapThenSumSet(LAMBDA lot : Remaining(acc, lot), layers)
  IN  IF layers = {} \/ available < st.quantity THEN Raise(acc)
      ELSE FoldLeft(LAMBDA c, lot : Take(acc, s, st, c, lot),
                    [left |-> st.quantity, acc |-> acc], sorted).acc

---------------------------------------------------------------------------
(* Writing.                                                                *)

\* A link that another session has committed since the check: the session is
\* rolled back, and the method goes on if it tolerates the duplicate.
FlushLinks(acc) ==
  LET Flush(a, l) ==
        IF a.res # "running" THEN a
        ELSE IF \E k \in a.links : SameLink(l, k)
        THEN IF l.dup THEN [a EXCEPT !.pend = Nothing] ELSE Raise(a)
        ELSE [a EXCEPT !.pend.links = Append(@, l)]
  IN  FoldLeft(Flush, [acc EXCEPT !.pend.links = <<>>], acc.pend.links)

DoPost(acc, st, id, call, keys) ==
  LET amount == IF st.amount = None THEN acc.cost ELSE st.amount
      r == _do_post_event(Registry, st.event, amount, st.payload)
  IN  CASE r.status = "POSTED" ->
             [acc EXCEPT !.posted = TRUE,
                         !.pend.posts = Append(@, [id |-> id, call |-> call, keys |-> keys,
                                          event |-> st.event, amount |-> amount,
                                          intents |-> r.intents])]
        [] r.status = "MULTIPLE_POLICIES" -> RollBack(acc, r.status)
        [] OTHER -> CASE st.onfail = "rollback" -> RollBack(acc, r.status)
                      [] st.onfail = "return" -> [acc EXCEPT !.res = r.status]
                      [] st.onfail = "ignore" -> acc

DoAdd(acc, key, status) ==
  [acc EXCEPT !.pend.rows = (key :> status) @@ @, !.pend.new = @ \cup {key}]
\* Only a row the method found is updated.
DoSet(acc, st) ==
  IF st.key \in DOMAIN Seen(acc) \ acc.missing
  THEN [acc EXCEPT !.pend.rows = (st.key :> st.status) @@ @] ELSE acc

\* mutant: the violation of a document's key is swallowed
DoCommitUpsert(acc) ==
  [acc EXCEPT !.rows = acc.pend.rows @@ @, !.lots = @ \cup acc.pend.lots,
              !.links = @ \cup ToSet(acc.pend.links),
              !.journal = @ \o acc.pend.posts, !.pend = Nothing]
\* mutant: the IntegrityError is rolled back and not raised
DoCommitSwallows(acc) ==
  IF acc.pend.new \cap DOMAIN acc.rows # {} THEN [acc EXCEPT !.pend = Nothing]
  ELSE DoCommitUpsert(acc)
\* session.commit(): a row whose key is taken is an IntegrityError.
DoCommit(acc) ==
  IF acc.pend.new \cap DOMAIN acc.rows # {} THEN RollBack(acc, "IntegrityError")
  ELSE [acc EXCEPT !.rows = acc.pend.rows @@ @, !.lots = @ \cup acc.pend.lots,
                   !.links = @ \cup ToSet(acc.pend.links),
                   !.journal = @ \o acc.pend.posts, !.pend = Nothing]

Do(s, acc, st, keys) ==
  CASE st.op = "guard" -> DoGuard(acc, st, st.from)
    [] st.op = "guard_row" -> DoGuardRow(acc, st)
    [] st.op = "require" -> DoRequire(acc, st)
    [] st.op = "apply" -> apply_payment(acc, s, st)
    [] st.op = "link" -> DoLink(acc, s, st)
    [] st.op = "lot" -> create_lot(acc, s, st)
    [] st.op = "consume" -> _consume_with_method(acc, s, st)
    [] st.op = "post" -> DoPost(acc, st, Attempt(s), todo[s].name, keys)
    [] st.op = "add" -> DoAdd(acc, KeyOf(s, st.key), st.status)
    [] st.op = "set" -> DoSet(acc, st)
    [] st.op = "commit" -> DoCommit(acc)
    [] st.op = "raise" -> IF st.rollback THEN Raise(acc) ELSE [acc EXCEPT !.res = "raised"]

Run(s, acc0, steps, keys) ==
  FoldLeft(LAMBDA acc, st : IF acc.res = "running" THEN Do(s, acc, st, keys) ELSE acc, acc0, steps)
Acc(s) ==
  [rows |-> rows, lots |-> lots, links |-> links, journal |-> journal, pend |-> pend[s],
   cost |-> todo[s].cost, missing |-> todo[s].missing, posted |-> FALSE, res |-> "running"]

\* The steps before the first write that shows.
Writes(st) == st.op \in {"post", "add", "set", "commit", "raise"}
FirstWrite(steps) ==
  LET ws == {i \in DOMAIN steps : Writes(steps[i])}
  IN  IF ws = {} THEN Len(steps) + 1 ELSE Min(ws)
Reads(steps) == SubSeq(steps, 1, FirstWrite(steps) - 1)
Rest(steps) == SubSeq(steps, FirstWrite(steps), Len(steps))

---------------------------------------------------------------------------
(* Actions.                                                                *)

\* Stock that was there before: two calls are then enough for issues to meet.
OpeningLot == [id |-> <<0, 1>>, item |-> "x", quantity |-> 2, cost |-> 4, date |-> 0]

Init ==
  /\ module \in Modules
  /\ lots \in IF module = "inventory" THEN {{}, {OpeningLot}} ELSE {{}}
  /\ rows = <<>> /\ links = {} /\ journal = <<>>
  /\ pend = [s \in Sessions |-> Nothing]
  /\ todo = [s \in Sessions |-> Idle]
  /\ result = [s \in Sessions |-> "none"]
  /\ acked = {} /\ calls = 0

\* A client calls a method.
Start(s, c) ==
  /\ todo[s].attempts = <<>> /\ calls < MaxCalls
  /\ calls' = calls + 1
  /\ todo' = [todo EXCEPT ![s] = [Idle EXCEPT !.n = calls + 1, !.name = c.name,
                                              !.attempts = c.attempts]]
  /\ result' = [result EXCEPT ![s] = "running"]
  /\ UNCHANGED <<module, rows, lots, links, journal, pend, acked>>

\* An exception ends a batch; a result that is not a success does not.
Raised(res) == res \in {"IntegrityError", "MULTIPLE_POLICIES", "raised"}
EndAttempt(s, res) ==
  /\ todo' = [todo EXCEPT ![s] = IF Raised(res) THEN Idle
                ELSE [@ EXCEPT !.attempts = Tail(@), !.began = FALSE, !.cost = 0, !.missing = {}]]
  /\ result' = [result EXCEPT ![s] = res]

\* Guards and application checks of the next attempt.
Begin(s) ==
  /\ todo[s].attempts # <<>> /\ ~todo[s].began
  /\ \E acc \in {Run(s, Acc(s), Reads(Head(todo[s].attempts)), {})} :
       /\ pend' = [pend EXCEPT ![s] = acc.pend]
       /\ \/ /\ acc.res # "running" /\ EndAttempt(s, acc.res)
          \/ /\ acc.res = "running"
             /\ todo' = [todo EXCEPT ![s].began = TRUE, ![s].cost = acc.cost,
                                     ![s].missing = acc.missing]
             /\ UNCHANGED result
  /\ UNCHANGED <<module, rows, lots, links, journal, acked, calls>>

\* Posting, document rows, and commit or rollback.
Complete(s) ==
  /\ todo[s].began
  /\ \E steps \in {Head(todo[s].attempts)} :
     \E acc \in {Run(s, FlushLinks(Acc(s)), Rest(steps), Keys(s, steps))} :
     \E res \in {IF acc.res # "running" THEN acc.res ELSE IF acc.posted THEN "POSTED" ELSE "DONE"} :
       /\ rows' = acc.rows /\ lots' = acc.lots /\ links' = acc.links /\ journal' = acc.journal
       /\ pend' = [pend EXCEPT ![s] = acc.pend]
       /\ EndAttempt(s, res)
       /\ acked' = IF res # "POSTED" THEN acked
                   ELSE acked \cup {[id |-> Attempt(s), call |-> todo[s].name]}
  /\ UNCHANGED <<module, calls>>

\* The process dies, or the caller drops the session.
Crash(s) ==
  /\ todo[s].attempts # <<>> \/ pend[s] # Nothing
  /\ pend' = [pend EXCEPT ![s] = Nothing]
  /\ todo' = [todo EXCEPT ![s] = Idle]
  /\ result' = [result EXCEPT ![s] = "none"]
  /\ UNCHANGED <<module, rows, lots, links, journal, acked, calls>>

Next ==
  \E s \in Sessions :
    \/ \E c \in CallsOf[module] : Start(s, c)
    \/ Begin(s) \/ Complete(s) \/ Crash(s)

Spec == Init /\ [][Next]_vars

---------------------------------------------------------------------------
(* Properties.                                                             *)

\* No posting without its document: every key of a committed posting has its
\* row, and the postings that carry a key come from one attempt, however the
\* calls overlap, are repeated or fail.  (Many methods write rows that post
\* nothing, so a row alone says nothing of the journal.)
PostingHasRow ==
  \A i, j \in DOMAIN journal :
    /\ journal[i].keys \subseteq DOMAIN rows
    /\ journal[i].keys \cap journal[j].keys # {} => journal[i].id = journal[j].id

Surviving(id) == \E i \in DOMAIN journal : journal[i].id = id
Uncommitted ==
  {"record_asset_transfer", "record_revaluation", "receive_with_variance",
   "record_benefits_deduction"}
\* Each public method owns its transaction (R7): a caller that was told POSTED
\* finds the journal entries of its call committed, whatever the other sessions
\* do and whoever crashes.  Four methods return without a commit and are left out.
AckedSurvives == \A a \in acked : a.call \in Uncommitted \/ Surviving(a.id)

\* Committed movements on a role of a ledger, but for the calls left out.
Balance(ledger, role, without) ==
  FoldLeft(LAMBDA acc, p : IF p.call \in without THEN acc
                           ELSE acc + Movement(p.intents, ledger, role), 0, journal)
Ties(without) ==
  /\ module = "ap" => Balance("GL", "ACCOUNTS_PAYABLE", without)
                        = Balance("AP", "SUPPLIER_BALANCE", without)
  /\ module = "ar" => Balance("GL", "ACCOUNTS_RECEIVABLE", without)
                        = Balance("AR", "CUSTOMER_BALANCE", without)
\* The payables and receivables subledgers tie to their control accounts after
\* every commit.  Left out: apply_prepayment, which leaves the subledger alone,
\* and record_refund, which moves it the other way.
ControlTies == Ties({"apply_prepayment", "record_refund"})

\* What the lots have lost has been charged: the cost of committed consumption
\* never exceeds the cost posted by the issues.
ConsumedIsExpensed ==
  Applied({l \in links : l.type = "CONSUMED_BY"}) <=
    FoldLeft(LAMBDA acc, p : IF p.event = "inventory.issue" THEN acc + p.amount ELSE acc, 0, journal)
============================================================================
