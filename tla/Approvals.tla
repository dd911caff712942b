------------------------------ MODULE Approvals ------------------------------
(***************************************************************************)
(* Approval gates: WorkflowExecutor.execute_transition for an action that  *)
(* a policy guards, ApprovalService (create, decide, auto-approve, cancel, *)
(* expire) and the pure rule selection of finance_engines.approval, called *)
(* from concurrent database sessions.                                      *)
(*                                                                         *)
(* A request row is loaded without a lock and stays in the session's       *)
(* identity map; an UPDATE waits for the row and overwrites it.  Every     *)
(* change of status writes an audit event, which takes the lock of the     *)
(* audit sequence until the transaction ends.                              *)
(***************************************************************************)
EXTENDS Naturals, FiniteSets

CONSTANTS
    Session, Actor,
    Entity,         \* documents: the workflow each one belongs to is Workflow[e]
    Workflow,       \* [Entity -> DOMAIN Policies]
    Role,           \* [Actor -> role]
    Version,        \* [Session -> policy version of the configuration it loaded]
    Amount,         \* amounts a caller passes
    MaxRequests,    \* bound: request rows ever created
    MaxCalls,       \* bound: calls that write, in all sessions together
    None

Request == 1 .. MaxRequests

VARIABLES
    db,         \* db[r]: the committed ApprovalRequestModel row, or None
    decisions,  \* committed ApprovalDecisionModel rows
    audit,      \* audit[r]: the last committed audit action on r, or None
    applied,    \* requests on whose strength a transition was applied
    holder,     \* holder[r]: the session whose transaction wrote row r
    auditLock,  \* the session that holds the audit sequence row
    cache,      \* cache[s][r]: row r as the identity map of s has it, or None
    txn,        \* txn[s]: the open transaction of s
    calls       \* calls that wrote so far

vars == <<db, decisions, audit, applied, holder, auditLock, cache, txn, calls>>

-----------------------------------------------------------------------------
(* Status lifecycle and policies.                                          *)

OPEN == {"pending", "escalated"}
TERMINAL_APPROVAL_STATUSES == {"approved", "rejected", "expired", "cancelled", "auto_approved"}

APPROVAL_TRANSITIONS ==
    [st \in OPEN \cup TERMINAL_APPROVAL_STATUSES |->
        CASE st = "pending"   -> TERMINAL_APPROVAL_STATUSES \cup {"escalated"}
          [] st = "escalated" -> {"approved", "rejected", "expired"}
          [] OTHER            -> {}]

NoMax == 10000000
ApprovalRule(name, priority, min, max, roles, approvers, below) ==
    [rule_name |-> name, priority |-> priority, min_amount |-> min, max_amount |-> max,
     required_roles |-> roles, min_approvers |-> approvers, auto_approve_below |-> below]

\* Two policies of the configuration set US-GAAP-2026-v1; amounts in dollars.
Policies ==
    [ap_invoice |->
        {ApprovalRule("auto_approve_small", 10, 0, NoMax, {}, 1, 500),
         ApprovalRule("manager_approval", 20, 500, 10000, {"ap_manager", "finance_manager"}, 1, 0),
         ApprovalRule("director_approval", 30, 10000, 100000, {"finance_director", "cfo"}, 1, 0),
         ApprovalRule("executive_approval", 40, 100000, NoMax, {"cfo", "ceo"}, 2, 0)},
     travel_authorization |->
        {ApprovalRule("supervisor_travel", 10, 0, 2500, {"supervisor", "project_manager"}, 1, 0),
         ApprovalRule("manager_travel", 20, 2500, NoMax,
                      {"department_manager", "finance_manager"}, 1, 0)}]

\* An auto-approving rule also matches through its (absent) range.
_rule_matches(rule, amount) ==
    \/ amount < rule.auto_approve_below
    \/ rule.min_amount <= amount /\ amount < rule.max_amount

select_matching_rule(rules, amount) ==
    LET matching == {r \in rules : _rule_matches(r, amount)}
    IN  CHOOSE r \in matching : \A q \in matching : r.priority <= q.priority

evaluate_approval_requirement(rules, amount) ==
    LET rule == select_matching_rule(rules, amount)
    IN  [rule |-> rule, auto_approved |-> amount < rule.auto_approve_below]

validate_actor_authority_any(role, rule) == TRUE
validate_actor_authority(role, rule) ==
    rule.required_roles = {} \/ role \in rule.required_roles

_resolve_new_status(decision) ==
    CASE decision = "approve" -> "approved"
      [] decision = "reject" -> "rejected"
      [] decision = "escalate" -> "escalated"

-----------------------------------------------------------------------------
(* Sessions, locks and transactions.                                       *)

NoTxn == [rows |-> {}, base |-> [r \in Request |-> None], decided |-> {}, applied |-> {},
          audit |-> [r \in Request |-> None], due |-> None, todo |-> {}]

Init ==
    /\ db = [r \in Request |-> None]
    /\ decisions = {}
    /\ audit = [r \in Request |-> None]
    /\ applied = {}
    /\ holder = [r \in Request |-> None]
    /\ auditLock = None
    /\ cache = [s \in Session |-> [r \in Request |-> None]]
    /\ txn = [s \in Session |-> NoTxn]
    /\ calls = 0

\* Between two calls: no audit event outstanding and no expiry loop under way.
Ready(s) == txn[s].due = None /\ txn[s].todo = {}
Call(s) == Ready(s) /\ calls < MaxCalls /\ calls' = calls + 1
Known(s, r) == cache[s][r] # None
Free(s, r) == holder[r] \in {None, s}

\* The row as a SELECT of s finds it: its own write or the committed one.
Visible(s, r) == IF r \in txn[s].rows THEN cache[s][r] ELSE db[r]
IsOpen(row) == row # None /\ row.status \in OPEN

\* The partial unique index over the open requests of a transition: a row that
\* is open waits for a transaction that wrote another one, and fails on it.
UniqueOpenRequest(s, r, row) ==
    IsOpen(row) => \A q \in Request \ {r} :
        /\ ~(IsOpen(Visible(s, q)) /\ Visible(s, q).entity = row.entity)
        /\ \A t \in Session \ {s} :
              ~(q \in txn[t].rows /\ IsOpen(cache[t][q]) /\ cache[t][q].entity = row.entity)

\* Flush of a row by s, followed by the audit event that the call writes next.
Flush(s, r, row, action, decided) ==
    /\ Free(s, r) /\ UniqueOpenRequest(s, r, row)
    /\ holder' = [holder EXCEPT ![r] = s]
    /\ cache' = [cache EXCEPT ![s][r] = row]
    /\ txn' = [txn EXCEPT ![s].rows = @ \cup {r},
                          ![s].due = [request |-> r, action |-> action],
                          ![s].base[r] = IF r \in txn[s].rows THEN @ ELSE cache[s][r],
                          ![s].decided = @ \cup decided]
    /\ UNCHANGED <<db, decisions, audit, applied>>

\* AuditorService._create_audit_event: the sequence row is locked until commit.
_create_audit_event(s) ==
    /\ txn[s].due # None
    /\ auditLock \in {None, s}
    /\ auditLock' = s
    /\ txn' = [txn EXCEPT ![s].audit[txn[s].due.request] = txn[s].due.action,
                          ![s].due = None]
    /\ UNCHANGED <<db, decisions, audit, applied, holder, cache, calls>>

Release(s) ==
    /\ holder' = [r \in Request |-> IF holder[r] = s THEN None ELSE holder[r]]
    /\ auditLock' = IF auditLock = s THEN None ELSE auditLock
    /\ txn' = [txn EXCEPT ![s] = NoTxn]

Commit(s) ==
    /\ Ready(s) /\ txn[s] # NoTxn
    /\ db' = [r \in Request |-> Visible(s, r)]
    /\ decisions' = decisions \cup txn[s].decided
    /\ audit' = [r \in Request |-> IF txn[s].audit[r] # None THEN txn[s].audit[r] ELSE audit[r]]
    /\ applied' = applied \cup txn[s].applied
    /\ Release(s)
    /\ UNCHANGED <<cache, calls>>

\* The caller rolls back, an exception of the call makes it, the process dies,
\* or the database picks s as the victim of a deadlock.
Rollback(s) ==
    /\ txn[s] # NoTxn \/ \E r \in Request : Known(s, r)
    /\ cache' = [cache EXCEPT ![s] = [r \in Request |-> None]]
    /\ Release(s)
    /\ UNCHANGED <<db, decisions, audit, applied, calls>>

-----------------------------------------------------------------------------
(* ApprovalService and WorkflowExecutor.                                   *)

\* get_request / _load_request_model: a row already in the identity map is
\* not read again.
get_request(s, r) ==
    /\ Ready(s) /\ ~Known(s, r) /\ Visible(s, r) # None
    /\ cache' = [cache EXCEPT ![s][r] = Visible(s, r)]
    /\ UNCHANGED <<db, decisions, audit, applied, holder, auditLock, txn, calls>>

ApprovalRequest(s, e, amount, rule, status) ==
    [entity |-> e, amount |-> amount, matched_rule |-> rule.rule_name,
     policy_version |-> Version[s], status |-> status]

create_request(s, e, amount, rule, status, action) ==
    LET unused == {r \in Request : db[r] = None /\ holder[r] = None}
    IN  /\ ~\E r \in Request : IsOpen(Visible(s, r)) /\ Visible(s, r).entity = e
        /\ \E r \in unused :
              /\ \A q \in unused : r <= q
              /\ Flush(s, r, ApprovalRequest(s, e, amount, rule, status), action, {})
        /\ UNCHANGED auditLock

\* execute_transition, steps 6 to 8: no approval request is given.
RequestTransition(s, e, amount) ==
    LET evaluation == evaluate_approval_requirement(Policies[Workflow[e]], amount)
        auto == evaluation.auto_approved
    IN  /\ Call(s)
        /\ create_request(s, e, amount, evaluation.rule,
                          IF auto THEN "auto_approved" ELSE "pending",
                          IF auto THEN "AUTO_APPROVED" ELSE "REQUESTED")

_check_existing_approval(s, r) == cache[s][r].status \in {"approved", "auto_approved"}

\* execute_transition, step 5: the caller names a request; neither its entity
\* nor its amount is compared with the transition's.
ApplyTransition(s, r) ==
    /\ Call(s) /\ Known(s, r)
    /\ _check_existing_approval(s, r)
    /\ txn' = [txn EXCEPT ![s].applied = @ \cup {r}]
    /\ UNCHANGED <<db, decisions, audit, applied, holder, auditLock, cache>>

AuditAction(status) ==
    CASE status = "approved" -> "GRANTED"
      [] status = "rejected" -> "REJECTED"
      [] status = "escalated" -> "ESCALATED"

\* record_approval_decision and record_decision.  A refused decision raises:
\* the caller's Rollback.  A resolution under a newer policy version records
\* APPROVAL_POLICY_DRIFT first, which takes the audit sequence; the audit event
\* of the decision follows it in the same transaction.
RecordDecision(s, r, a, decision) ==
    LET row == cache[s][r]
        rules == Policies[Workflow[row.entity]]
        new_status == _resolve_new_status(decision)
        resolves == new_status \in TERMINAL_APPROVAL_STATUSES
        drift == resolves /\ Version[s] > row.policy_version
        Mine(d) == d.request = r /\ d.actor = a
    IN  /\ Call(s) /\ Known(s, r)
        /\ validate_actor_authority(Role[a], select_matching_rule(rules, row.amount))
        /\ row.status \notin TERMINAL_APPROVAL_STATUSES
        /\ ~\E d \in decisions \cup txn[s].decided : Mine(d)
        /\ \A t \in Session \ {s} : ~\E d \in txn[t].decided : Mine(d)
        /\ new_status \in APPROVAL_TRANSITIONS[row.status]
        /\ resolves => Version[s] >= row.policy_version
        /\ drift => auditLock \in {None, s}
        /\ auditLock' = IF drift THEN s ELSE auditLock
        /\ Flush(s, r, [row EXCEPT !.status = new_status], AuditAction(new_status),
                 {[request |-> r, actor |-> a, decision |-> decision]})

cancel_request_resolved(s, r) ==
    /\ Call(s) /\ Known(s, r)
    /\ Flush(s, r, [cache[s][r] EXCEPT !.status = "cancelled"], "CANCELLED", {})
    /\ UNCHANGED auditLock
cancel_request(s, r) ==
    /\ Call(s) /\ Known(s, r)
    /\ "cancelled" \in APPROVAL_TRANSITIONS[cache[s][r].status]
    /\ Flush(s, r, [cache[s][r] EXCEPT !.status = "cancelled"], "CANCELLED", {})
    /\ UNCHANGED auditLock

\* expire_stale_requests: one SELECT of the open requests created before the
\* cutoff, then one flush and one audit event for each, in no given order.
expire_stale_requests(s, cutoff) ==
    LET stale == {r \in Request : r < cutoff /\ IsOpen(Visible(s, r))}
    IN  /\ Call(s) /\ stale # {}
        /\ txn' = [txn EXCEPT ![s].todo = stale,
                              ![s].base = [r \in Request |->
                                IF r \in stale \ txn[s].rows THEN Visible(s, r) ELSE @[r]]]
        /\ cache' = [cache EXCEPT ![s] = [r \in Request |->
                        IF r \in stale /\ ~Known(s, r) THEN Visible(s, r) ELSE @[r]]]
        /\ UNCHANGED <<db, decisions, audit, applied, holder, auditLock>>

ExpireNextUnaudited(s, r) ==
    /\ txn[s].due = None /\ r \in txn[s].todo
    /\ Free(s, r)
    /\ holder' = [holder EXCEPT ![r] = s]
    /\ cache' = [cache EXCEPT ![s][r].status = "expired"]
    /\ txn' = [txn EXCEPT ![s].rows = @ \cup {r}, ![s].todo = @ \ {r}]
    /\ UNCHANGED <<db, decisions, audit, applied, auditLock, calls>>
ExpireNext(s, r) ==
    /\ txn[s].due = None /\ r \in txn[s].todo
    /\ Free(s, r)
    /\ holder' = [holder EXCEPT ![r] = s]
    /\ cache' = [cache EXCEPT ![s][r].status = "expired"]
    /\ txn' = [txn EXCEPT ![s].rows = @ \cup {r}, ![s].todo = @ \ {r},
                          ![s].due = [request |-> r, action |-> "EXPIRED"]]
    /\ UNCHANGED <<db, decisions, audit, applied, auditLock, calls>>

Next ==
    \E s \in Session :
        \/ _create_audit_event(s) \/ Commit(s) \/ Rollback(s)
        \/ \E e \in Entity, amount \in Amount : RequestTransition(s, e, amount)
        \/ \E r \in Request :
              ExpireNext(s, r) \/ get_request(s, r) \/ cancel_request(s, r) \/ ApplyTransition(s, r)
        \/ \E r \in Request, a \in Actor, d \in {"approve", "reject", "escalate"} :
              RecordDecision(s, r, a, d)
        \/ \E cutoff \in 2 .. MaxRequests + 1 : expire_stale_requests(s, cutoff)

Spec == Init /\ [][Next]_vars

-----------------------------------------------------------------------------
(* Properties.                                                             *)

StatusOf(action) ==
    CASE action = "REQUESTED" -> "pending"
      [] action = "GRANTED" -> "approved"
      [] action = "REJECTED" -> "rejected"
      [] action = "ESCALATED" -> "escalated"
      [] action = "CANCELLED" -> "cancelled"
      [] action = "EXPIRED" -> "expired"
      [] action = "AUTO_APPROVED" -> "auto_approved"

Actions == {"REQUESTED", "GRANTED", "REJECTED", "ESCALATED", "CANCELLED", "EXPIRED",
            "AUTO_APPROVED"}
RuleNames == {select_matching_rule(Policies[Workflow[e]], a).rule_name :
                 e \in Entity, a \in Amount}
Rows == [entity : Entity, amount : Amount, matched_rule : RuleNames,
         policy_version : {Version[s] : s \in Session},
         status : OPEN \cup TERMINAL_APPROVAL_STATUSES]
DecisionRows == [request : Request, actor : Actor, decision : {"approve", "reject", "escalate"}]
Due == [request : Request, action : Actions]
Txns == [rows : SUBSET Request, base : [Request -> Rows \cup {None}],
         decided : SUBSET DecisionRows, applied : SUBSET Request,
         audit : [Request -> Actions \cup {None}], due : Due \cup {None},
         todo : SUBSET Request]

\* NULL is no value of its own column.
ASSUME NoneAssumption ==
    None \notin Session /\ None \notin Actions /\ None \notin Rows /\ None \notin Due

\* The type invariant.
TypeOK ==
    /\ db \in [Request -> Rows \cup {None}]
    /\ decisions \subseteq DecisionRows
    /\ audit \in [Request -> Actions \cup {None}]
    /\ applied \subseteq Request
    /\ holder \in [Request -> Session \cup {None}]
    /\ auditLock \in Session \cup {None}
    /\ cache \in [Session -> [Request -> Rows \cup {None}]]
    /\ txn \in [Session -> Txns]

\* The last audit event on a request tells the status its row has, also after
\* sessions overwrote each other's status: row lock and audit sequence are
\* both held until the commit.
AuditTellsStatus ==
    \A r \in Request : db[r] # None =>
        audit[r] # None /\ StatusOf(audit[r]) = db[r].status

\* A transition that was applied on the strength of a request has behind it
\* the decision of an actor whom the rule that select_matching_rule picks
\* entitles, or an amount below the threshold of that rule, whatever became of
\* the status afterwards.  That rule is not always the one whose range the
\* amount is in: see RangeRuleApproved.
AppliedWasApproved ==
    \A r \in applied :
        LET row == db[r]
            rule == select_matching_rule(Policies[Workflow[row.entity]], row.amount)
        IN  \/ row.amount < rule.auto_approve_below
            \/ \E d \in decisions :
                  /\ d.request = r /\ d.decision = "approve"
                  /\ rule.required_roles # {} => Role[d.actor] \in rule.required_roles

\* docs/CONFIG_AUTHORING_GUIDE.md:474-477: "Rule applies when amount >= this",
\* "Any of these may approve", "How many decisions needed".  An applied request
\* has the decisions that the rule with the range of its amount asks for.  The
\* code breaks it: auto_approve_small has no range, _rule_matches takes it for
\* every amount, it comes first, and it asks for no role.
RangeRuleApproved ==
    \A r \in applied : \A rule \in Policies[Workflow[db[r].entity]] :
        /\ rule.auto_approve_below = 0
        /\ rule.min_amount <= db[r].amount /\ db[r].amount < rule.max_amount
        => Cardinality({d \in decisions : /\ d.request = r /\ d.decision = "approve"
                                          /\ Role[d.actor] \in rule.required_roles})
             >= rule.min_approvers

Resolved(row) == row # None /\ row.status \in TERMINAL_APPROVAL_STATUSES

\* AL-1, models/approval.py:63-65: "Terminal statuses (approved, rejected,
\* expired, cancelled, auto_approved) cannot be changed once set."  The code
\* breaks it: neither a lock nor a trigger stops a session that loaded the row
\* while it was open.
TerminalIsFinal ==
    [][\A r \in Request : Resolved(db[r]) => db'[r] = db[r]]_vars

\* What the code keeps of AL-1: no call resolves a request that its session
\* loaded as resolved, so a resolved request changes its status only through a
\* session that loaded it while it was open.
ResolvedUnlessStale ==
    [][\A r \in Request : Resolved(db[r]) /\ db'[r] # db[r] =>
         \E s \in Session : r \in txn[s].rows /\ IsOpen(txn[s].base[r])]_vars
=============================================================================
