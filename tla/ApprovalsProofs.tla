--------------------------- MODULE ApprovalsProofs ---------------------------
(***************************************************************************)
(* Proofs about Approvals, for every set of sessions, actors, documents    *)
(* and amounts, and every assignment of roles and policy versions.         *)
(***************************************************************************)
EXTENDS Approvals, TLAPS

-----------------------------------------------------------------------------
(* The inductive invariant. *)

\* Two versions of a request's row: only the status differs.
SameDocument(row, old) == row.entity = old.entity /\ row.amount = old.amount

RuleOf(row) == select_matching_rule(Policies[Workflow[row.entity]], row.amount)

\* What stands behind an approval of request r among the decisions D.
Backed(r, row, D) ==
    \/ row.amount < RuleOf(row).auto_approve_below
    \/ \E d \in D : /\ d.request = r /\ d.decision = "approve"
                    /\ RuleOf(row).required_roles # {} => Role[d.actor] \in RuleOf(row).required_roles

Granted(row) == row.status \in {"approved", "auto_approved"}
Decided(s) == decisions \cup txn[s].decided

\* The row lock belongs to the transaction that wrote the row.
LockOK(s, r) == holder[r] = s <=> r \in txn[s].rows

\* The audit event of a written row is there, or is the one that comes next.
AuditedOK(s, r) ==
    /\ txn[s].audit[r] # None => r \in txn[s].rows
    /\ txn[s].due # None => txn[s].due.request \in txn[s].rows
    /\ r \in txn[s].rows =>
         /\ Known(s, r)
         /\ IF txn[s].due # None /\ txn[s].due.request = r
            THEN StatusOf(txn[s].due.action) = cache[s][r].status
            ELSE txn[s].audit[r] # None /\ StatusOf(txn[s].audit[r]) = cache[s][r].status

\* A row that is written or about to be was loaded open, unless it is new; a
\* row in the identity map is a version of the committed one.
LoadedOK(s, r) ==
    /\ r \in txn[s].rows => IsOpen(txn[s].base[r]) \/ db[r] = None
    /\ r \in txn[s].todo => Known(s, r) /\ (r \in txn[s].rows \/ IsOpen(txn[s].base[r]))
    /\ Known(s, r) => IF db[r] = None THEN r \in txn[s].rows ELSE SameDocument(cache[s][r], db[r])

\* What an approval in the identity map, or a transition applied, rests on.
BackedOK(s, r) ==
    /\ Known(s, r) /\ Granted(cache[s][r]) => Backed(r, cache[s][r], Decided(s))
    /\ r \in txn[s].applied => Known(s, r) /\ Backed(r, cache[s][r], Decided(s))

SessionOK(s, r) == LockOK(s, r) /\ AuditedOK(s, r) /\ LoadedOK(s, r) /\ BackedOK(s, r)

CommittedOK(r) ==
    /\ db[r] # None => /\ audit[r] # None /\ StatusOf(audit[r]) = db[r].status
                       /\ Granted(db[r]) => Backed(r, db[r], decisions)
    /\ r \in applied => db[r] # None /\ Backed(r, db[r], decisions)

IInv ==
    /\ TypeOK
    /\ \A r \in Request : CommittedOK(r) /\ \A s \in Session : SessionOK(s, r)

-----------------------------------------------------------------------------
(* Facts about the data. *)

\* An approval stays backed when the status changes or decisions are added.
LEMMA BackedStays ==
    ASSUME NEW r, NEW row, NEW old, NEW D, NEW E, SameDocument(row, old), D \subseteq E,
           Backed(r, old, D)
    PROVE  Backed(r, row, E)
<1>1. RuleOf(row) = RuleOf(old) /\ row.amount = old.amount
  BY DEF SameDocument, RuleOf
<1> QED
  BY <1>1 DEF Backed

LEMMA RowFacts ==
    ASSUME NEW row \in Rows
    PROVE  /\ row # None /\ row.status \in OPEN \cup TERMINAL_APPROVAL_STATUSES
           /\ \A st \in OPEN \cup TERMINAL_APPROVAL_STATUSES :
                /\ [row EXCEPT !.status = st] \in Rows
                /\ [row EXCEPT !.status = st].status = st
                /\ SameDocument([row EXCEPT !.status = st], row)
<1>1. row # None
  BY NoneAssumption
<1>2. row.status \in OPEN \cup TERMINAL_APPROVAL_STATUSES
  BY DEF Rows
<1>3. ASSUME NEW st \in OPEN \cup TERMINAL_APPROVAL_STATUSES
      PROVE  /\ [row EXCEPT !.status = st] \in Rows
             /\ [row EXCEPT !.status = st].status = st
             /\ SameDocument([row EXCEPT !.status = st], row)
  BY DEF Rows, SameDocument
<1> QED
  BY <1>1, <1>2, <1>3

LEMMA TxnFacts ==
    ASSUME TypeOK, NEW s \in Session
    PROVE  /\ txn[s] \in Txns /\ txn[s].rows \subseteq Request
           /\ txn[s].base \in [Request -> Rows \cup {None}]
           /\ txn[s].decided \subseteq DecisionRows /\ txn[s].applied \subseteq Request
           /\ txn[s].audit \in [Request -> Actions \cup {None}]
           /\ txn[s].due \in Due \cup {None} /\ txn[s].todo \subseteq Request
           /\ cache[s] \in [Request -> Rows \cup {None}]
BY DEF TypeOK, Txns

LEMMA NoTxnFacts ==
    /\ NoTxn \in Txns /\ NoTxn.rows = {} /\ NoTxn.decided = {} /\ NoTxn.applied = {}
    /\ NoTxn.todo = {} /\ NoTxn.due = None /\ \A r \in Request : NoTxn.audit[r] = None
BY DEF NoTxn, Txns

\* What the sessions other than s have, when s leaves the committed rows alone.
LEMMA OthersStep ==
    ASSUME NEW t \in Session, NEW r \in Request, SessionOK(t, r),
           UNCHANGED <<db, decisions>>, txn'[t] = txn[t], cache'[t] = cache[t],
           holder'[r] = t <=> holder[r] = t
    PROVE  SessionOK(t, r)'
<1>1. LockOK(t, r)'
  BY DEF SessionOK, LockOK
<1>2. AuditedOK(t, r)'
  BY DEF SessionOK, AuditedOK, Known
<1>3. LoadedOK(t, r)'
  BY DEF SessionOK, LoadedOK, Known, IsOpen
<1>4. BackedOK(t, r)'
  BY DEF SessionOK, BackedOK, Known, Decided, Granted, Backed, RuleOf
<1> QED
  BY <1>1, <1>2, <1>3, <1>4 DEF SessionOK

LEMMA CommittedStep ==
    ASSUME NEW r \in Request, CommittedOK(r), UNCHANGED <<db, decisions, audit, applied>>
    PROVE  CommittedOK(r)'
BY DEF CommittedOK, Granted, Backed, RuleOf

-----------------------------------------------------------------------------
(* Steps inside a transaction. *)

\* The flush of a row: of a new one, or of one that the session has loaded.
LEMMA FlushStep ==
    ASSUME IInv, NEW s \in Session, NEW r \in Request, NEW row \in Rows, NEW action \in Actions,
           NEW new \in SUBSET DecisionRows, Ready(s), Flush(s, r, row, action, new),
           auditLock' \in Session \cup {None},
           StatusOf(action) = row.status,
           IF Known(s, r) THEN SameDocument(row, cache[s][r]) ELSE db[r] = None,
           r \in txn[s].rows \/ IsOpen(cache[s][r]) \/ db[r] = None,
           Granted(row) => Backed(r, row, Decided(s) \cup new)
    PROVE  IInv'
<1>t. TypeOK /\ None \notin Session
  BY NoneAssumption DEF IInv
<1>x. /\ txn[s] \in Txns /\ txn[s].rows \subseteq Request
      /\ txn[s].base \in [Request -> Rows \cup {None}]
      /\ txn[s].decided \subseteq DecisionRows
      /\ cache[s] \in [Request -> Rows \cup {None}]
      /\ txn[s].due = None /\ txn[s].todo = {}
  BY <1>t, TxnFacts DEF Ready
<1>0. /\ Free(s, r) /\ holder' = [holder EXCEPT ![r] = s]
      /\ cache' = [cache EXCEPT ![s][r] = row]
      /\ txn' = [txn EXCEPT ![s].rows = @ \cup {r},
                            ![s].due = [request |-> r, action |-> action],
                            ![s].base[r] = IF r \in txn[s].rows THEN @ ELSE cache[s][r],
                            ![s].decided = @ \cup new]
      /\ UNCHANGED <<db, decisions, audit, applied>>
  BY DEF Flush
<1>d. [request |-> r, action |-> action] \in Due /\ [request |-> r, action |-> action] # None
  BY NoneAssumption DEF Due
<1>1. /\ \A t \in Session \ {s} : txn'[t] = txn[t] /\ cache'[t] = cache[t]
      /\ cache'[s] = [cache[s] EXCEPT ![r] = row] /\ DOMAIN txn' = Session
  BY <1>0, <1>t DEF TypeOK
<1>2. /\ txn'[s].rows = txn[s].rows \cup {r} /\ txn'[s].decided = txn[s].decided \cup new
      /\ txn'[s].due = [request |-> r, action |-> action]
      /\ txn'[s].base = [txn[s].base EXCEPT ![r] = IF r \in txn[s].rows THEN @ ELSE cache[s][r]]
      /\ txn'[s].audit = txn[s].audit /\ txn'[s].todo = {} /\ txn'[s].applied = txn[s].applied
  BY <1>0, <1>t, <1>x DEF TypeOK, Txns
<1>3. txn'[s] \in Txns
  <2>1. txn'[s].base \in [Request -> Rows \cup {None}]
    BY <1>2, <1>x
  <2>2. txn'[s] = [rows |-> txn[s].rows \cup {r}, base |-> txn'[s].base,
                   decided |-> txn[s].decided \cup new, applied |-> txn[s].applied,
                   audit |-> txn[s].audit, due |-> [request |-> r, action |-> action],
                   todo |-> {}]
    BY <1>0, <1>t, <1>x DEF TypeOK, Txns
  <2> QED
    BY <1>d, <1>x, <2>1, <2>2 DEF Txns
<1>4. TypeOK'
  BY <1>0, <1>1, <1>3, <1>t DEF TypeOK
<1>h. /\ holder'[r] = s /\ \A q \in Request \ {r} : holder'[q] = holder[q]
      /\ \A t \in Session \ {s}, q \in Request : holder'[q] = t <=> holder[q] = t
  BY <1>0, <1>t DEF TypeOK, Free
<1>c. cache'[s][r] = row /\ \A q \in Request \ {r} : cache'[s][q] = cache[s][q]
  BY <1>1, <1>x
<1>5. ASSUME NEW q \in Request PROVE CommittedOK(q)'
  BY <1>0, CommittedStep DEF IInv
<1>6. ASSUME NEW q \in Request, NEW t \in Session \ {s} PROVE SessionOK(t, q)'
  BY <1>0, <1>1, <1>h, OthersStep DEF IInv
<1>7. ASSUME NEW q \in Request \ {r} PROVE SessionOK(s, q)'
  <2>0. LockOK(s, q) /\ AuditedOK(s, q) /\ LoadedOK(s, q) /\ BackedOK(s, q)
    BY DEF IInv, SessionOK
  <2>1. LockOK(s, q)'
    BY <1>2, <1>h, <2>0 DEF LockOK
  <2>2. AuditedOK(s, q)'
    BY <1>2, <1>c, <1>x, <2>0 DEF AuditedOK, Known
  <2>3. LoadedOK(s, q)'
    <3>1. txn'[s].base[q] = txn[s].base[q]
      BY <1>2, <1>x
    <3> QED
      BY <1>0, <1>2, <1>c, <2>0, <3>1 DEF LoadedOK, Known
  <2>4. BackedOK(s, q)'
    <3>1. Decided(s) \subseteq Decided(s)' /\ SameDocument(cache[s][q], cache[s][q])
      BY <1>0, <1>2 DEF Decided, SameDocument
    <3>2. cache'[s][q] = cache[s][q] /\ txn'[s].applied = txn[s].applied
      BY <1>2, <1>c
    <3> QED
      BY <2>0, <3>1, <3>2, BackedStays DEF BackedOK, Known, Granted
  <2> QED
    BY <2>1, <2>2, <2>3, <2>4 DEF SessionOK
<1>8. SessionOK(s, r)'
  <2>0. LockOK(s, r) /\ AuditedOK(s, r) /\ LoadedOK(s, r) /\ BackedOK(s, r) /\ row # None
    BY RowFacts DEF IInv, SessionOK
  <2>1. LockOK(s, r)'
    BY <1>2, <1>h DEF LockOK
  <2>2. AuditedOK(s, r)'
    BY <1>2, <1>c, <1>d, <2>0 DEF AuditedOK, Known
  <2>3. LoadedOK(s, r)'
    <3>1. r \in txn[s].rows \/ txn'[s].base[r] = cache[s][r]
      BY <1>2, <1>x
    <3>2. r \in txn[s].rows => txn'[s].base[r] = txn[s].base[r]
      BY <1>2, <1>x
    <3>3. IsOpen(txn'[s].base[r]) \/ db[r] = None
      BY <2>0, <3>1, <3>2 DEF LoadedOK
    <3>4. db[r] # None => SameDocument(row, db[r])
      BY <2>0 DEF LoadedOK, SameDocument
    <3> QED
      BY <1>0, <1>2, <1>c, <3>3, <3>4 DEF LoadedOK
  <2>4. BackedOK(s, r)'
    <3>1. Decided(s)' = Decided(s) \cup new
      BY <1>0, <1>2 DEF Decided
    <3>2. cache'[s][r] = row /\ txn'[s].applied = txn[s].applied
      BY <1>2, <1>c
    <3>3. r \in txn[s].applied => Backed(r, row, Decided(s) \cup new)
      BY <2>0, BackedStays DEF BackedOK
    <3> QED
      BY <2>0, <3>1, <3>2, <3>3 DEF BackedOK, Known
  <2> QED
    BY <2>1, <2>2, <2>3, <2>4 DEF SessionOK
<1> QED
  BY <1>4, <1>5, <1>6, <1>7, <1>8 DEF IInv

LEMMA RequestTransitionStep ==
    ASSUME IInv, NEW s \in Session, NEW e \in Entity, NEW amount \in Amount,
           RequestTransition(s, e, amount)
    PROVE  IInv'
<1> DEFINE rule == select_matching_rule(Policies[Workflow[e]], amount)
           auto == amount < rule.auto_approve_below
           status == IF auto THEN "auto_approved" ELSE "pending"
           action == IF auto THEN "AUTO_APPROVED" ELSE "REQUESTED"
           row == ApprovalRequest(s, e, amount, rule, status)
<1>1. Ready(s) /\ create_request(s, e, amount, rule, status, action)
  BY DEF RequestTransition, Call, evaluate_approval_requirement
<1>2. /\ action \in Actions /\ StatusOf(action) = status
      /\ status \in OPEN \cup TERMINAL_APPROVAL_STATUSES
  BY DEF Actions, StatusOf, OPEN, TERMINAL_APPROVAL_STATUSES
<1>3. rule.rule_name \in RuleNames /\ Version[s] \in {Version[t] : t \in Session}
  BY DEF RuleNames
<1>4. Granted(row) => auto
  BY DEF Granted, ApprovalRequest
<1> HIDE DEF status, action, rule
<1>5. row \in Rows /\ row.status = status /\ row.entity = e /\ row.amount = amount
  BY <1>2, <1>3 DEF ApprovalRequest, Rows
<1>6. Granted(row) => \A r : Backed(r, row, Decided(s) \cup {})
  BY <1>4, <1>5 DEF Backed, RuleOf, rule
<1> HIDE DEF row
<1>7. PICK r \in Request : /\ db[r] = None /\ holder[r] = None
                           /\ Flush(s, r, row, action, {})
  BY <1>1 DEF create_request, row
<1>8. auditLock' \in Session \cup {None}
  BY <1>1 DEF create_request, IInv, TypeOK
<1>9. ~Known(s, r)
  <2>1. LockOK(s, r) /\ LoadedOK(s, r) /\ None \notin Session
    BY NoneAssumption DEF IInv, SessionOK
  <2> QED
    BY <1>7, <2>1 DEF LockOK, LoadedOK
<1> QED
  BY <1>1, <1>2, <1>5, <1>6, <1>7, <1>8, <1>9, FlushStep

LEMMA RecordDecisionStep ==
    ASSUME IInv, NEW s \in Session, NEW r \in Request, NEW a \in Actor,
           NEW decision \in {"approve", "reject", "escalate"}, RecordDecision(s, r, a, decision)
    PROVE  IInv'
<1> DEFINE row == cache[s][r]
           new_status == _resolve_new_status(decision)
           new == [row EXCEPT !.status = new_status]
           mine == [request |-> r, actor |-> a, decision |-> decision]
<1>1. /\ Ready(s) /\ Known(s, r)
      /\ validate_actor_authority(Role[a], RuleOf(row))
      /\ row.status \notin TERMINAL_APPROVAL_STATUSES
      /\ Flush(s, r, new, AuditAction(new_status), {mine})
  BY DEF RecordDecision, Call, RuleOf
<1>2. /\ new_status \in OPEN \cup TERMINAL_APPROVAL_STATUSES
      /\ AuditAction(new_status) \in Actions /\ StatusOf(AuditAction(new_status)) = new_status
      /\ new_status # "auto_approved" /\ (new_status = "approved" => decision = "approve")
  BY DEF _resolve_new_status, AuditAction, Actions, StatusOf, OPEN, TERMINAL_APPROVAL_STATUSES
<1> HIDE DEF new_status
<1>3. row \in Rows
  BY <1>1 DEF IInv, TypeOK, Known
<1>4. /\ new \in Rows /\ new.status = new_status /\ SameDocument(new, row) /\ IsOpen(row)
  BY <1>1, <1>2, <1>3, RowFacts DEF IsOpen
<1>5. mine \in DecisionRows /\ mine.request = r /\ mine.actor = a /\ mine.decision = decision
  BY DEF DecisionRows
<1>6. Granted(new) => Backed(r, new, Decided(s) \cup {mine})
  <2> SUFFICES ASSUME Granted(new) PROVE Backed(r, new, Decided(s) \cup {mine})
    OBVIOUS
  <2>1. decision = "approve"
    BY <1>2, <1>4 DEF Granted
  <2>2. RuleOf(row).required_roles # {} => Role[a] \in RuleOf(row).required_roles
    BY <1>1 DEF validate_actor_authority
  <2>3. Backed(r, row, Decided(s) \cup {mine})
    BY <1>5, <2>1, <2>2 DEF Backed
  <2> QED
    BY <1>4, <2>3, BackedStays
<1>7. auditLock' \in Session \cup {None}
  BY DEF RecordDecision, IInv, TypeOK
<1> HIDE DEF new, row, mine
<1>8. row = cache[s][r] /\ {mine} \in SUBSET DecisionRows
  BY <1>5 DEF row
<1> QED
  BY <1>1, <1>2, <1>4, <1>6, <1>7, <1>8, FlushStep

LEMMA CancelStep ==
    ASSUME IInv, NEW s \in Session, NEW r \in Request, cancel_request(s, r)
    PROVE  IInv'
<1> DEFINE row == cache[s][r]
           new == [row EXCEPT !.status = "cancelled"]
<1>1. /\ Ready(s) /\ Known(s, r) /\ "cancelled" \in APPROVAL_TRANSITIONS[row.status]
      /\ Flush(s, r, new, "CANCELLED", {})
  BY DEF cancel_request, Call
<1>2. row \in Rows
  BY <1>1 DEF IInv, TypeOK, Known
<1>3. "cancelled" \in OPEN \cup TERMINAL_APPROVAL_STATUSES /\ "CANCELLED" \in Actions
      /\ StatusOf("CANCELLED") = "cancelled"
  BY DEF TERMINAL_APPROVAL_STATUSES, Actions, StatusOf
<1>4. /\ new \in Rows /\ new.status = "cancelled" /\ SameDocument(new, row)
      /\ row # None /\ row.status \in OPEN \cup TERMINAL_APPROVAL_STATUSES
  BY <1>2, <1>3, RowFacts
<1>5. IsOpen(row)
  BY <1>1, <1>4 DEF IsOpen, APPROVAL_TRANSITIONS, OPEN, TERMINAL_APPROVAL_STATUSES
<1>6. ~Granted(new)
  BY <1>4 DEF Granted
<1>7. auditLock' \in Session \cup {None}
  BY DEF cancel_request, IInv, TypeOK
<1> HIDE DEF new, row
<1>8. row = cache[s][r]
  BY DEF row
<1> QED
  BY <1>1, <1>3, <1>4, <1>5, <1>6, <1>7, <1>8, FlushStep

\* The next request of the expiry loop.
LEMMA ExpireNextStep ==
    ASSUME IInv, NEW s \in Session, NEW r \in Request, ExpireNext(s, r)
    PROVE  IInv'
<1> DEFINE row == [cache[s][r] EXCEPT !.status = "expired"]
           due == [request |-> r, action |-> "EXPIRED"]
<1>t. TypeOK /\ None \notin Session
  BY NoneAssumption DEF IInv
<1>x. /\ txn[s] \in Txns /\ txn[s].rows \subseteq Request
      /\ txn[s].base \in [Request -> Rows \cup {None}]
      /\ txn[s].todo \subseteq Request /\ cache[s] \in [Request -> Rows \cup {None}]
  BY <1>t, TxnFacts
<1>0. /\ txn[s].due = None /\ r \in txn[s].todo /\ Free(s, r)
      /\ holder' = [holder EXCEPT ![r] = s]
      /\ cache' = [cache EXCEPT ![s][r].status = "expired"]
      /\ txn' = [txn EXCEPT ![s].rows = @ \cup {r}, ![s].todo = @ \ {r}, ![s].due = due]
      /\ UNCHANGED <<db, decisions, audit, applied, auditLock>>
  BY DEF ExpireNext
<1>d. /\ due \in Due /\ due # None /\ due.request = r /\ due.action = "EXPIRED"
      /\ StatusOf("EXPIRED") = "expired" /\ "expired" \in OPEN \cup TERMINAL_APPROVAL_STATUSES
  BY NoneAssumption DEF Due, Actions, StatusOf, TERMINAL_APPROVAL_STATUSES
<1>s. \A q \in Request : LockOK(s, q) /\ AuditedOK(s, q) /\ LoadedOK(s, q) /\ BackedOK(s, q)
  BY DEF IInv, SessionOK
<1>r. /\ Known(s, r) /\ cache[s][r] \in Rows
      /\ r \in txn[s].rows \/ IsOpen(txn[s].base[r])
  BY <1>0, <1>s, <1>x DEF LoadedOK, Known
<1>w. row \in Rows /\ row.status = "expired" /\ row # None /\ SameDocument(row, cache[s][r])
  BY <1>d, <1>r, RowFacts
<1>1. /\ \A t \in Session \ {s} : txn'[t] = txn[t] /\ cache'[t] = cache[t]
      /\ cache'[s] = [cache[s] EXCEPT ![r] = row] /\ DOMAIN txn' = Session
  BY <1>0, <1>t DEF TypeOK
<1>2. txn'[s] = [rows |-> txn[s].rows \cup {r}, base |-> txn[s].base,
                 decided |-> txn[s].decided, applied |-> txn[s].applied,
                 audit |-> txn[s].audit, due |-> due, todo |-> txn[s].todo \ {r}]
  BY <1>0, <1>t, <1>x DEF TypeOK, Txns
<1> HIDE DEF row, due
<1>3. txn'[s] \in Txns
  BY <1>2, <1>d, <1>x DEF Txns
<1>4. TypeOK'
  <2>1. txn' \in [Session -> Txns]
    BY <1>0, <1>1, <1>3, <1>t DEF TypeOK
  <2>2. cache' \in [Session -> [Request -> Rows \cup {None}]]
    <3>1. cache' = [cache EXCEPT ![s] = [cache[s] EXCEPT ![r] = row]]
      BY <1>0, <1>t DEF TypeOK, row
    <3>2. [cache[s] EXCEPT ![r] = row] \in [Request -> Rows \cup {None}]
      BY <1>w, <1>x
    <3> QED
      BY <1>t, <3>1, <3>2 DEF TypeOK
  <2> QED
    BY <1>0, <1>t, <2>1, <2>2 DEF TypeOK
<1>h. /\ holder'[r] = s /\ \A q \in Request \ {r} : holder'[q] = holder[q]
      /\ \A t \in Session \ {s}, q \in Request : holder'[q] = t <=> holder[q] = t
  BY <1>0, <1>t DEF TypeOK, Free
<1>c. cache'[s][r] = row /\ \A q \in Request \ {r} : cache'[s][q] = cache[s][q]
  BY <1>1, <1>x
<1>5. ASSUME NEW q \in Request PROVE CommittedOK(q)'
  BY <1>0, CommittedStep DEF IInv
<1>6. ASSUME NEW q \in Request, NEW t \in Session \ {s} PROVE SessionOK(t, q)'
  BY <1>0, <1>1, <1>h, OthersStep DEF IInv
<1>g. Decided(s)' = Decided(s)
  BY <1>0, <1>2 DEF Decided
<1>7. ASSUME NEW q \in Request \ {r} PROVE SessionOK(s, q)'
  <2>1. LockOK(s, q)'
    BY <1>2, <1>h, <1>s DEF LockOK
  <2>2. AuditedOK(s, q)'
    BY <1>0, <1>2, <1>c, <1>d, <1>s DEF AuditedOK, Known
  <2>3. LoadedOK(s, q)'
    BY <1>0, <1>2, <1>c, <1>s DEF LoadedOK, Known
  <2>4. BackedOK(s, q)'
    BY <1>2, <1>c, <1>g, <1>s DEF BackedOK, Known, Granted
  <2> QED
    BY <2>1, <2>2, <2>3, <2>4 DEF SessionOK
<1>8. SessionOK(s, r)'
  <2>1. LockOK(s, r)'
    BY <1>2, <1>h DEF LockOK
  <2>2. AuditedOK(s, r)'
    BY <1>2, <1>c, <1>d, <1>w DEF AuditedOK, Known
  <2>3. LoadedOK(s, r)'
    <3>1. IsOpen(txn[s].base[r]) \/ db[r] = None
      BY <1>r, <1>s DEF LoadedOK
    <3>2. db[r] # None => SameDocument(row, db[r])
      BY <1>r, <1>s, <1>w DEF LoadedOK, SameDocument
    <3> QED
      BY <1>0, <1>2, <1>c, <3>1, <3>2 DEF LoadedOK
  <2>4. BackedOK(s, r)'
    <3>1. ~Granted(row) /\ (r \in txn[s].applied => Backed(r, row, Decided(s)))
      BY <1>s, <1>w, BackedStays DEF BackedOK, Granted
    <3> QED
      BY <1>2, <1>c, <1>g, <1>w, <3>1 DEF BackedOK, Known
  <2> QED
    BY <2>1, <2>2, <2>3, <2>4 DEF SessionOK
<1> QED
  BY <1>4, <1>5, <1>6, <1>7, <1>8 DEF IInv

\* expire_stale_requests loads the open requests and starts its loop.
LEMMA ExpireStaleStep ==
    ASSUME IInv, NEW s \in Session, NEW cutoff, expire_stale_requests(s, cutoff)
    PROVE  IInv'
<1> DEFINE stale == {r \in Request : r < cutoff /\ IsOpen(Visible(s, r))}
           base == [r \in Request |-> IF r \in stale \ txn[s].rows THEN Visible(s, r)
                                      ELSE txn[s].base[r]]
           map == [r \in Request |-> IF r \in stale /\ ~Known(s, r) THEN Visible(s, r)
                                     ELSE cache[s][r]]
<1>t. TypeOK /\ None \notin Session
  BY NoneAssumption DEF IInv
<1>x. /\ txn[s] \in Txns /\ txn[s].rows \subseteq Request
      /\ txn[s].base \in [Request -> Rows \cup {None}]
      /\ cache[s] \in [Request -> Rows \cup {None}] /\ txn[s].due = None
  BY <1>t, TxnFacts DEF expire_stale_requests, Call, Ready
<1>0. /\ txn' = [txn EXCEPT ![s].todo = stale, ![s].base = base]
      /\ cache' = [cache EXCEPT ![s] = map]
      /\ UNCHANGED <<db, decisions, audit, applied, holder, auditLock>>
  <2>1. base = [r \in Request |-> IF r \in stale \ txn[s].rows THEN Visible(s, r) ELSE txn[s].base[r]]
    OBVIOUS
  <2> QED
    BY <1>t, <1>x DEF expire_stale_requests, TypeOK, Txns
<1>s. \A q \in Request : LockOK(s, q) /\ AuditedOK(s, q) /\ LoadedOK(s, q) /\ BackedOK(s, q)
  BY DEF IInv, SessionOK
<1>v. \A q \in Request :
        /\ Visible(s, q) \in Rows \cup {None}
        /\ base[q] = IF q \in stale \ txn[s].rows THEN Visible(s, q) ELSE txn[s].base[q]
        /\ map[q] = IF q \in stale /\ ~Known(s, q) THEN Visible(s, q) ELSE cache[s][q]
        /\ q \in stale => IsOpen(Visible(s, q)) /\ Visible(s, q) # None
  BY <1>t, <1>x DEF Visible, TypeOK, IsOpen
<1>b. stale \subseteq Request /\ base \in [Request -> Rows \cup {None}]
      /\ map \in [Request -> Rows \cup {None}]
  BY <1>v, <1>x
<1> HIDE DEF stale, base, map
<1>1. /\ \A t \in Session \ {s} : txn'[t] = txn[t] /\ cache'[t] = cache[t]
      /\ cache'[s] = map
      /\ txn'[s] = [rows |-> txn[s].rows, base |-> base, decided |-> txn[s].decided,
                    applied |-> txn[s].applied, audit |-> txn[s].audit, due |-> txn[s].due,
                    todo |-> stale]
  BY <1>0, <1>t, <1>x DEF TypeOK, Txns
<1>2. TypeOK'
  <2>1. txn'[s] \in Txns
    BY <1>1, <1>b, <1>x DEF Txns
  <2>2. txn' \in [Session -> Txns]
    BY <1>0, <1>1, <1>t, <2>1 DEF TypeOK
  <2> QED
    BY <1>0, <1>b, <1>t, <2>2 DEF TypeOK
<1>5. ASSUME NEW q \in Request PROVE CommittedOK(q)'
  BY <1>0, CommittedStep DEF IInv
<1>6. ASSUME NEW q \in Request, NEW t \in Session \ {s} PROVE SessionOK(t, q)'
  BY <1>0, <1>1, OthersStep DEF IInv
<1>7. ASSUME NEW q \in Request PROVE SessionOK(s, q)'
  <2>0. Known(s, q) => cache'[s][q] = cache[s][q]
    BY <1>1, <1>v
  <2>1. LockOK(s, q)'
    BY <1>0, <1>1, <1>s DEF LockOK
  <2>2. AuditedOK(s, q)'
    BY <1>1, <1>s, <1>x, <2>0 DEF AuditedOK, Known
  <2>3. ASSUME ~Known(s, q), Known(s, q)'
        PROVE  /\ cache'[s][q] = db[q] /\ q \notin txn[s].rows /\ db[q] # None
               /\ q \notin txn[s].applied
    <3>1. q \notin txn[s].rows /\ q \notin txn[s].applied
      BY <1>s, <2>3 DEF AuditedOK, BackedOK
    <3>2. cache'[s][q] = Visible(s, q)
      BY <1>1, <1>v, <2>3 DEF Known
    <3> QED
      BY <2>3, <3>1, <3>2 DEF Known, Visible
  <2>4. LoadedOK(s, q)'
    <3>1. q \in txn[s].rows => base[q] = txn[s].base[q]
      BY <1>v
    <3>2. q \in stale => Known(s, q)' /\ (q \in txn[s].rows \/ IsOpen(base[q]))
      BY <1>1, <1>v DEF Known
    <3>3. Known(s, q)' => IF db[q] = None THEN q \in txn[s].rows ELSE SameDocument(cache'[s][q], db[q])
      BY <1>s, <2>0, <2>3 DEF LoadedOK, SameDocument
    <3> QED
      BY <1>0, <1>1, <1>s, <3>1, <3>2, <3>3 DEF LoadedOK
  <2>5. BackedOK(s, q)'
    <3>1. Decided(s)' = Decided(s) /\ txn'[s].applied = txn[s].applied
      BY <1>0, <1>1 DEF Decided
    <3>2. CASE Known(s, q)
      BY <1>s, <2>0, <3>1, <3>2 DEF BackedOK, Known, Granted
    <3>3. CASE ~Known(s, q) /\ Known(s, q)'
      <4>1. CommittedOK(q) /\ decisions \subseteq Decided(s)
        BY DEF IInv, Decided
      <4>2. Granted(db[q]) => Backed(q, db[q], Decided(s))
        BY <2>3, <3>3, <4>1, BackedStays DEF CommittedOK, SameDocument
      <4> QED
        BY <2>3, <3>1, <3>3, <4>2 DEF BackedOK, Granted
    <3>4. CASE ~Known(s, q) /\ ~Known(s, q)'
      BY <1>s, <3>1, <3>4 DEF BackedOK
    <3> QED
      BY <3>2, <3>3, <3>4
  <2> QED
    BY <2>1, <2>2, <2>4, <2>5 DEF SessionOK
<1> QED
  BY <1>2, <1>5, <1>6, <1>7 DEF IInv

LEMMA GetRequestStep ==
    ASSUME IInv, NEW s \in Session, NEW r \in Request, get_request(s, r)
    PROVE  IInv'
<1>t. TypeOK
  BY DEF IInv
<1>0. /\ ~Known(s, r) /\ Visible(s, r) # None
      /\ cache' = [cache EXCEPT ![s][r] = Visible(s, r)]
      /\ UNCHANGED <<db, decisions, audit, applied, holder, auditLock, txn>>
  BY DEF get_request
<1>s. \A q \in Request : LockOK(s, q) /\ AuditedOK(s, q) /\ LoadedOK(s, q) /\ BackedOK(s, q)
  BY DEF IInv, SessionOK
<1>r. /\ r \notin txn[s].rows /\ r \notin txn[s].applied /\ Visible(s, r) = db[r] /\ db[r] # None
      /\ r \notin txn[s].todo
  BY <1>0, <1>s DEF AuditedOK, BackedOK, LoadedOK, Visible
<1>1. /\ \A t \in Session \ {s} : cache'[t] = cache[t]
      /\ cache'[s][r] = db[r] /\ \A q \in Request \ {r} : cache'[s][q] = cache[s][q]
  BY <1>0, <1>r, <1>t DEF TypeOK
<1>2. TypeOK'
  BY <1>0, <1>r, <1>t DEF TypeOK
<1>5. ASSUME NEW q \in Request PROVE CommittedOK(q)'
  BY <1>0, CommittedStep DEF IInv
<1>6. ASSUME NEW q \in Request, NEW t \in Session \ {s} PROVE SessionOK(t, q)'
  BY <1>0, <1>1, OthersStep DEF IInv
<1>g. Decided(s)' = Decided(s)
  BY <1>0 DEF Decided
<1>7. ASSUME NEW q \in Request \ {r} PROVE SessionOK(s, q)'
  <2>1. LockOK(s, q)' /\ AuditedOK(s, q)' /\ LoadedOK(s, q)'
    BY <1>0, <1>1, <1>s DEF LockOK, AuditedOK, LoadedOK, Known
  <2>2. BackedOK(s, q)'
    BY <1>0, <1>1, <1>g, <1>s DEF BackedOK, Known, Granted
  <2> QED
    BY <2>1, <2>2 DEF SessionOK
<1>8. SessionOK(s, r)'
  <2>1. LockOK(s, r)' /\ AuditedOK(s, r)' /\ LoadedOK(s, r)'
    BY <1>0, <1>1, <1>r, <1>s DEF LockOK, AuditedOK, LoadedOK, Known, SameDocument
  <2>2. Granted(db[r]) => Backed(r, db[r], Decided(s))
    <3>1. CommittedOK(r) /\ decisions \subseteq Decided(s)
      BY DEF IInv, Decided
    <3> QED
      BY <1>r, <3>1, BackedStays DEF CommittedOK, SameDocument
  <2>3. BackedOK(s, r)'
    BY <1>0, <1>1, <1>g, <1>r, <2>2 DEF BackedOK, Known, Granted
  <2> QED
    BY <2>1, <2>3 DEF SessionOK
<1> QED
  BY <1>2, <1>5, <1>6, <1>7, <1>8 DEF IInv

LEMMA ApplyTransitionStep ==
    ASSUME IInv, NEW s \in Session, NEW r \in Request, ApplyTransition(s, r)
    PROVE  IInv'
<1>t. TypeOK
  BY DEF IInv
<1>x. txn[s] \in Txns /\ txn[s].applied \subseteq Request
  BY <1>t, TxnFacts
<1>0. /\ Known(s, r) /\ Granted(cache[s][r])
      /\ txn' = [txn EXCEPT ![s].applied = @ \cup {r}]
      /\ UNCHANGED <<db, decisions, audit, applied, holder, auditLock, cache>>
  BY DEF ApplyTransition, _check_existing_approval, Granted
<1>s. \A q \in Request : LockOK(s, q) /\ AuditedOK(s, q) /\ LoadedOK(s, q) /\ BackedOK(s, q)
  BY DEF IInv, SessionOK
<1>1. /\ \A t \in Session \ {s} : txn'[t] = txn[t]
      /\ txn'[s] = [rows |-> txn[s].rows, base |-> txn[s].base, decided |-> txn[s].decided,
                    applied |-> txn[s].applied \cup {r}, audit |-> txn[s].audit,
                    due |-> txn[s].due, todo |-> txn[s].todo]
  BY <1>0, <1>t, <1>x DEF TypeOK, Txns
<1>2. TypeOK'
  <2>1. txn'[s] \in Txns
    BY <1>1, <1>x DEF Txns
  <2>2. txn' \in [Session -> Txns]
    BY <1>0, <1>1, <1>t, <2>1 DEF TypeOK
  <2> QED
    BY <1>0, <1>t, <2>2 DEF TypeOK
<1>5. ASSUME NEW q \in Request PROVE CommittedOK(q)'
  BY <1>0, CommittedStep DEF IInv
<1>6. ASSUME NEW q \in Request, NEW t \in Session \ {s} PROVE SessionOK(t, q)'
  BY <1>0, <1>1, OthersStep DEF IInv
<1>7. ASSUME NEW q \in Request PROVE SessionOK(s, q)'
  <2>1. LockOK(s, q)' /\ AuditedOK(s, q)' /\ LoadedOK(s, q)'
    BY <1>0, <1>1, <1>s DEF LockOK, AuditedOK, LoadedOK, Known
  <2>2. Decided(s)' = Decided(s)
    BY <1>0, <1>1 DEF Decided
  <2>3. BackedOK(s, q)'
    BY <1>0, <1>1, <1>s, <2>2 DEF BackedOK, Known, Granted
  <2> QED
    BY <2>1, <2>3 DEF SessionOK
<1> QED
  BY <1>2, <1>5, <1>6, <1>7 DEF IInv

LEMMA AuditEventStep ==
    ASSUME IInv, NEW s \in Session, _create_audit_event(s)
    PROVE  IInv'
<1>t. TypeOK
  BY DEF IInv
<1>x. /\ txn[s] \in Txns /\ txn[s].due \in Due /\ txn[s].audit \in [Request -> Actions \cup {None}]
  BY <1>t, TxnFacts DEF _create_audit_event
<1>d. PICK r \in Request, a \in Actions : r = txn[s].due.request /\ a = txn[s].due.action
  BY <1>x DEF Due
<1>0. /\ auditLock' = s
      /\ txn' = [txn EXCEPT ![s].audit[r] = a, ![s].due = None]
      /\ UNCHANGED <<db, decisions, audit, applied, holder, cache>>
  BY <1>d DEF _create_audit_event
<1>s. \A q \in Request : LockOK(s, q) /\ AuditedOK(s, q) /\ LoadedOK(s, q) /\ BackedOK(s, q)
  BY DEF IInv, SessionOK
<1>1. /\ \A t \in Session \ {s} : txn'[t] = txn[t]
      /\ txn'[s] = [rows |-> txn[s].rows, base |-> txn[s].base, decided |-> txn[s].decided,
                    applied |-> txn[s].applied, audit |-> [txn[s].audit EXCEPT ![r] = a],
                    due |-> None, todo |-> txn[s].todo]
  BY <1>0, <1>t, <1>x DEF TypeOK, Txns
<1>2. TypeOK'
  <2>1. txn'[s] \in Txns
    BY <1>1, <1>x DEF Txns
  <2>2. txn' \in [Session -> Txns]
    BY <1>0, <1>1, <1>t, <2>1 DEF TypeOK
  <2> QED
    BY <1>0, <1>t, <2>2 DEF TypeOK
<1>5. ASSUME NEW q \in Request PROVE CommittedOK(q)'
  BY <1>0, CommittedStep DEF IInv
<1>6. ASSUME NEW q \in Request, NEW t \in Session \ {s} PROVE SessionOK(t, q)'
  BY <1>0, <1>1, OthersStep DEF IInv
<1>7. ASSUME NEW q \in Request PROVE SessionOK(s, q)'
  <2>1. LockOK(s, q)' /\ LoadedOK(s, q)'
    BY <1>0, <1>1, <1>s DEF LockOK, LoadedOK, Known
  <2>2. AuditedOK(s, q)'
    <3>0. txn[s].due # None /\ a # None
      BY <1>x, NoneAssumption
    <3>1. txn'[s].audit[q] = IF q = r THEN a ELSE txn[s].audit[q]
      BY <1>1, <1>x
    <3>2. r \in txn[s].rows
      BY <1>d, <1>s, <3>0 DEF AuditedOK
    <3> QED
      BY <1>0, <1>1, <1>d, <1>s, <3>0, <3>1, <3>2 DEF AuditedOK, Known
  <2>3. Decided(s)' = Decided(s)
    BY <1>0, <1>1 DEF Decided
  <2>4. BackedOK(s, q)'
    BY <1>0, <1>1, <1>s, <2>3 DEF BackedOK, Known, Granted
  <2> QED
    BY <2>1, <2>2, <2>4 DEF SessionOK
<1> QED
  BY <1>2, <1>5, <1>6, <1>7 DEF IInv

-----------------------------------------------------------------------------
(* The end of a transaction. *)

\* A transaction that ends gives back its locks and nobody else's.
LEMMA ReleaseFacts ==
    ASSUME IInv, NEW s \in Session, Release(s)
    PROVE  /\ txn'[s] = NoTxn /\ \A t \in Session \ {s} : txn'[t] = txn[t]
           /\ txn' \in [Session -> Txns] /\ auditLock' \in Session \cup {None}
           /\ holder' \in [Request -> Session \cup {None}]
           /\ \A q \in Request : holder'[q] # s
           /\ \A q \in Request, t \in Session \ {s} : holder'[q] = t <=> holder[q] = t
<1>1. /\ txn \in [Session -> Txns] /\ auditLock \in Session \cup {None}
      /\ holder \in [Request -> Session \cup {None}] /\ None \notin Session
  BY NoneAssumption DEF IInv, TypeOK
<1>2. NoTxn \in Txns
  BY NoTxnFacts
<1>3. /\ holder' = [r \in Request |-> IF holder[r] = s THEN None ELSE holder[r]]
      /\ auditLock' = IF auditLock = s THEN None ELSE auditLock
      /\ txn' = [txn EXCEPT ![s] = NoTxn]
  BY DEF Release
<1>4. /\ txn'[s] = NoTxn /\ \A t \in Session \ {s} : txn'[t] = txn[t]
      /\ txn' \in [Session -> Txns] /\ auditLock' \in Session \cup {None}
  BY <1>1, <1>2, <1>3
<1>5. /\ holder' \in [Request -> Session \cup {None}]
      /\ \A q \in Request : holder'[q] # s
      /\ \A q \in Request, t \in Session \ {s} : holder'[q] = t <=> holder[q] = t
  BY <1>1, <1>3
<1> QED
  BY <1>4, <1>5

LEMMA RollbackStep ==
    ASSUME IInv, NEW s \in Session, Rollback(s)
    PROVE  IInv'
<1>t. TypeOK
  BY DEF IInv
<1>0. /\ cache' = [cache EXCEPT ![s] = [r \in Request |-> None]]
      /\ UNCHANGED <<db, decisions, audit, applied>> /\ Release(s)
  BY DEF Rollback
<1>1. /\ txn'[s] = NoTxn /\ \A t \in Session \ {s} : txn'[t] = txn[t]
      /\ txn' \in [Session -> Txns] /\ auditLock' \in Session \cup {None}
      /\ holder' \in [Request -> Session \cup {None}]
      /\ \A q \in Request : holder'[q] # s
      /\ \A q \in Request, t \in Session \ {s} : holder'[q] = t <=> holder[q] = t
  BY <1>0, ReleaseFacts
<1>2. /\ cache' \in [Session -> [Request -> Rows \cup {None}]]
      /\ \A q \in Request : cache'[s][q] = None
      /\ \A t \in Session \ {s} : cache'[t] = cache[t]
  BY <1>0, <1>t DEF TypeOK
<1>3. TypeOK'
  BY <1>0, <1>1, <1>2, <1>t DEF TypeOK
<1>4. ASSUME NEW q \in Request PROVE CommittedOK(q)'
  BY <1>0, CommittedStep DEF IInv
<1>5. ASSUME NEW q \in Request, NEW t \in Session \ {s} PROVE SessionOK(t, q)'
  BY <1>0, <1>1, <1>2, OthersStep DEF IInv
<1>6. ASSUME NEW q \in Request PROVE SessionOK(s, q)'
  <2>1. LockOK(s, q)' /\ AuditedOK(s, q)'
    BY <1>1, NoTxnFacts DEF LockOK, AuditedOK
  <2>2. LoadedOK(s, q)' /\ BackedOK(s, q)'
    BY <1>1, <1>2, NoTxnFacts DEF LoadedOK, BackedOK, Known
  <2> QED
    BY <2>1, <2>2 DEF SessionOK
<1> QED
  BY <1>3, <1>4, <1>5, <1>6 DEF IInv

\* The commit replaces a row by a version of the same document, and the row
\* of every other transaction stays as it was.
LEMMA CommitStep ==
    ASSUME IInv, NEW s \in Session, Commit(s)
    PROVE  IInv'
<1>t. TypeOK /\ None \notin Session
  BY NoneAssumption DEF IInv
<1>x. /\ txn[s] \in Txns /\ txn[s].applied \subseteq Request /\ txn[s].decided \subseteq DecisionRows
      /\ txn[s].audit \in [Request -> Actions \cup {None}]
      /\ cache[s] \in [Request -> Rows \cup {None}] /\ txn[s].due = None
  BY <1>t, TxnFacts DEF Commit, Ready
<1>0. /\ db' = [r \in Request |-> Visible(s, r)]
      /\ decisions' = Decided(s)
      /\ audit' = [r \in Request |-> IF txn[s].audit[r] # None THEN txn[s].audit[r] ELSE audit[r]]
      /\ applied' = applied \cup txn[s].applied
      /\ UNCHANGED cache /\ Release(s)
  BY DEF Commit, Decided
<1>1. /\ txn'[s] = NoTxn /\ \A t \in Session \ {s} : txn'[t] = txn[t]
      /\ txn' \in [Session -> Txns] /\ auditLock' \in Session \cup {None}
      /\ holder' \in [Request -> Session \cup {None}]
      /\ \A q \in Request : holder'[q] # s
      /\ \A q \in Request, t \in Session \ {s} : holder'[q] = t <=> holder[q] = t
  BY <1>0, ReleaseFacts
<1>s. \A t \in Session, q \in Request :
          LockOK(t, q) /\ AuditedOK(t, q) /\ LoadedOK(t, q) /\ BackedOK(t, q)
  BY DEF IInv, SessionOK
<1>2. ASSUME NEW q \in Request
      PROVE  /\ q \in txn[s].rows => db'[q] = cache[s][q] /\ cache[s][q] # None
             /\ q \notin txn[s].rows => db'[q] = db[q]
             /\ db[q] # None => db'[q] # None /\ SameDocument(db'[q], db[q])
  <2>1. LoadedOK(s, q) /\ AuditedOK(s, q)
    BY <1>s
  <2>2. db'[q] = IF q \in txn[s].rows THEN cache[s][q] ELSE db[q]
    BY <1>0 DEF Visible
  <2> QED
    BY <2>1, <2>2 DEF LoadedOK, AuditedOK, Known, SameDocument
<1>3. TypeOK'
  <2>1. db' \in [Request -> Rows \cup {None}]
    BY <1>0, <1>t, <1>x DEF TypeOK, Visible
  <2>2. audit' \in [Request -> Actions \cup {None}]
    BY <1>0, <1>t, <1>x DEF TypeOK
  <2>3. decisions' \subseteq DecisionRows /\ applied' \subseteq Request
    BY <1>0, <1>t, <1>x DEF TypeOK, Decided
  <2> QED
    BY <1>0, <1>1, <1>t, <2>1, <2>2, <2>3 DEF TypeOK
<1>d. decisions \subseteq decisions' /\ decisions' = Decided(s)
  BY <1>0 DEF Decided
<1>4. ASSUME NEW q \in Request PROVE CommittedOK(q)'
  <2>0. CommittedOK(q) /\ AuditedOK(s, q) /\ LoadedOK(s, q) /\ BackedOK(s, q)
    BY <1>s DEF IInv
  <2>a. audit'[q] = IF txn[s].audit[q] # None THEN txn[s].audit[q] ELSE audit[q]
    BY <1>0
  <2>1. db'[q] # None => audit'[q] # None /\ StatusOf(audit'[q]) = db'[q].status
    <3>1. CASE q \in txn[s].rows
      BY <1>2, <1>x, <2>0, <2>a, <3>1 DEF AuditedOK
    <3>2. CASE q \notin txn[s].rows
      BY <1>2, <2>0, <2>a, <3>2 DEF AuditedOK, CommittedOK
    <3> QED
      BY <3>1, <3>2
  <2>2. db'[q] # None /\ Granted(db'[q]) => Backed(q, db'[q], decisions')
    <3>1. CASE q \in txn[s].rows
      BY <1>2, <1>d, <2>0, <3>1 DEF BackedOK, Known
    <3>2. CASE q \notin txn[s].rows
      BY <1>2, <1>d, <2>0, <3>2, BackedStays DEF CommittedOK, SameDocument
    <3> QED
      BY <3>1, <3>2
  <2>3. q \in applied => db'[q] # None /\ Backed(q, db'[q], decisions')
    BY <1>2, <1>d, <2>0, BackedStays DEF CommittedOK
  <2>4. q \in txn[s].applied => db'[q] # None /\ Backed(q, db'[q], decisions')
    <3> SUFFICES ASSUME q \in txn[s].applied
                 PROVE  db'[q] # None /\ Backed(q, db'[q], decisions')
      OBVIOUS
    <3>1. Known(s, q) /\ Backed(q, cache[s][q], decisions')
      BY <1>d, <2>0 DEF BackedOK
    <3>2. db'[q] # None /\ SameDocument(db'[q], cache[s][q])
      BY <1>2, <2>0, <3>1 DEF LoadedOK, SameDocument
    <3> QED
      BY <3>1, <3>2, BackedStays
  <2> QED
    BY <1>0, <2>1, <2>2, <2>3, <2>4 DEF CommittedOK, Granted, Backed, RuleOf
<1>5. ASSUME NEW q \in Request, NEW t \in Session \ {s} PROVE SessionOK(t, q)'
  <2>0. LockOK(t, q) /\ LockOK(s, q) /\ AuditedOK(t, q) /\ LoadedOK(t, q) /\ BackedOK(t, q)
    BY <1>s
  <2>1. txn'[t] = txn[t] /\ cache'[t] = cache[t] /\ (holder'[q] = t <=> holder[q] = t)
    BY <1>0, <1>1
  <2>2. q \in txn[t].rows => db'[q] = db[q]
    BY <1>2, <2>0 DEF LockOK
  <2>3. LockOK(t, q)' /\ AuditedOK(t, q)'
    BY <2>0, <2>1 DEF LockOK, AuditedOK, Known
  <2>4. LoadedOK(t, q)'
    <3>1. q \in txn[t].rows => IsOpen(txn[t].base[q]) \/ db'[q] = None
      BY <2>0, <2>2 DEF LoadedOK
    <3>2. Known(t, q) => IF db'[q] = None THEN q \in txn[t].rows ELSE SameDocument(cache[t][q], db'[q])
      BY <1>2, <2>0, <2>2 DEF LoadedOK, SameDocument
    <3> QED
      BY <2>0, <2>1, <3>1, <3>2 DEF LoadedOK, Known
  <2>5. BackedOK(t, q)'
    <3>1. Decided(t) \subseteq Decided(t)' /\ SameDocument(cache[t][q], cache[t][q])
      BY <1>d, <2>1 DEF Decided, SameDocument
    <3> QED
      BY <2>0, <2>1, <3>1, BackedStays DEF BackedOK, Known, Granted
  <2> QED
    BY <2>3, <2>4, <2>5 DEF SessionOK
<1>6. ASSUME NEW q \in Request PROVE SessionOK(s, q)'
  <2>0. LoadedOK(s, q) /\ BackedOK(s, q)
    BY <1>s
  <2>1. LockOK(s, q)' /\ AuditedOK(s, q)'
    BY <1>1, NoTxnFacts DEF LockOK, AuditedOK
  <2>2. LoadedOK(s, q)'
    <3>1. Known(s, q) => db'[q] # None /\ SameDocument(cache[s][q], db'[q])
      BY <1>2, <2>0 DEF LoadedOK, SameDocument, Known
    <3> QED
      BY <1>0, <1>1, <3>1, NoTxnFacts DEF LoadedOK, Known
  <2>3. BackedOK(s, q)'
    <3>1. Decided(s)' = Decided(s) /\ cache'[s][q] = cache[s][q]
      BY <1>0, <1>1, NoTxnFacts DEF Decided
    <3> QED
      BY <1>1, <2>0, <3>1, NoTxnFacts DEF BackedOK, Known, Granted
  <2> QED
    BY <2>1, <2>2, <2>3 DEF SessionOK
<1> QED
  BY <1>3, <1>4, <1>5, <1>6 DEF IInv

-----------------------------------------------------------------------------
(* The invariant is inductive. *)

LEMMA InitStep ==
    ASSUME Init PROVE IInv
<1>1. TypeOK
  BY NoTxnFacts DEF Init, TypeOK
<1>2. ASSUME NEW r \in Request PROVE CommittedOK(r)
  BY DEF Init, CommittedOK
<1>3. ASSUME NEW r \in Request, NEW s \in Session PROVE SessionOK(s, r)
  <2>1. txn[s] = NoTxn /\ cache[s][r] = None /\ holder[r] = None /\ None \notin Session
    BY NoneAssumption DEF Init
  <2> QED
    BY <2>1, NoTxnFacts DEF SessionOK, LockOK, AuditedOK, LoadedOK, BackedOK, Known
<1> QED
  BY <1>1, <1>2, <1>3 DEF IInv

LEMMA StutterStep ==
    ASSUME IInv, UNCHANGED vars PROVE IInv'
<1>0. UNCHANGED <<db, decisions, audit, applied, holder, auditLock, cache, txn>>
  BY DEF vars
<1>1. TypeOK'
  BY <1>0 DEF IInv, TypeOK
<1>2. ASSUME NEW r \in Request PROVE CommittedOK(r)'
  BY <1>0, CommittedStep DEF IInv
<1>3. ASSUME NEW r \in Request, NEW s \in Session PROVE SessionOK(s, r)'
  BY <1>0, OthersStep DEF IInv
<1> QED
  BY <1>1, <1>2, <1>3 DEF IInv

LEMMA NextStep ==
    ASSUME IInv, [Next]_vars PROVE IInv'
<1>1. CASE UNCHANGED vars
  BY <1>1, StutterStep
<1>2. ASSUME NEW s \in Session, _create_audit_event(s) PROVE IInv'
  BY <1>2, AuditEventStep
<1>3. ASSUME NEW s \in Session, Commit(s) PROVE IInv'
  BY <1>3, CommitStep
<1>4. ASSUME NEW s \in Session, Rollback(s) PROVE IInv'
  BY <1>4, RollbackStep
<1>5. ASSUME NEW s \in Session, NEW e \in Entity, NEW amount \in Amount,
             RequestTransition(s, e, amount)
      PROVE  IInv'
  BY <1>5, RequestTransitionStep
<1>6. ASSUME NEW s \in Session, NEW r \in Request, ExpireNext(s, r) PROVE IInv'
  BY <1>6, ExpireNextStep
<1>7. ASSUME NEW s \in Session, NEW r \in Request, get_request(s, r) PROVE IInv'
  BY <1>7, GetRequestStep
<1>8. ASSUME NEW s \in Session, NEW r \in Request, cancel_request(s, r) PROVE IInv'
  BY <1>8, CancelStep
<1>9. ASSUME NEW s \in Session, NEW r \in Request, ApplyTransition(s, r) PROVE IInv'
  BY <1>9, ApplyTransitionStep
<1>10. ASSUME NEW s \in Session, NEW r \in Request, NEW a \in Actor,
              NEW d \in {"approve", "reject", "escalate"}, RecordDecision(s, r, a, d)
       PROVE  IInv'
  BY <1>10, RecordDecisionStep
<1>11. ASSUME NEW s \in Session, NEW cutoff \in 2 .. MaxRequests + 1,
              expire_stale_requests(s, cutoff)
       PROVE  IInv'
  BY <1>11, ExpireStaleStep
<1> QED
  BY <1>1, <1>2, <1>3, <1>4, <1>5, <1>6, <1>7, <1>8, <1>9, <1>10, <1>11 DEF Next

\* The invariant holds in every state the approval service can reach.
THEOREM Inductive == Spec => []IInv
<1>1. Init => IInv
  BY InitStep
<1>2. IInv /\ [Next]_vars => IInv'
  BY NextStep
<1> QED
  BY <1>1, <1>2, PTL DEF Spec

-----------------------------------------------------------------------------
(* What the approval service keeps. *)

\* Every row, audit event, lock, identity map and open transaction of the
\* approval service has its type in every reachable state.
THEOREM TypeCorrect == Spec => []TypeOK
<1>1. IInv => TypeOK
  BY DEF IInv
<1> QED
  BY <1>1, Inductive, PTL

\* However many sessions decide, cancel and expire a request at once, the last
\* audit event that ApprovalService committed on it tells the status its row
\* has: status and audit event are written under the row lock and committed
\* together.
THEOREM AuditTellsStatusHolds == Spec => []AuditTellsStatus
<1>1. IInv => AuditTellsStatus
  BY DEF IInv, CommittedOK, AuditTellsStatus
<1> QED
  BY <1>1, Inductive, PTL

\* Whatever transition execute_transition applied on the strength of a request,
\* an actor of a role that the rule for its amount names has approved it, or
\* its amount is below the rule's threshold, also when another session has
\* overwritten the status since.
THEOREM AppliedWasApprovedHolds == Spec => []AppliedWasApproved
<1>1. IInv => AppliedWasApproved
  <2> SUFFICES ASSUME IInv, NEW r \in applied PROVE Backed(r, db[r], decisions)
    BY DEF AppliedWasApproved, Backed, RuleOf
  <2>1. r \in Request
    BY DEF IInv, TypeOK
  <2> QED
    BY <2>1 DEF IInv, CommittedOK
<1> QED
  BY <1>1, Inductive, PTL

\* A commit is the only step that changes a committed request, and it changes
\* a resolved one only when its session had loaded the row while it was open:
\* record_decision, cancel_request and expire_stale_requests all check the
\* status they loaded.
THEOREM ResolvedUnlessStaleHolds == Spec => ResolvedUnlessStale
<1> DEFINE A == \A r \in Request :
               Resolved(db[r]) /\ db'[r] # db[r] =>
                  \E s \in Session : r \in txn[s].rows /\ IsOpen(txn[s].base[r])
<1>1. ASSUME NEW s \in Session, IInv, Commit(s) PROVE A
  <2> SUFFICES ASSUME NEW r \in Request, db[r] # None, db'[r] # db[r]
               PROVE  r \in txn[s].rows /\ IsOpen(txn[s].base[r])
    BY DEF Resolved
  <2>1. r \in txn[s].rows
    BY <1>1 DEF Commit, Visible
  <2>2. LoadedOK(s, r)
    BY <1>1 DEF IInv, SessionOK
  <2> QED
    BY <2>1, <2>2 DEF LoadedOK
<1>2. ASSUME Next, ~\E s \in Session : Commit(s) PROVE UNCHANGED db
  <2>1. ASSUME NEW s \in Session, _create_audit_event(s) \/ Rollback(s) PROVE UNCHANGED db
    BY <2>1 DEF _create_audit_event, Rollback
  <2>2. ASSUME NEW s \in Session, NEW e \in Entity, NEW amount \in Amount,
               RequestTransition(s, e, amount)
        PROVE  UNCHANGED db
    BY <2>2 DEF RequestTransition, create_request, Flush
  <2>3. ASSUME NEW s \in Session, NEW r \in Request,
               ExpireNext(s, r) \/ get_request(s, r) \/ cancel_request(s, r) \/ ApplyTransition(s, r)
        PROVE  UNCHANGED db
    BY <2>3 DEF ExpireNext, get_request, cancel_request, Flush, ApplyTransition
  <2>4. ASSUME NEW s \in Session, NEW r \in Request, NEW a \in Actor,
               NEW d \in {"approve", "reject", "escalate"}, RecordDecision(s, r, a, d)
        PROVE  UNCHANGED db
    BY <2>4 DEF RecordDecision, Flush
  <2>5. ASSUME NEW s \in Session, NEW cutoff \in 2 .. MaxRequests + 1,
               expire_stale_requests(s, cutoff)
        PROVE  UNCHANGED db
    BY <2>5 DEF expire_stale_requests
  <2> QED
    BY <1>2, <2>1, <2>2, <2>3, <2>4, <2>5 DEF Next
<1>3. IInv /\ [Next]_vars => [A]_vars
  BY <1>1, <1>2 DEF vars
<1> HIDE DEF A
<1>4. Spec => [][A]_vars
  BY <1>3, Inductive, PTL DEF Spec
<1> QED
  BY <1>4 DEF ResolvedUnlessStale, A
=============================================================================
