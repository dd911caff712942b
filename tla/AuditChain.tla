----------------------------- MODULE AuditChain -----------------------------
(***************************************************************************)
(* SequenceService.next_value and AuditorService._create_audit_event, run  *)
(* by concurrent database sessions, one step per SQL statement.            *)
(*                                                                         *)
(* The database runs at READ COMMITTED: a statement sees the committed     *)
(* rows and the rows its own transaction wrote.  The counter row of the    *)
(* audit sequence is read with SELECT ... FOR UPDATE, so its lock is held  *)
(* until the transaction ends or until a savepoint taken before the lock   *)
(* is rolled back (BatchExecutor and PromotionService run each item in     *)
(* such a savepoint).                                                      *)
(***************************************************************************)
EXTENDS Naturals

CONSTANTS
    Session,        \* database sessions (one SQLAlchemy Session each)
    Content,        \* what a row records: (entity_type, entity_id, action, payload)
    NoSession,      \* the value of owner when nobody holds the counter row
    MaxSeq          \* bound: the counter does not go past this value

ASSUME SessionAssumption == NoSession \notin Session
ASSUME MaxSeqAssumption == MaxSeq \in Nat

VARIABLES
    created,        \* the counter row is committed in sequence_counters
    counter,        \* its committed current_value (0 while it is absent)
    owner,          \* the transaction that locked or inserted the counter row
    log,            \* committed audit_events rows
    val,            \* val[s]: current_value as the transaction of s last flushed
                    \*         it, which is what next_value returned to s
    pend,           \* pend[s]: audit rows flushed by s and not committed
    sp,             \* sp[s]: "none", or the savepoint of s, taken while s did
                    \*        not ("free") or did ("held") own the counter row
    savedVal,       \* savedVal[s]: val[s] at the savepoint
    savedPend,      \* savedPend[s]: pend[s] at the savepoint
    pc,             \* pc[s]: next statement of _create_audit_event
    prev            \* prev[s]: the hash _get_last_hash returned

dbVars   == <<created, counter, owner, log>>
spVars   == <<sp, savedVal, savedPend>>
vars == <<dbVars, val, pend, spVars, pc, prev>>

-----------------------------------------------------------------------------
(* Hashes.  hash_audit_event is SHA-256; it is modelled as collision-free. *)

Genesis == <<>>                       \* prev_hash = None
HashAuditEvent(content, prevHash) == <<content, prevHash>>

Row(n, content, prevHash) ==
    [seq |-> n, content |-> content, prev |-> prevHash,
     hash |-> HashAuditEvent(content, prevHash)]

\* What a SELECT on audit_events returns to s.
View(s) == log \cup pend[s]

\* _get_last_hash: ORDER BY seq DESC LIMIT 1.
IsLast(r, rows) == r \in rows /\ \A q \in rows : q.seq <= r.seq
LastHash(rows) ==
    IF rows = {} THEN Genesis ELSE (CHOOSE r \in rows : IsLast(r, rows)).hash

-----------------------------------------------------------------------------
\* A fresh database; initialize_sequences may have created the counter row.
Init ==
    /\ created \in BOOLEAN
    /\ counter = 0
    /\ owner = NoSession
    /\ log = {}
    /\ val = [s \in Session |-> 0]
    /\ pend = [s \in Session |-> {}]
    /\ sp = [s \in Session |-> "none"]
    /\ savedVal = [s \in Session |-> 0]
    /\ savedPend = [s \in Session |-> {}]
    /\ pc = [s \in Session |-> "idle"]
    /\ prev = [s \in Session |-> Genesis]

\* A service calls record_...(): _create_audit_event starts.
RecordEvent(s) ==
    /\ pc[s] = "idle"
    /\ pc' = [pc EXCEPT ![s] = "lock"]
    /\ UNCHANGED <<dbVars, val, pend, spVars, prev>>

\* Mutant of LockCounter: a plain SELECT, without FOR UPDATE.
LockCounterUnlocked(s) ==
    /\ pc[s] = "lock"
    /\ created \/ owner = s
    /\ owner' = s
    /\ val' = IF owner = s THEN val ELSE [val EXCEPT ![s] = counter]
    /\ pc' = [pc EXCEPT ![s] = "increment"]
    /\ UNCHANGED <<created, counter, log, pend, spVars, prev>>

\* SELECT ... FOR UPDATE finds the row: it waits until no other transaction
\* holds it, then reads the newest value (populate_existing).
LockCounter(s) ==
    /\ pc[s] = "lock"
    /\ created \/ owner = s
    /\ owner \in {NoSession, s}
    /\ owner' = s
    /\ val' = IF owner = s THEN val ELSE [val EXCEPT ![s] = counter]
    /\ pc' = [pc EXCEPT ![s] = "increment"]
    /\ UNCHANGED <<created, counter, log, pend, spVars, prev>>

\* SELECT ... FOR UPDATE finds no row: an uncommitted insert of another
\* transaction is invisible to it.
CounterAbsent(s) ==
    /\ pc[s] = "lock"
    /\ ~created /\ owner # s
    /\ pc' = [pc EXCEPT ![s] = "create"]
    /\ UNCHANGED <<dbVars, val, pend, spVars, prev>>

\* First use: INSERT of the row with value 1 inside begin_nested().  The
\* unique index makes it wait for a concurrent insert of the same name.
CreateCounter(s) ==
    /\ pc[s] = "create"
    /\ ~created /\ owner = NoSession
    /\ owner' = s
    /\ val' = [val EXCEPT ![s] = 1]
    /\ pc' = [pc EXCEPT ![s] = "read"]
    /\ UNCHANGED <<created, counter, log, pend, spVars, prev>>

\* Mutant of CreateConflict: the first value is used although another
\* transaction has created the row.
CreateConflictKeepsOne(s) ==
    /\ pc[s] = "create"
    /\ created
    /\ val' = [val EXCEPT ![s] = 1]
    /\ pc' = [pc EXCEPT ![s] = "read"]
    /\ UNCHANGED <<dbVars, pend, spVars, prev>>

\* The row was committed meanwhile: IntegrityError, the inner savepoint is
\* rolled back and the SELECT ... FOR UPDATE is issued again.
CreateConflict(s) ==
    /\ pc[s] = "create"
    /\ created
    /\ pc' = [pc EXCEPT ![s] = "lock"]
    /\ UNCHANGED <<dbVars, val, pend, spVars, prev>>

\* counter.current_value += 1, flushed; the value is returned.
Increment(s) ==
    /\ pc[s] = "increment"
    /\ val[s] < MaxSeq
    /\ val' = [val EXCEPT ![s] = val[s] + 1]
    /\ pc' = [pc EXCEPT ![s] = "read"]
    /\ UNCHANGED <<dbVars, pend, spVars, prev>>

\* Mutant of GetLastHash: only committed rows are looked at, as if the flush
\* of the previous row were missing.
GetLastHashCommitted(s) ==
    /\ pc[s] = "read"
    /\ prev' = [prev EXCEPT ![s] = LastHash(log)]
    /\ pc' = [pc EXCEPT ![s] = "insert"]
    /\ UNCHANGED <<dbVars, val, pend, spVars>>

\* prev_hash = self._get_last_hash()
GetLastHash(s) ==
    /\ pc[s] = "read"
    /\ prev' = [prev EXCEPT ![s] = LastHash(View(s))]
    /\ pc' = [pc EXCEPT ![s] = "insert"]
    /\ UNCHANGED <<dbVars, val, pend, spVars>>

\* The audit row is added and flushed; the call returns.
InsertRow(s, c) ==
    /\ pc[s] = "insert"
    /\ pend' = [pend EXCEPT ![s] = @ \cup {Row(val[s], c, prev[s])}]
    /\ pc' = [pc EXCEPT ![s] = "idle"]
    /\ prev' = [prev EXCEPT ![s] = Genesis]
    /\ UNCHANGED <<dbVars, val, spVars>>

\* session.begin_nested() around one item of a batch or of a promotion.
BeginSavepoint(s) ==
    /\ pc[s] = "idle" /\ sp[s] = "none"
    /\ sp' = [sp EXCEPT ![s] = IF owner = s THEN "held" ELSE "free"]
    /\ savedVal' = [savedVal EXCEPT ![s] = val[s]]
    /\ savedPend' = [savedPend EXCEPT ![s] = pend[s]]
    /\ UNCHANGED <<dbVars, val, pend, pc, prev>>

\* savepoint.commit(): the item's work joins the outer transaction.
ReleaseSavepoint(s) ==
    /\ pc[s] = "idle" /\ sp[s] # "none"
    /\ sp' = [sp EXCEPT ![s] = "none"]
    /\ savedVal' = [savedVal EXCEPT ![s] = 0]
    /\ savedPend' = [savedPend EXCEPT ![s] = {}]
    /\ UNCHANGED <<dbVars, val, pend, pc, prev>>

\* savepoint.rollback(), from the item's exception handler: the counter
\* update and the rows written since the savepoint are undone, and a lock
\* taken since then is released.
RollbackSavepoint(s) ==
    /\ sp[s] # "none"
    /\ owner' = IF owner = s /\ sp[s] = "free" THEN NoSession ELSE owner
    /\ val' = [val EXCEPT ![s] = savedVal[s]]
    /\ pend' = [pend EXCEPT ![s] = savedPend[s]]
    /\ sp' = [sp EXCEPT ![s] = "none"]
    /\ savedVal' = [savedVal EXCEPT ![s] = 0]
    /\ savedPend' = [savedPend EXCEPT ![s] = {}]
    /\ pc' = [pc EXCEPT ![s] = "idle"]
    /\ prev' = [prev EXCEPT ![s] = Genesis]
    /\ UNCHANGED <<created, counter, log>>

\* session.commit() by the caller.
Commit(s) ==
    /\ pc[s] = "idle" /\ sp[s] = "none" /\ owner = s
    /\ created' = TRUE
    /\ counter' = val[s]
    /\ log' = View(s)
    /\ owner' = NoSession
    /\ pend' = [pend EXCEPT ![s] = {}]
    /\ val' = [val EXCEPT ![s] = 0]
    /\ UNCHANGED <<spVars, pc, prev>>

\* Mutant of Rollback: the savepoint outlives the transaction.
RollbackKeepsSavepoint(s) ==
    /\ pc[s] # "idle" \/ owner = s
    /\ owner' = IF owner = s THEN NoSession ELSE owner
    /\ pend' = [pend EXCEPT ![s] = {}]
    /\ pc' = [pc EXCEPT ![s] = "idle"]
    /\ prev' = [prev EXCEPT ![s] = Genesis]
    /\ val' = [val EXCEPT ![s] = 0]
    /\ UNCHANGED <<created, counter, log, spVars>>

\* session.rollback(), or the connection is lost: the whole transaction is
\* undone, whatever statement it had reached.
Rollback(s) ==
    /\ pc[s] # "idle" \/ owner = s
    /\ owner' = IF owner = s THEN NoSession ELSE owner
    /\ pend' = [pend EXCEPT ![s] = {}]
    /\ sp' = [sp EXCEPT ![s] = "none"]
    /\ savedVal' = [savedVal EXCEPT ![s] = 0]
    /\ savedPend' = [savedPend EXCEPT ![s] = {}]
    /\ pc' = [pc EXCEPT ![s] = "idle"]
    /\ prev' = [prev EXCEPT ![s] = Genesis]
    /\ val' = [val EXCEPT ![s] = 0]
    /\ UNCHANGED <<created, counter, log>>

Step(s) ==
    \/ RecordEvent(s) \/ LockCounter(s) \/ CounterAbsent(s)
    \/ CreateCounter(s) \/ CreateConflict(s)
    \/ Increment(s) \/ GetLastHash(s)
    \/ \E c \in Content : InsertRow(s, c)
    \/ BeginSavepoint(s) \/ ReleaseSavepoint(s) \/ RollbackSavepoint(s)
    \/ Commit(s) \/ Rollback(s)

Next == \E s \in Session : Step(s)

Spec == Init /\ [][Next]_vars
-----------------------------------------------------------------------------
\* AuditorService.validate_chain over rows: the first row links to nothing,
\* every other row to the row before it, and every hash recomputes.
ValidateChain(rows) ==
    \A r \in rows :
        /\ r.hash = HashAuditEvent(r.content, r.prev)
        /\ r.prev = LastHash({q \in rows : q.seq < r.seq})

(* Properties *)

Steps == {"idle", "lock", "create", "increment", "read", "insert"}

IsRow(r) == r.seq \in Nat /\ r.content \in Content

\* The type invariant.
TypeOK ==
    /\ created \in BOOLEAN
    /\ counter \in Nat
    /\ owner \in Session \cup {NoSession}
    /\ \A r \in log : IsRow(r)
    /\ val \in [Session -> Nat]
    /\ DOMAIN pend = Session /\ \A s \in Session : \A r \in pend[s] : IsRow(r)
    /\ sp \in [Session -> {"none", "free", "held"}]
    /\ savedVal \in [Session -> Nat]
    /\ DOMAIN savedPend = Session
    /\ \A s \in Session : savedPend[s] \subseteq pend[s]
    /\ pc \in [Session -> Steps]
    /\ DOMAIN prev = Session

\* R11: whenever any session runs validate_chain, inside its own transaction
\* or outside of any, on the rows it can see, the chain is intact: no
\* interleaving of allocations, commits, rollbacks and savepoint rollbacks
\* makes two rows claim the same predecessor.
ChainValid == \A s \in Session : ValidateChain(View(s))

\* R9, strict monotonicity: the committed rows are numbered up to the counter,
\* every row that a transaction adds to them is numbered past it, and no two
\* rows visible to one session share a number, so a committed number is never
\* allocated again and the unique index on audit_events.seq never fires.  The
\* number of a rolled back row is allocated again ("Rollback returns the
\* value", sequence_service.py:21, against finance_kernel/README.md:253):
\* ImplementsAuditLog shows that no gap is left.
SeqMonotonic ==
    /\ \A r \in log : r.seq \in 1 .. counter
    /\ \A s \in Session :
         /\ \A r \in View(s) \ log : r.seq > counter
         /\ \A r, q \in View(s) : r.seq = q.seq => r = q

\* The audit trail as its readers see it.
Published == [n \in 1 .. counter |-> (CHOOSE r \in log : r.seq = n).content]

Abstract == INSTANCE AuditLog WITH chain <- Published

\* R1: the rows implement an append-only log; each commit publishes the rows
\* of one transaction behind all earlier ones.
ImplementsAuditLog == Abstract!Spec
=============================================================================
