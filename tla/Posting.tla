------------------------------ MODULE Posting ------------------------------
(***************************************************************************)
(* The posting pipeline run by concurrent database sessions: a business    *)
(* event through ModulePostingService, IngestorService, JournalWriter and  *)
(* OutcomeRecorder; a reversal through ReversalService; the close of a     *)
(* fiscal period by PeriodService.                                         *)
(*                                                                         *)
(* One step is one SQL statement that another session can observe or that  *)
(* can wait.  READ COMMITTED: a statement sees the committed rows and its  *)
(* transaction's own.  The audit and journal counter rows, the row of an   *)
(* entry under reversal, the row of a period being closed and an event_id  *)
(* inserted but not committed stay locked until the transaction ends.      *)
(***************************************************************************)
EXTENDS Naturals

CONSTANTS
    Session,            \* database sessions
    Event,              \* event_id values
    Payload,            \* payloads, as payload_hash tells them apart
    Ledger,             \* the ledgers of an AccountingIntent
    Period,             \* fiscal periods
    None,
    MaxReversible       \* bound: entries up to this number may be reversed

ASSUME NoneAssumption == None \notin Session \cup Event
ASSUME MaxReversibleAssumption == MaxReversible \in Nat

VARIABLES
    status,     \* committed FiscalPeriod.status
    events,     \* committed events rows
    journal,    \* committed journal_entries rows, all POSTED
    outcomes,   \* committed interpretation_outcomes rows
    jcount,     \* committed value of the journal_entry counter
    holder,     \* holder[r]: the session whose transaction locks resource r
    pc,         \* pc[s]: what the call running in s does next
    req,        \* req[s]: the arguments of that call
    tx,         \* tx[s]: the rows the transaction of s has flushed
    jval,       \* jval[s]: the journal counter as the transaction of s wrote it
    acked,      \* posts a caller was told are POSTED or ALREADY_POSTED
    auto        \* ModulePostingService(auto_commit = ...) of this deployment

db   == <<status, events, journal, outcomes, jcount, acked>>
vars == <<db, holder, pc, req, tx, jval, auto>>

-----------------------------------------------------------------------------
Audit    == <<"audit", 0>>            \* counter row audit_event
Journal  == <<"journal", 0>>          \* counter row journal_entry
EventId(e)  == <<"event", e>>         \* unique index uq_event_id
EntryRow(n) == <<"entry", n>>
PeriodRow(p) == <<"period", p>>

Resource ==
    {Audit, Journal} \cup {EventId(e) : e \in Event}
      \cup {EntryRow(n) : n \in 1 .. MaxReversible}
      \cup {PeriodRow(p) : p \in Period}

Free(s, r) == holder[r] \in {None, s}
Lock(s, r) == holder' = [holder EXCEPT ![r] = s]

Entry(n, e, l, p, of) ==
    [seq |-> n, event |-> e, ledger |-> l, period |-> p, of |-> of]

NoRows == [events |-> {}, entries |-> {}, outcomes |-> {}, closed |-> {}]

\* What SELECT returns to s.
Events(s)   == events \cup tx[s].events
Entries(s)  == journal \cup tx[s].entries
Outcomes(s) == outcomes \cup tx[s].outcomes
IsOpen(s, p) == status[p] = "OPEN" /\ p \notin tx[s].closed

Idle == [op |-> "none", event |-> None, payload |-> None, period |-> None, of |-> 0]
Post(e, d, p) ==
    [op |-> "post", event |-> e, payload |-> d, period |-> p, of |-> 0]
Reversal(n, p) ==
    [op |-> "reverse", event |-> None, payload |-> None, period |-> p, of |-> n]
Close(p) ==
    [op |-> "close", event |-> None, payload |-> None, period |-> p, of |-> 0]

Goto(s, label) == pc' = [pc EXCEPT ![s] = label]

Call(s, r, label) ==
    /\ pc[s] = "idle"
    /\ req' = [req EXCEPT ![s] = r]
    /\ Goto(s, label)
    /\ UNCHANGED <<db, holder, tx, jval>>

\* The transaction of s is undone and its locks are released.
Discard(s) ==
    /\ tx' = [tx EXCEPT ![s] = NoRows]
    /\ jval' = [jval EXCEPT ![s] = 0]
    /\ holder' = [r \in Resource |-> IF holder[r] = s THEN None ELSE holder[r]]

Return(s) ==
    /\ Goto(s, "idle")
    /\ req' = [req EXCEPT ![s] = Idle]

-----------------------------------------------------------------------------
Init ==
    /\ status = [p \in Period |-> "OPEN"]
    /\ events = {}
    /\ journal = {}
    /\ outcomes = {}
    /\ jcount = 0
    /\ holder = [r \in Resource |-> None]
    /\ pc = [s \in Session |-> "idle"]
    /\ req = [s \in Session |-> Idle]
    /\ tx = [s \in Session |-> NoRows]
    /\ jval = [s \in Session |-> 0]
    /\ acked = {}
    /\ auto \in BOOLEAN

(* ModulePostingService.post_event *)

PostEvent(s, e, d, p) == Call(s, Post(e, d, p), "period")

\* The actor may transact and the period of effective_date is open: a plain
\* SELECT, nothing is locked.
PeriodOpen(s) ==
    /\ pc[s] = "period"
    /\ IsOpen(s, req[s].period)
    /\ Goto(s, "ingest")
    /\ UNCHANGED <<db, holder, req, tx, jval>>

\* Actor unknown or frozen, period closed, adjustments not allowed.
PostRefused(s) ==
    /\ pc[s] = "period"
    /\ Goto(s, "failed")
    /\ UNCHANGED <<db, holder, req, tx, jval>>

(* IngestorService.ingest *)

\* Boundary validation fails.
IngestInvalid(s) ==
    /\ pc[s] = "ingest"
    /\ Goto(s, "audit_rejected")
    /\ UNCHANGED <<db, holder, req, tx, jval>>

\* The event is there with another payload hash.
IngestMismatch(s) ==
    /\ pc[s] = "ingest"
    /\ \E v \in Events(s) : v.id = req[s].event /\ v.payload # req[s].payload
    /\ Goto(s, "audit_rejected")
    /\ UNCHANGED <<db, holder, req, tx, jval>>

\* The event is there with the same payload hash: ALREADY_POSTED.
IngestDuplicate(s) ==
    /\ pc[s] = "ingest"
    /\ \E v \in Events(s) : v.id = req[s].event /\ v.payload = req[s].payload
    /\ Goto(s, "ok")
    /\ UNCHANGED <<db, holder, req, tx, jval>>

IngestNew(s) ==
    /\ pc[s] = "ingest"
    /\ \A v \in Events(s) : v.id # req[s].event
    /\ Goto(s, "insert")
    /\ UNCHANGED <<db, holder, req, tx, jval>>

\* INSERT of the event; it waits for an uncommitted insert of the same id.
InsertEvent(s) ==
    /\ pc[s] = "insert"
    /\ Free(s, EventId(req[s].event))
    /\ \A v \in events : v.id # req[s].event
    /\ Lock(s, EventId(req[s].event))
    /\ tx' = [tx EXCEPT ![s].events =
                @ \cup {[id |-> req[s].event, payload |-> req[s].payload]}]
    /\ Goto(s, "audit_ingested")
    /\ UNCHANGED <<db, req, jval>>

\* Mutant of InsertConflict: it does not wait for the other transaction.
InsertConflictNoWait(s) ==
    /\ pc[s] = "insert"
    /\ ~Free(s, EventId(req[s].event)) \/ \E v \in events : v.id = req[s].event
    /\ Discard(s)
    /\ Goto(s, "ok")
    /\ UNCHANGED <<db, req>>

\* The other insert was committed: IntegrityError, session.rollback(), and
\* the event found afterwards is a DUPLICATE, whatever its payload.
InsertConflict(s) ==
    /\ pc[s] = "insert"
    /\ Free(s, EventId(req[s].event))
    /\ \E v \in events : v.id = req[s].event
    /\ Discard(s)
    /\ Goto(s, "ok")
    /\ UNCHANGED <<db, req>>

\* record_event_ingested: the audit counter row is locked from here on.
AuditIngested(s) ==
    /\ pc[s] = "audit_ingested"
    /\ Free(s, Audit)
    /\ Lock(s, Audit)
    /\ Goto(s, "interpret")
    /\ UNCHANGED <<db, req, tx, jval>>

\* record_event_rejected, then INGESTION_FAILED.
AuditRejected(s) ==
    /\ pc[s] = "audit_rejected"
    /\ Free(s, Audit)
    /\ Lock(s, Audit)
    /\ Goto(s, "failed")
    /\ UNCHANGED <<db, req, tx, jval>>

(* Interpretation and journal *)

\* Import gate, controls, profile, guards, meaning, intent or engine dispatch
\* fail: no outcome is recorded.
InterpretFails(s) ==
    /\ pc[s] = "interpret"
    /\ Goto(s, "failed")
    /\ UNCHANGED <<db, holder, req, tx, jval>>

\* JournalWriter.write refuses the intent before it writes any entry: the
\* outcome is BLOCKED (an account role does not resolve) or REJECTED.
WriteFails(s, o) ==
    /\ pc[s] = "interpret"
    /\ tx' = [tx EXCEPT ![s].outcomes = @ \cup {[event |-> req[s].event, status |-> o]}]
    /\ Goto(s, "failed")
    /\ UNCHANGED <<db, holder, req, jval>>

Interpreted(s) ==
    /\ pc[s] = "interpret"
    /\ Goto(s, "write")
    /\ UNCHANGED <<db, holder, req, tx, jval>>

Counter(s) == IF holder[Journal] = s THEN jval[s] ELSE jcount

\* Mutant of AddEntry: the counter row is read without FOR UPDATE.
AddEntryUnlocked(s, e, l, p, of) ==
    /\ Lock(s, Journal)
    /\ jval' = [jval EXCEPT ![s] = Counter(s) + 1]
    /\ tx' = [tx EXCEPT ![s].entries = @ \cup {Entry(Counter(s) + 1, e, l, p, of)}]

\* _finalize_posting: next_value locks the journal counter row.
AddEntry(s, e, l, p, of) ==
    /\ Free(s, Journal)
    /\ Lock(s, Journal)
    /\ jval' = [jval EXCEPT ![s] = Counter(s) + 1]
    /\ tx' = [tx EXCEPT ![s].entries = @ \cup {Entry(Counter(s) + 1, e, l, p, of)}]

Written(s) == {l \in Ledger : \E r \in tx[s].entries :
                    r.event = req[s].event /\ r.ledger = l}

\* Mutant of WriteEntry: the loop over the ledgers stops after the first.
WriteEntryFirstLedger(s, l) ==
    /\ pc[s] = "write"
    /\ l \notin Written(s)
    /\ AddEntry(s, req[s].event, l, req[s].period, 0)
    /\ Goto(s, "outcome")
    /\ UNCHANGED <<db, req>>

\* _create_entry for one ledger of the intent.
WriteEntry(s, l) ==
    /\ pc[s] = "write"
    /\ l \notin Written(s)
    /\ AddEntry(s, req[s].event, l, req[s].period, 0)
    /\ Goto(s, IF Ledger = Written(s) \cup {l} THEN "outcome" ELSE "write")
    /\ UNCHANGED <<db, req>>

\* record_posted and the subledger entries; the result is POSTED.
RecordPosted(s) ==
    /\ pc[s] = "outcome"
    /\ \A o \in Outcomes(s) : o.event # req[s].event
    /\ tx' = [tx EXCEPT ![s].outcomes =
                @ \cup {[event |-> req[s].event, status |-> "POSTED"]}]
    /\ Goto(s, "ok")
    /\ UNCHANGED <<db, holder, req, jval>>

(* ReversalService *)

Reverse(s, n, p) == Call(s, Reversal(n, p), "rev_lock")

\* Mutant of LockOriginal: a plain SELECT.
LockOriginalUnlocked(s) ==
    /\ pc[s] = "rev_lock"
    /\ \E r \in Entries(s) : r.seq = req[s].of
    /\ Goto(s, IF \E r \in Entries(s) : r.of = req[s].of
               THEN "raise" ELSE "rev_period")
    /\ UNCHANGED <<db, holder, req, tx, jval>>

\* _load_and_validate: SELECT ... FOR UPDATE of the original, and no entry
\* with reversal_of_id = the original.
LockOriginal(s) ==
    /\ pc[s] = "rev_lock"
    /\ \E r \in Entries(s) : r.seq = req[s].of
    /\ Free(s, EntryRow(req[s].of))
    /\ Lock(s, EntryRow(req[s].of))
    /\ Goto(s, IF \E r \in Entries(s) : r.of = req[s].of
               THEN "raise" ELSE "rev_period")
    /\ UNCHANGED <<db, req, tx, jval>>

\* EntryNotPostedError.
OriginalMissing(s) ==
    /\ pc[s] = "rev_lock"
    /\ \A r \in Entries(s) : r.seq # req[s].of
    /\ Goto(s, "raise")
    /\ UNCHANGED <<db, holder, req, tx, jval>>

\* validate_effective_date of the target period.
CheckReversalPeriod(s) ==
    /\ pc[s] = "rev_period"
    /\ Goto(s, IF IsOpen(s, req[s].period) THEN "rev_write" ELSE "raise")
    /\ UNCHANGED <<db, holder, req, tx, jval>>

\* The reversal event (a fresh UUID), write_reversal and the REVERSED_BY link.
WriteReversal(s) ==
    /\ pc[s] = "rev_write"
    /\ \E r \in Entries(s) :
        /\ r.seq = req[s].of
        /\ AddEntry(s, None, r.ledger, req[s].period, r.seq)
    /\ Goto(s, "rev_audit")
    /\ UNCHANGED <<db, req>>

\* record_reversal: the audit counter row after the journal counter row.
AuditReversal(s) ==
    /\ pc[s] = "rev_audit"
    /\ Free(s, Audit)
    /\ Lock(s, Audit)
    /\ Goto(s, "ok")
    /\ UNCHANGED <<db, req, tx, jval>>

(* PeriodService.close_period *)

ClosePeriod(s, p) == Call(s, Close(p), "close")

\* SELECT ... FOR UPDATE of the period row, then the update.
CloseRow(s) ==
    /\ pc[s] = "close"
    /\ Free(s, PeriodRow(req[s].period))
    /\ Lock(s, PeriodRow(req[s].period))
    /\ \/ /\ IsOpen(s, req[s].period)
          /\ tx' = [tx EXCEPT ![s].closed = @ \cup {req[s].period}]
          /\ Goto(s, "ok")
       \/ /\ ~IsOpen(s, req[s].period)
          /\ Goto(s, "raise")
          /\ UNCHANGED tx
    /\ UNCHANGED <<db, req, jval>>

-----------------------------------------------------------------------------
(* The end of a call *)

\* session.commit(), and the caller gets a success.
Commit(s) ==
    /\ pc[s] = "ok"
    /\ status' = [p \in Period |-> IF p \in tx[s].closed THEN "CLOSED" ELSE status[p]]
    /\ events' = Events(s)
    /\ journal' = Entries(s)
    /\ outcomes' = Outcomes(s)
    /\ jcount' = Counter(s)
    /\ acked' = IF req[s].op = "post"
                THEN acked \cup {[event |-> req[s].event, payload |-> req[s].payload]}
                ELSE acked
    /\ Discard(s)
    /\ Return(s)

\* Mutant of ReturnFailure: no rollback.
ReturnFailureKeepsRows(s) ==
    /\ ~auto
    /\ pc[s] = "failed"
    /\ Return(s)
    /\ UNCHANGED <<db, holder, tx, jval>>

\* A result that is not a success: commit_or_rollback rolls back.
ReturnFailure(s) ==
    /\ ~auto
    /\ pc[s] = "failed"
    /\ Discard(s)
    /\ Return(s)
    /\ UNCHANGED db

\* The same with auto_commit: post_event returns inside the transaction.
ReturnUncommitted(s) ==
    /\ auto
    /\ pc[s] = "failed"
    /\ Return(s)
    /\ UNCHANGED <<db, holder, tx, jval>>

\* Mutant of RaiseError: the handler does not roll back.
RaiseErrorKeepsLocks(s) ==
    /\ pc[s] = "raise"
    /\ Return(s)
    /\ UNCHANGED <<db, holder, tx, jval>>

\* The call has raised: its exception handler rolls back.
RaiseError(s) ==
    /\ pc[s] = "raise"
    /\ Discard(s)
    /\ Return(s)
    /\ UNCHANGED db

InTransaction(s) == tx[s] # NoRows \/ \E r \in Resource : holder[r] = s

\* Any statement fails, the process dies, or a session that was left inside
\* its transaction is closed.
Abort(s) ==
    /\ pc[s] # "idle" \/ InTransaction(s)
    /\ Discard(s)
    /\ Return(s)
    /\ UNCHANGED db

\* The resource the next statement of s needs.
Wants(s) ==
    CASE pc[s] = "insert" -> {EventId(req[s].event)}
      [] pc[s] \in {"audit_ingested", "audit_rejected", "rev_audit"} -> {Audit}
      [] pc[s] \in {"write", "rev_write"} -> {Journal}
      [] pc[s] = "rev_lock" -> {EntryRow(req[s].of)}
      [] pc[s] = "close" -> {PeriodRow(req[s].period)}
      [] OTHER -> {}

Blockers(s) == {holder[r] : r \in Wants(s)} \ {None, s}

\* The sessions of C wait for each other in a ring.
Deadlocked(C) ==
    /\ C # {}
    /\ \A s \in C : Blockers(s) \cap C # {}
    /\ \A s \in C : \E t \in C : s \in Blockers(t)

\* PostgreSQL's deadlock detector fails the statement of one session of a ring.
DeadlockAbort(s) ==
    /\ \E C \in SUBSET Session : s \in C /\ Deadlocked(C)
    /\ Discard(s)
    /\ Return(s)
    /\ UNCHANGED db

Start(s) ==
    \/ \E e \in Event, d \in Payload, p \in Period : PostEvent(s, e, d, p)
    \/ \E n \in 1 .. MaxReversible, p \in Period : Reverse(s, n, p)
    \/ \E p \in Period : ClosePeriod(s, p)

\* The steps of a call that is under way.
Step(s) ==
    \/ PeriodOpen(s) \/ PostRefused(s)
    \/ IngestInvalid(s) \/ IngestMismatch(s) \/ IngestDuplicate(s) \/ IngestNew(s)
    \/ InsertEvent(s) \/ InsertConflict(s) \/ AuditIngested(s) \/ AuditRejected(s)
    \/ InterpretFails(s) \/ Interpreted(s)
    \/ \E o \in {"BLOCKED", "REJECTED"} : WriteFails(s, o)
    \/ \E l \in Ledger : WriteEntry(s, l)
    \/ RecordPosted(s)
    \/ LockOriginal(s) \/ OriginalMissing(s) \/ CheckReversalPeriod(s)
    \/ WriteReversal(s) \/ AuditReversal(s)
    \/ CloseRow(s)
    \/ Commit(s) \/ ReturnFailure(s) \/ ReturnUncommitted(s) \/ RaiseError(s)

Progress(s) == Step(s) /\ UNCHANGED auto

BreakDeadlock(s) == DeadlockAbort(s) /\ UNCHANGED auto

Next ==
    \E s \in Session :
        \/ (Start(s) \/ Abort(s)) /\ UNCHANGED auto
        \/ Progress(s)
        \/ BreakDeadlock(s)

\* A running call takes its next statement; a waiting one gets its lock when
\* the lock is released again and again (PostgreSQL queues waiters in order);
\* a ring of waiters is broken after deadlock_timeout.
Fairness ==
    \A s \in Session : SF_vars(Progress(s)) /\ WF_vars(BreakDeadlock(s))

Spec == Init /\ [][Next]_vars /\ Fairness
-----------------------------------------------------------------------------
(* Properties *)

Labels == {"idle", "period", "ingest", "insert", "audit_ingested",
           "audit_rejected", "interpret", "write", "outcome", "rev_lock",
           "rev_period", "rev_write", "rev_audit", "close", "ok", "failed",
           "raise"}

EventRows   == [id : Event, payload : Payload]
OutcomeRows == [event : Event, status : {"POSTED", "BLOCKED", "REJECTED"}]
EntryRows   == [seq : Nat, event : Event \cup {None}, ledger : Ledger,
                period : Period, of : Nat]
TxRows      == [events : SUBSET EventRows, entries : SUBSET EntryRows,
                outcomes : SUBSET OutcomeRows, closed : SUBSET Period]

Requests    == {Idle}
                 \cup {Post(e, d, p) : e \in Event, d \in Payload, p \in Period}
                 \cup {Reversal(n, p) : n \in 1 .. MaxReversible, p \in Period}
                 \cup {Close(p) : p \in Period}

\* The type invariant.
TypeOK ==
    /\ status \in [Period -> {"OPEN", "CLOSED"}]
    /\ events \subseteq EventRows
    /\ journal \subseteq EntryRows
    /\ outcomes \subseteq OutcomeRows
    /\ jcount \in Nat
    /\ holder \in [Resource -> Session \cup {None}]
    /\ pc \in [Session -> Labels]
    /\ req \in [Session -> Requests]
    /\ tx \in [Session -> TxRows]
    /\ jval \in [Session -> Nat]
    /\ acked \subseteq [event : Event, payload : Payload]
    /\ auto \in BOOLEAN

RowsOf(e) == {r \in journal : r.event = e}
IsPosted(e) == [event |-> e, status |-> "POSTED"] \in outcomes

\* L5 and P11: a committed event has its POSTED outcome together with exactly
\* one entry in every ledger, all in one period, or neither, whatever
\* failed, raised or crashed between the statements that wrote them.
PostedAtomically ==
    \A e \in Event :
        /\ IsPosted(e) <=> RowsOf(e) # {}
        /\ RowsOf(e) # {} =>
             /\ \E v \in events : v.id = e
             /\ {r.ledger : r \in RowsOf(e)} = Ledger
             /\ \A r, q \in RowsOf(e) :
                  r.period = q.period /\ (r.ledger = q.ledger => r = q)

OneOutcomeEach ==
    /\ {v.id : v \in events} = {o.event : o \in outcomes}
    /\ \A v, w \in events : v.id = w.id => v = w
    /\ \A o, q \in outcomes : o.event = q.event => o = q

\* P15, where the caller owns the commit as every business module does: an
\* event that was accepted (its row is committed) has exactly one
\* InterpretationOutcome, and no event_id is accepted twice.
OutcomePerEvent == ~auto => OneOutcomeEach

\* ModulePostingResult.is_success, where the caller owns the commit: one that
\* was told POSTED or ALREADY_POSTED can rely on the ledger: the event is in
\* every ledger.
AckedIsPosted ==
    ~auto => \A a \in acked : IsPosted(a.event) /\ RowsOf(a.event) # {}

\* An entry is reversed at most once, and a session that has passed
\* _load_and_validate never finds its original reversed behind its back, so
\* the unique index uq_journal_reversal_of never fires.
OneReversal ==
    /\ \A r, q \in journal : r.of = q.of /\ r.of # 0 => r = q
    /\ \A s \in Session : pc[s] \in {"rev_period", "rev_write", "rev_audit"} =>
         \A r \in journal : r.of # req[s].of

\* R9, R10, P11: the committed journal implements the append-only journal of
\* GeneralLedger: each commit adds the entries of one posting or of one
\* reversal, numbered without gap after every entry committed before.
AbstractLedger == INSTANCE GeneralLedger
ImplementsLedger == AbstractLedger!Spec

\* Where the caller owns the commit, every call returns: no wait for the
\* counters, an event id, an entry or a period lasts forever.
EveryCallReturns ==
    \A s \in Session : (~auto /\ pc[s] # "idle") ~> pc[s] = "idle"
=============================================================================
