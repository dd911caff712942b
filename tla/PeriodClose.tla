---------------------------- MODULE PeriodClose ----------------------------
(***************************************************************************)
(* The close of one fiscal period: PeriodService's status transitions, the *)
(* six phases of PeriodCloseOrchestrator.close_period_full with its        *)
(* certificate, cancel_close, and the postings that run meanwhile.         *)
(*                                                                         *)
(* close_period_full runs in the caller's transaction; the caller (the CLI *)
(* close workflow) commits after it returned, whether the close completed  *)
(* or failed, and rolls back when it raised.  The period row and the audit *)
(* counter row stay locked until the transaction ends.  A posting takes    *)
(* the audit lock after its period check (see Posting for its other        *)
(* steps).                                                                 *)
(***************************************************************************)
EXTENDS Naturals, FiniteSets

CONSTANTS
    Session,        \* database sessions
    Subledger,      \* subledger types that phase 1 closes
    None,
    MaxEntries      \* bound: no posting starts once this many are committed

ASSUME NoneAssumption ==
    None \notin Session \cup {"OPEN", "CLOSING", "CLOSED", "LOCKED"}
ASSUME MaxEntriesAssumption == MaxEntries \in Nat

VARIABLES
    contracts,  \* compiled_pack.subledger_contracts is not empty
    status,     \* committed FiscalPeriod.status
    closed,     \* subledgers whose period status row is committed as CLOSED
    entries,    \* committed journal entries of the period
    certs,      \* committed close certificates
    row,        \* the session that locks the period row
    audit,      \* the session that locks the audit counter row
    pc,         \* pc[s]: next step of the call running in s
    run,        \* run[s]: what close_period_full keeps in Python variables
    wstatus,    \* wstatus[s]: the status s wrote and did not commit, or None
    wclosed,    \* wclosed[s]: subledgers s closed and did not commit
    wcert       \* wcert[s]: the certificates s wrote and did not commit

db   == <<status, closed, entries, certs>>
tx   == <<wstatus, wclosed, wcert>>
vars == <<contracts, db, row, audit, pc, run, tx>>

\* The row as the statements of s see it.
View(s) == IF wstatus[s] = None THEN status ELSE wstatus[s]
Closed(st) == st \in {"CLOSED", "LOCKED"}

NoRun == [yearEnd |-> FALSE, verified |-> 0, hashed |-> 0]

Goto(s, label) == pc' = [pc EXCEPT ![s] = label]
RowFree(s)   == row \in {None, s}
AuditFree(s) == audit \in {None, s}

\* The locks of s are released and its uncommitted rows are gone.
EndTransaction(s) ==
    /\ row' = IF row = s THEN None ELSE row
    /\ audit' = IF audit = s THEN None ELSE audit
    /\ wstatus' = [wstatus EXCEPT ![s] = None]
    /\ wclosed' = [wclosed EXCEPT ![s] = {}]
    /\ wcert' = [wcert EXCEPT ![s] = {}]

\* session.commit() of a close: the rows of s are committed.
Publish(s) ==
    /\ status' = View(s)
    /\ closed' = closed \cup wclosed[s]
    /\ certs' = certs \cup wcert[s]
    /\ UNCHANGED entries

Return(s) == Goto(s, "idle") /\ run' = [run EXCEPT ![s] = NoRun]

-----------------------------------------------------------------------------
Init ==
    /\ contracts \in BOOLEAN
    /\ status = "OPEN"
    /\ closed = {}
    /\ entries = 0
    /\ certs = {}
    /\ row = None
    /\ audit = None
    /\ pc = [s \in Session |-> "idle"]
    /\ run = [s \in Session |-> NoRun]
    /\ wstatus = [s \in Session |-> None]
    /\ wclosed = [s \in Session |-> {}]
    /\ wcert = [s \in Session |-> {}]

(* close_period_full *)

CloseFull(s, yearEnd) ==
    /\ pc[s] = "idle"
    /\ run' = [run EXCEPT ![s].yearEnd = yearEnd]
    /\ Goto(s, "begin")
    /\ UNCHANGED <<contracts, db, row, audit, tx>>

\* Mutant of BeginClosing: the period is read without FOR UPDATE.
BeginClosingUnlocked(s) ==
    /\ pc[s] = "begin"
    /\ View(s) = "OPEN"
    /\ wstatus' = [wstatus EXCEPT ![s] = "CLOSING"]
    /\ Goto(s, "begun")
    /\ UNCHANGED <<contracts, db, row, audit, run, wclosed, wcert>>

\* Mutant of BeginClosing: only a close under way is refused.
BeginClosingAnew(s) ==
    /\ pc[s] = "begin"
    /\ RowFree(s)
    /\ View(s) # "CLOSING"
    /\ row' = s
    /\ wstatus' = [wstatus EXCEPT ![s] = "CLOSING"]
    /\ Goto(s, "begun")
    /\ UNCHANGED <<contracts, db, audit, run, wclosed, wcert>>

\* begin_closing: SELECT ... FOR UPDATE, OPEN -> CLOSING.
BeginClosing(s) ==
    /\ pc[s] = "begin"
    /\ RowFree(s)
    /\ row' = s
    /\ \/ /\ View(s) = "OPEN"
          /\ wstatus' = [wstatus EXCEPT ![s] = "CLOSING"]
          /\ Goto(s, "begun")
       \/ /\ View(s) # "OPEN"       \* PeriodAlreadyClosedError, PeriodClosingError
          /\ Goto(s, "raise")
          /\ UNCHANGED wstatus
    /\ UNCHANGED <<contracts, db, audit, run, wclosed, wcert>>

\* Mutant of AuditBegun: the start of the close is not audited.
AuditBegunSkipped(s) ==
    /\ pc[s] = "begun"
    /\ Goto(s, "phase1")
    /\ UNCHANGED <<contracts, db, row, audit, run, tx>>

\* record_close_begun: the audit counter row is locked from here on.
AuditBegun(s) ==
    /\ pc[s] = "begun"
    /\ AuditFree(s)
    /\ audit' = s
    /\ Goto(s, "phase1")
    /\ UNCHANGED <<contracts, db, row, run, tx>>

\* Phase 1 without a SubledgerPeriodService, which the pack has none of when
\* it declares no subledger contracts: the phase succeeds and closes nothing.
Phase1Skipped(s) ==
    /\ pc[s] = "phase1"
    /\ ~contracts
    /\ Goto(s, "phase2")
    /\ UNCHANGED <<contracts, db, row, audit, run, tx>>

\* Mutant of Phase1: the error of a subledger does not stop the run.
Phase1Continues(s) ==
    /\ pc[s] = "phase1"
    /\ contracts
    /\ \E C \in SUBSET Subledger :
        wclosed' = [wclosed EXCEPT ![s] = C \ closed]
    /\ Goto(s, "phase2")
    /\ UNCHANGED <<contracts, db, row, audit, run, wstatus, wcert>>

\* With the service, close_subledger_period flushes the subledgers of C as
\* CLOSED (the others do not reconcile, or were closed before); each call
\* then ends in the handler, because result.status is a str and has no
\* value: no subledger is reported closed and the phase fails.
Phase1(s) ==
    /\ pc[s] = "phase1"
    /\ contracts
    /\ \E C \in SUBSET Subledger :
        wclosed' = [wclosed EXCEPT ![s] = C \ closed]
    /\ Goto(s, "failed")
    /\ UNCHANGED <<contracts, db, row, audit, run, wstatus, wcert>>

\* The trial balance over the entries visible now balances, and phase 3 (no
\* callback) does nothing; or it does not balance, or cannot be computed.
Phase2(s) ==
    /\ pc[s] = "phase2"
    /\ run' = [run EXCEPT ![s].verified = entries]
    /\ Goto(s, "phase4") \/ Goto(s, "failed")
    /\ UNCHANGED <<contracts, db, row, audit, tx>>

Phase4Skipped(s) ==
    /\ pc[s] = "phase4"
    /\ ~run[s].yearEnd
    /\ Goto(s, "phase5")
    /\ UNCHANGED <<contracts, db, row, audit, run, tx>>

\* record_closing_entry at year-end: the CLI gave GeneralLedgerService the
\* clock in the place of the workflow executor, so the workflow guard raises;
\* the handler rolls the session of the close back and the phase fails.
Phase4Raises(s) ==
    /\ pc[s] = "phase4"
    /\ run[s].yearEnd
    /\ EndTransaction(s)
    /\ Goto(s, "failed")
    /\ UNCHANGED <<contracts, db, run>>

\* close_period: SELECT ... FOR UPDATE, then CLOSED unless it is closed.
Phase5(s) ==
    /\ pc[s] = "phase5"
    /\ RowFree(s)
    /\ row' = s
    /\ wstatus' = [wstatus EXCEPT ![s] = IF Closed(View(s)) THEN @ ELSE "CLOSED"]
    /\ Goto(s, IF Closed(View(s)) THEN "failed" ELSE "phase6")
    /\ UNCHANGED <<contracts, db, audit, run, wclosed, wcert>>

\* Mutant of Phase6: the status of the run is written to the period.
Phase6RunStatus(s) ==
    /\ pc[s] = "phase6"
    /\ wstatus' = [wstatus EXCEPT ![s] = "COMPLETED"]
    /\ Goto(s, "certify")
    /\ UNCHANGED <<contracts, db, row, audit, run, wclosed, wcert>>

\* lock_period at year-end; the row is still locked by this transaction.
Phase6(s) ==
    /\ pc[s] = "phase6"
    /\ wstatus' = [wstatus EXCEPT ![s] =
                     IF run[s].yearEnd THEN "LOCKED" ELSE View(s)]
    /\ Goto(s, "certify")
    /\ UNCHANGED <<contracts, db, row, audit, run, wclosed, wcert>>

\* _build_certificate: the canonical hash over the entries visible now.
HashLedger(s) ==
    /\ pc[s] = "certify"
    /\ run' = [run EXCEPT ![s].hashed = entries]
    /\ Goto(s, "record")
    /\ UNCHANGED <<contracts, db, row, audit, tx>>

\* Its end: statistics from the phase results, record_close_certified.  The
\* details of phase 1, which subledgers_closed is taken from, are empty.
Certify(s) ==
    /\ pc[s] = "record"
    /\ AuditFree(s)
    /\ audit' = s
    /\ wcert' = [wcert EXCEPT ![s] =
                   {[by |-> s, yearEnd |-> run[s].yearEnd,
                     subledgers |-> {},
                     verified |-> run[s].verified, hashed |-> run[s].hashed]}]
    /\ Goto(s, "completed")
    /\ UNCHANGED <<contracts, db, row, run, wstatus, wclosed>>

-----------------------------------------------------------------------------
(* cancel_close, and close_period called on its own *)

Cancel(s) ==
    /\ pc[s] = "idle"
    /\ Goto(s, "cancel")
    /\ UNCHANGED <<contracts, db, row, audit, run, tx>>

\* Mutant of CancelClosing: the period is read without FOR UPDATE.
CancelClosingUnlocked(s) ==
    /\ pc[s] = "cancel"
    /\ \/ /\ View(s) = "CLOSING"
          /\ wstatus' = [wstatus EXCEPT ![s] = "OPEN"]
          /\ Goto(s, "cancelled")
       \/ /\ View(s) # "CLOSING"
          /\ Goto(s, "raise")
          /\ UNCHANGED wstatus
    /\ UNCHANGED <<contracts, db, row, audit, run, wclosed, wcert>>

\* cancel_closing: SELECT ... FOR UPDATE, CLOSING -> OPEN.
CancelClosing(s) ==
    /\ pc[s] = "cancel"
    /\ RowFree(s)
    /\ row' = s
    /\ \/ /\ View(s) = "CLOSING"
          /\ wstatus' = [wstatus EXCEPT ![s] = "OPEN"]
          /\ Goto(s, "cancelled")
       \/ /\ View(s) # "CLOSING"
          /\ Goto(s, "raise")
          /\ UNCHANGED wstatus
    /\ UNCHANGED <<contracts, db, audit, run, wclosed, wcert>>

\* record_close_cancelled.
AuditCancelled(s) ==
    /\ pc[s] = "cancelled"
    /\ AuditFree(s)
    /\ audit' = s
    /\ Goto(s, "completed")
    /\ UNCHANGED <<contracts, db, row, run, tx>>

CloseDirect(s) ==
    /\ pc[s] = "idle"
    /\ RowFree(s)
    /\ ~Closed(View(s))
    /\ row' = s
    /\ wstatus' = [wstatus EXCEPT ![s] = "CLOSED"]
    /\ Goto(s, "completed")
    /\ UNCHANGED <<contracts, db, audit, run, wclosed, wcert>>

(* A posting into the period *)

\* validate_adjustment_allowed: a plain SELECT.
PostCheck(s) ==
    /\ pc[s] = "idle"
    /\ entries < MaxEntries
    /\ View(s) = "OPEN"
    /\ Goto(s, "post")
    /\ UNCHANGED <<contracts, db, row, audit, run, tx>>

\* record_event_ingested.
PostAudit(s) ==
    /\ pc[s] = "post"
    /\ AuditFree(s)
    /\ audit' = s
    /\ Goto(s, "posted")
    /\ UNCHANGED <<contracts, db, row, run, tx>>

PostCommit(s) ==
    /\ pc[s] = "posted"
    /\ entries' = entries + 1
    /\ EndTransaction(s)
    /\ Return(s)
    /\ UNCHANGED <<contracts, status, closed, certs>>

-----------------------------------------------------------------------------
(* The end of a call *)

\* session.commit(), after a completed close and after a failed one.
Commit(s) ==
    /\ pc[s] \in {"completed", "failed"}
    /\ Publish(s)
    /\ EndTransaction(s)
    /\ Return(s)
    /\ UNCHANGED contracts

\* The call raised (a refused transition, CloseAuthorityError before any
\* phase), the connection is lost, or the process dies.
Rollback(s) ==
    /\ pc[s] # "idle"
    /\ EndTransaction(s)
    /\ Return(s)
    /\ UNCHANGED <<contracts, db>>

Step(s) ==
    \/ \E y \in BOOLEAN : CloseFull(s, y)
    \/ BeginClosing(s) \/ AuditBegun(s) \/ Phase1Skipped(s) \/ Phase1(s)
    \/ Phase2(s) \/ Phase4Skipped(s) \/ Phase4Raises(s)
    \/ Phase5(s) \/ Phase6(s) \/ HashLedger(s) \/ Certify(s)
    \/ Cancel(s) \/ CancelClosing(s) \/ AuditCancelled(s) \/ CloseDirect(s)
    \/ PostCheck(s) \/ PostAudit(s) \/ PostCommit(s)
    \/ Commit(s) \/ Rollback(s)

Next == \E s \in Session : Step(s)

Spec == Init /\ [][Next]_vars
-----------------------------------------------------------------------------
(* Properties *)

Statuses == {"OPEN", "CLOSING", "CLOSED", "LOCKED"}

Phases == {"begun", "phase1", "phase2", "phase4", "phase5", "phase6",
           "certify", "record"}

Labels == Phases \cup {"idle", "begin", "failed", "raise", "completed",
                       "cancel", "cancelled", "post", "posted"}

Certificates == [by : Session, yearEnd : BOOLEAN,
                 subledgers : SUBSET Subledger, verified : Nat, hashed : Nat]

\* The type invariant.
TypeOK ==
    /\ contracts \in BOOLEAN
    /\ status \in Statuses
    /\ closed \subseteq Subledger
    /\ entries \in Nat
    /\ certs \subseteq Certificates
    /\ row \in Session \cup {None}
    /\ audit \in Session \cup {None}
    /\ pc \in [Session -> Labels]
    /\ run \in [Session -> [yearEnd : BOOLEAN, verified : Nat, hashed : Nat]]
    /\ wstatus \in [Session -> Statuses \cup {None}]
    /\ wclosed \in [Session -> SUBSET Subledger]
    /\ DOMAIN wcert = Session
    /\ \A s \in Session : wcert[s] \subseteq Certificates

\* R12 and the trigger trg_fiscal_period_immutability_update: no commit takes
\* a closed period back, whatever closes and cancellations overlap; the row
\* locks see to it before the trigger would have to.  (Only phase 6 locks a
\* period, at year-end, and no year-end run gets past phase 4.)
ClosedStaysClosed ==
    [][/\ Closed(status) => Closed(status')
       /\ status = "LOCKED" => status' = "LOCKED"]_status

\* R25, the close lock: two runs of close_period_full are never both between
\* begin_closing and the certificate, whatever cancellations and postings are
\* under way and although phase 4 of a year-end run gives its locks up.
ExclusiveClose ==
    \A s, t \in Session : pc[s] \in Phases /\ pc[t] \in Phases => s = t

\* A committed certificate speaks of a closed period, comes from an ordinary
\* close, and lists exactly the subledgers that are committed as closed.
\* These are none: _phase_1_close_subledgers fails whenever it closes one, and
\* what it had flushed is then committed without a certificate.
CertificateTrue ==
    \A c \in certs : Closed(status) /\ ~c.yearEnd /\ c.subledgers = closed

\* A period is certified once, by whatever mix of ordinary and year-end runs.
OneCertificate == Cardinality(certs) <= 1

\* R24: when a certificate is committed, the ledger it hashed is the ledger
\* whose trial balance phase 2 verified and still the committed ledger of the
\* period.  Nothing locks the journal during a close: postings are kept out
\* because each needs the audit counter row that begin_close locked.
CertificateCurrent ==
    [][\A c \in certs' \ certs :
         c.verified = entries' /\ c.hashed = entries']_certs
=============================================================================
