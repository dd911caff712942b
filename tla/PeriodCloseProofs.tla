-------------------------- MODULE PeriodCloseProofs --------------------------
(***************************************************************************)
(* Proofs about PeriodClose, for every set of sessions and subledgers.     *)
(***************************************************************************)
EXTENDS PeriodClose, FiniteSetTheorems, TLAPS

\* A status that is written and not committed belongs to the session that
\* locks the row, and replaces a status that is not closed.
RowInv ==
    \A s \in Session : wstatus[s] # None => row = s /\ ~Closed(status)

\* What a close has written.  A year-end run does not get past phase 4.
LateInv ==
    \A s \in Session :
        /\ pc[s] = "idle" => run[s] = NoRun
        /\ pc[s] \in {"begun", "phase1", "phase2", "phase4", "phase5"} =>
             wstatus[s] = "CLOSING"
        /\ pc[s] \in {"phase5", "phase6", "certify", "record"} => ~run[s].yearEnd
        /\ pc[s] = "phase6" => wstatus[s] = "CLOSED"
        /\ pc[s] \in {"certify", "record"} => wstatus[s] \in {"CLOSED", "LOCKED"}

\* A certificate comes with the close of its period.
CertInv ==
    /\ \A s \in Session :
         /\ wcert[s] # {} => pc[s] = "completed" /\ wstatus[s] \in {"CLOSED", "LOCKED"}
         /\ \A c \in wcert[s] : ~c.yearEnd /\ c.subledgers = {}
         /\ \A c, d \in wcert[s] : c = d
    /\ certs # {} => Closed(status)
    /\ \A c \in certs : ~c.yearEnd /\ c.subledgers = {}
    /\ \A c, d \in certs : c = d

IInv == TypeOK /\ RowInv /\ LateInv /\ CertInv

-----------------------------------------------------------------------------
\* An open period with nothing written satisfies the invariant.
LEMMA InitIInv == Init => IInv
  BY NoneAssumption
  DEF Init, IInv, TypeOK, RowInv, LateInv, CertInv, Statuses, Labels, Phases,
      Certificates, NoRun

\* Every step keeps the types.
LEMMA StepType ==
    ASSUME TypeOK, NEW s \in Session, Step(s)
    PROVE  TypeOK'
<1> USE NoneAssumption
    DEF TypeOK, Statuses, Labels, Phases, Certificates, Goto, Return, NoRun, View,
        db, tx, EndTransaction, Publish
<1>1. CASE \E y \in BOOLEAN : CloseFull(s, y)
  BY <1>1 DEF CloseFull
<1>2. CASE BeginClosing(s)
  BY <1>2 DEF BeginClosing
<1>3. CASE AuditBegun(s)
  BY <1>3 DEF AuditBegun
<1>4. CASE Phase1(s)
  BY <1>4 DEF Phase1
<1>5. CASE Phase2(s)
  <2>1. run' \in [Session -> [yearEnd : BOOLEAN, verified : Nat, hashed : Nat]]
    BY <1>5 DEF Phase2
  <2>2. pc' \in [Session -> Labels]
    BY <1>5 DEF Phase2
  <2> QED
    BY <2>1, <2>2, <1>5 DEF Phase2
<1>6. CASE Phase4Skipped(s)
  BY <1>6 DEF Phase4Skipped
<1>7. CASE Phase1Skipped(s)
  BY <1>7 DEF Phase1Skipped
<1>8. CASE Phase4Raises(s)
  BY <1>8 DEF Phase4Raises
<1>9. CASE Phase5(s)
  BY <1>9 DEF Phase5
<1>10. CASE Phase6(s)
  BY <1>10 DEF Phase6
<1>11. CASE HashLedger(s)
  BY <1>11 DEF HashLedger
<1>12. CASE Certify(s)
  BY <1>12 DEF Certify
<1>13. CASE Cancel(s)
  BY <1>13 DEF Cancel
<1>14. CASE CancelClosing(s)
  BY <1>14 DEF CancelClosing
<1>15. CASE AuditCancelled(s)
  BY <1>15 DEF AuditCancelled
<1>16. CASE CloseDirect(s)
  BY <1>16 DEF CloseDirect
<1>17. CASE PostCheck(s)
  BY <1>17 DEF PostCheck
<1>18. CASE PostAudit(s)
  BY <1>18 DEF PostAudit
<1>19. CASE PostCommit(s)
  BY <1>19 DEF PostCommit
<1>20. CASE Commit(s)
  BY <1>20 DEF Commit
<1>21. CASE Rollback(s)
  BY <1>21 DEF Rollback
<1> QED
  BY <1>1, <1>2, <1>3, <1>4, <1>5, <1>6, <1>7, <1>8, <1>9, <1>10, <1>11,
     <1>12, <1>13, <1>14, <1>15, <1>16, <1>17, <1>18, <1>19, <1>20, <1>21
  DEF Step

\* Every step keeps uncommitted statuses with the holder of the row.
LEMMA StepRow ==
    ASSUME IInv, NEW s \in Session, Step(s)
    PROVE  RowInv' /\ LateInv'
<1> USE NoneAssumption
    DEF IInv, TypeOK, RowInv, LateInv, Statuses, Closed, Goto, Return, NoRun, View,
        RowFree, db, tx, EndTransaction, Publish
<1>1. CASE \E y \in BOOLEAN : CloseFull(s, y)
  BY <1>1 DEF CloseFull
<1>2. CASE BeginClosing(s)
  BY <1>2 DEF BeginClosing
<1>3. CASE AuditBegun(s)
  BY <1>3 DEF AuditBegun
<1>4. CASE Phase1(s)
  BY <1>4 DEF Phase1
<1>5. CASE Phase2(s)
  BY <1>5 DEF Phase2
<1>6. CASE Phase4Skipped(s)
  BY <1>6 DEF Phase4Skipped
<1>7. CASE Phase1Skipped(s)
  BY <1>7 DEF Phase1Skipped
<1>8. CASE Phase4Raises(s)
  BY <1>8 DEF Phase4Raises
<1>9. CASE Phase5(s)
  BY <1>9 DEF Phase5
<1>10. CASE Phase6(s)
  BY <1>10 DEF Phase6
<1>11. CASE HashLedger(s)
  BY <1>11 DEF HashLedger
<1>12. CASE Certify(s)
  BY <1>12 DEF Certify
<1>13. CASE Cancel(s)
  BY <1>13 DEF Cancel
<1>14. CASE CancelClosing(s)
  BY <1>14 DEF CancelClosing
<1>15. CASE AuditCancelled(s)
  BY <1>15 DEF AuditCancelled
<1>16. CASE CloseDirect(s)
  BY <1>16 DEF CloseDirect
<1>17. CASE PostCheck(s)
  BY <1>17 DEF PostCheck
<1>18. CASE PostAudit(s)
  BY <1>18 DEF PostAudit
<1>19. CASE PostCommit(s)
  BY <1>19 DEF PostCommit
<1>20. CASE Commit(s)
  BY <1>20 DEF Commit
<1>21. CASE Rollback(s)
  BY <1>21 DEF Rollback
<1> QED
  BY <1>1, <1>2, <1>3, <1>4, <1>5, <1>6, <1>7, <1>8, <1>9, <1>10, <1>11,
     <1>12, <1>13, <1>14, <1>15, <1>16, <1>17, <1>18, <1>19, <1>20, <1>21
  DEF Step

\* Every step keeps certificates unique and with the close of the period.
LEMMA StepCert ==
    ASSUME IInv, NEW s \in Session, Step(s)
    PROVE  CertInv'
<1> USE NoneAssumption
    DEF IInv, TypeOK, RowInv, LateInv, CertInv, Statuses, Closed, Goto, Return,
        View, db, tx, EndTransaction, Publish
<1>1. CASE \E y \in BOOLEAN : CloseFull(s, y)
  BY <1>1 DEF CloseFull
<1>2. CASE BeginClosing(s)
  BY <1>2 DEF BeginClosing
<1>3. CASE AuditBegun(s)
  BY <1>3 DEF AuditBegun
<1>4. CASE Phase1(s)
  BY <1>4 DEF Phase1
<1>5. CASE Phase2(s)
  BY <1>5 DEF Phase2
<1>6. CASE Phase4Skipped(s)
  BY <1>6 DEF Phase4Skipped
<1>7. CASE Phase1Skipped(s)
  BY <1>7 DEF Phase1Skipped
<1>8. CASE Phase4Raises(s)
  BY <1>8 DEF Phase4Raises
<1>9. CASE Phase5(s)
  BY <1>9 DEF Phase5
<1>10. CASE Phase6(s)
  BY <1>10 DEF Phase6
<1>11. CASE HashLedger(s)
  BY <1>11 DEF HashLedger
<1>12. CASE Certify(s)
  <2>1. ~run[s].yearEnd
    BY <1>12 DEF Certify
  <2>2. \A c \in wcert'[s] :
          /\ ~c.yearEnd /\ c.subledgers = {}
          /\ \A d \in wcert'[s] : c = d
    <3> DEFINE cert == [by |-> s, yearEnd |-> run[s].yearEnd, subledgers |-> {},
                        verified |-> run[s].verified, hashed |-> run[s].hashed]
    <3>1. wcert'[s] = {cert}
      BY <1>12 DEF Certify
    <3>2. cert.yearEnd = run[s].yearEnd /\ cert.subledgers = {}
      OBVIOUS
    <3> HIDE DEF cert
    <3> QED
      BY <3>1, <3>2, <2>1, Zenon
  <2>3. \A t \in Session \ {s} : wcert'[t] = wcert[t] /\ pc'[t] = pc[t]
    BY <1>12 DEF Certify
  <2>4. UNCHANGED <<status, certs, wstatus>> /\ pc'[s] = "completed"
    BY <1>12 DEF Certify
  <2>5. wstatus[s] \in {"CLOSED", "LOCKED"}
    BY <1>12 DEF Certify
  <2> QED
    BY <2>2, <2>3, <2>4, <2>5
<1>13. CASE Cancel(s)
  BY <1>13 DEF Cancel
<1>14. CASE CancelClosing(s)
  BY <1>14 DEF CancelClosing
<1>15. CASE AuditCancelled(s)
  BY <1>15 DEF AuditCancelled
<1>16. CASE CloseDirect(s)
  BY <1>16 DEF CloseDirect
<1>17. CASE PostCheck(s)
  BY <1>17 DEF PostCheck
<1>18. CASE PostAudit(s)
  BY <1>18 DEF PostAudit
<1>19. CASE PostCommit(s)
  BY <1>19 DEF PostCommit
<1>20. CASE Commit(s)
  BY <1>20 DEF Commit
<1>21. CASE Rollback(s)
  BY <1>21 DEF Rollback
<1> QED
  BY <1>1, <1>2, <1>3, <1>4, <1>5, <1>6, <1>7, <1>8, <1>9, <1>10, <1>11,
     <1>12, <1>13, <1>14, <1>15, <1>16, <1>17, <1>18, <1>19, <1>20, <1>21
  DEF Step
\* The inductive invariant of every close, year-end or not.
THEOREM Inductive == Spec => []IInv
<1>1. ASSUME IInv, [Next]_vars PROVE IInv'
  <2>1. CASE Next
    BY <1>1, <2>1, StepType, StepRow, StepCert DEF Next, IInv
  <2>2. CASE UNCHANGED vars
    BY <1>1, <2>2 DEF vars, db, tx, IInv, TypeOK, RowInv, LateInv, CertInv
  <2> QED
    BY <1>1, <2>1, <2>2
<1> QED
  BY <1>1, InitIInv, PTL DEF Spec

\* The type invariant.
THEOREM TypeCorrect == Spec => []TypeOK
<1>1. IInv => TypeOK
  BY DEF IInv
<1> QED
  BY <1>1, Inductive, PTL

\* begin_closing, cancel_closing, close_period and lock_period never take a
\* closed period back, in whatever order their transactions commit.
THEOREM ClosedForGood == Spec => ClosedStaysClosed
<1>1. ASSUME IInv, [Next]_vars, status' # status
      PROVE  ~Closed(status)
  <2>1. PICK s \in Session : Step(s)
    BY <1>1 DEF Next, vars, db
  <2>2. wstatus[s] # None
    BY <2>1, <1>1
    DEF Step, CloseFull, BeginClosing, AuditBegun, Phase1Skipped, Phase1, Phase2,
        Phase4Skipped, Phase4Raises, Phase5, Phase6, HashLedger,
        Certify, Cancel, CancelClosing, AuditCancelled, CloseDirect, PostCheck,
        PostAudit, PostCommit, Commit, Rollback, Publish, View, db
  <2> QED
    BY <2>2, <1>1 DEF IInv, RowInv
<1>2. IInv /\ [Next]_vars =>
        [/\ Closed(status) => Closed(status')
         /\ status = "LOCKED" => status' = "LOCKED"]_status
  BY <1>1 DEF Closed
<1> QED
  BY <1>2, Inductive, PTL DEF Spec, ClosedStaysClosed

\* A period is certified at most once, year-end or not.
THEOREM CertifiedOnce == Spec => []OneCertificate
<1>1. ASSUME IInv PROVE OneCertificate
  <2>1. CASE certs = {}
    BY <2>1, FS_EmptySet DEF OneCertificate
  <2>2. CASE certs # {}
    <3>1. PICK c \in certs : TRUE
      BY <2>2
    <3>2. certs = {c}
      BY <3>1, <1>1 DEF IInv, CertInv
    <3>3. Cardinality({c}) = 1
      BY FS_Singleton
    <3> QED
      BY <3>2, <3>3 DEF OneCertificate
  <2> QED
    BY <2>1, <2>2
<1> QED
  BY <1>1, Inductive, PTL

-----------------------------------------------------------------------------
(* What a run holds, what it closed, and the ledger it saw *)

\* From begin_closing to the certificate a run keeps the period row and, from
\* record_close_begun on, the audit counter row (phase 4 of a year-end gives
\* them up and ends the run); a posting has the audit counter row before it
\* commits.
HoldInv ==
    \A s \in Session :
        /\ pc[s] \in Phases => row = s
        /\ pc[s] \in Phases \ {"begun"} => audit = s
        /\ pc[s] = "posted" => audit = s
        /\ wcert[s] # {} => audit = s

\* Where subledgers are closed no run gets past phase 1; where runs get past
\* phase 1 no subledger is closed.
SubledgerInv ==
    /\ ~contracts => closed = {} /\ \A s \in Session : wclosed[s] = {}
    /\ contracts =>
         /\ certs = {}
         /\ \A s \in Session : /\ wcert[s] = {}
                                /\ pc[s] \notin Phases \ {"begun", "phase1"}

\* The ledger has not moved since a run verified and hashed it.
LedgerInv ==
    \A s \in Session :
        /\ pc[s] \in Phases \ {"begun", "phase1", "phase2"} => run[s].verified = entries
        /\ pc[s] = "record" => run[s].hashed = entries
        /\ \A c \in wcert[s] : c.verified = entries /\ c.hashed = entries

CloseInv == HoldInv /\ SubledgerInv /\ LedgerInv

\* A period nobody closes satisfies this invariant.
LEMMA InitClose == Init => CloseInv
  BY DEF Init, CloseInv, HoldInv, SubledgerInv, LedgerInv, Phases,
         NoRun

\* No step of a close gives a lock up before its end.
LEMMA StepHold ==
    ASSUME IInv, CloseInv, NEW s \in Session, Step(s)
    PROVE  HoldInv'
<1> USE NoneAssumption
    DEF IInv, TypeOK, CertInv, CloseInv, HoldInv, Phases, Goto, Return, NoRun,
        RowFree, AuditFree, db, tx, EndTransaction
<1>1. CASE \E y \in BOOLEAN : CloseFull(s, y)
  BY <1>1 DEF CloseFull
<1>2. CASE BeginClosing(s)
  BY <1>2 DEF BeginClosing
<1>3. CASE AuditBegun(s)
  BY <1>3 DEF AuditBegun
<1>4. CASE Phase1(s)
  BY <1>4 DEF Phase1
<1>5. CASE Phase2(s)
  BY <1>5 DEF Phase2
<1>6. CASE Phase4Skipped(s)
  BY <1>6 DEF Phase4Skipped
<1>7. CASE Phase1Skipped(s)
  BY <1>7 DEF Phase1Skipped
<1>8. CASE Phase4Raises(s)
  BY <1>8 DEF Phase4Raises
<1>9. CASE Phase5(s)
  BY <1>9 DEF Phase5
<1>10. CASE Phase6(s)
  BY <1>10 DEF Phase6
<1>11. CASE HashLedger(s)
  BY <1>11 DEF HashLedger
<1>12. CASE Certify(s)
  BY <1>12 DEF Certify
<1>13. CASE Cancel(s)
  BY <1>13 DEF Cancel
<1>14. CASE CancelClosing(s)
  BY <1>14 DEF CancelClosing
<1>15. CASE AuditCancelled(s)
  BY <1>15 DEF AuditCancelled
<1>16. CASE CloseDirect(s)
  BY <1>16 DEF CloseDirect
<1>17. CASE PostCheck(s)
  BY <1>17 DEF PostCheck
<1>18. CASE PostAudit(s)
  BY <1>18 DEF PostAudit
<1>19. CASE PostCommit(s)
  BY <1>19 DEF PostCommit
<1>20. CASE Commit(s)
  BY <1>20 DEF Commit
<1>21. CASE Rollback(s)
  BY <1>21 DEF Rollback
<1> QED
  BY <1>1, <1>2, <1>3, <1>4, <1>5, <1>6, <1>7, <1>8, <1>9, <1>10, <1>11,
     <1>12, <1>13, <1>14, <1>15, <1>16, <1>17, <1>18, <1>19, <1>20, <1>21
  DEF Step

\* No step certifies a period whose subledgers were closed.
LEMMA StepSubledger ==
    ASSUME IInv, CloseInv, NEW s \in Session, Step(s)
    PROVE  SubledgerInv'
<1> USE DEF IInv, TypeOK, CertInv, CloseInv, HoldInv, SubledgerInv,
            Phases, Goto, Return, db, tx, EndTransaction, Publish
<1>1. CASE \E y \in BOOLEAN : CloseFull(s, y)
  BY <1>1 DEF CloseFull
<1>2. CASE BeginClosing(s)
  BY <1>2 DEF BeginClosing
<1>3. CASE AuditBegun(s)
  BY <1>3 DEF AuditBegun
<1>4. CASE Phase1(s)
  BY <1>4 DEF Phase1
<1>5. CASE Phase2(s)
  BY <1>5 DEF Phase2
<1>6. CASE Phase4Skipped(s)
  BY <1>6 DEF Phase4Skipped
<1>7. CASE Phase1Skipped(s)
  BY <1>7 DEF Phase1Skipped
<1>8. CASE Phase4Raises(s)
  BY <1>8 DEF Phase4Raises
<1>9. CASE Phase5(s)
  BY <1>9 DEF Phase5
<1>10. CASE Phase6(s)
  BY <1>10 DEF Phase6
<1>11. CASE HashLedger(s)
  BY <1>11 DEF HashLedger
<1>12. CASE Certify(s)
  BY <1>12 DEF Certify
<1>13. CASE Cancel(s)
  BY <1>13 DEF Cancel
<1>14. CASE CancelClosing(s)
  BY <1>14 DEF CancelClosing
<1>15. CASE AuditCancelled(s)
  BY <1>15 DEF AuditCancelled
<1>16. CASE CloseDirect(s)
  BY <1>16 DEF CloseDirect
<1>17. CASE PostCheck(s)
  BY <1>17 DEF PostCheck
<1>18. CASE PostAudit(s)
  BY <1>18 DEF PostAudit
<1>19. CASE PostCommit(s)
  BY <1>19 DEF PostCommit
<1>20. CASE Commit(s)
  BY <1>20 DEF Commit
<1>21. CASE Rollback(s)
  BY <1>21 DEF Rollback
<1> QED
  BY <1>1, <1>2, <1>3, <1>4, <1>5, <1>6, <1>7, <1>8, <1>9, <1>10, <1>11,
     <1>12, <1>13, <1>14, <1>15, <1>16, <1>17, <1>18, <1>19, <1>20, <1>21
  DEF Step

\* No step moves the ledger under a close that has verified it.
LEMMA StepLedger ==
    ASSUME IInv, CloseInv, NEW s \in Session, Step(s)
    PROVE  LedgerInv'
<1> USE DEF IInv, TypeOK, CertInv, CloseInv, HoldInv, LedgerInv,
            Phases, Goto, Return, AuditFree, db, tx, EndTransaction, Publish
<1>1. CASE \E y \in BOOLEAN : CloseFull(s, y)
  BY <1>1 DEF CloseFull
<1>2. CASE BeginClosing(s)
  BY <1>2 DEF BeginClosing
<1>3. CASE AuditBegun(s)
  BY <1>3 DEF AuditBegun
<1>4. CASE Phase1(s)
  BY <1>4 DEF Phase1
<1>5. CASE Phase2(s)
  BY <1>5 DEF Phase2
<1>6. CASE Phase4Skipped(s)
  BY <1>6 DEF Phase4Skipped
<1>7. CASE Phase1Skipped(s)
  BY <1>7 DEF Phase1Skipped
<1>8. CASE Phase4Raises(s)
  BY <1>8 DEF Phase4Raises
<1>9. CASE Phase5(s)
  BY <1>9 DEF Phase5
<1>10. CASE Phase6(s)
  BY <1>10 DEF Phase6
<1>11. CASE HashLedger(s)
  BY <1>11 DEF HashLedger
<1>12. CASE Certify(s)
  BY <1>12 DEF Certify
<1>13. CASE Cancel(s)
  BY <1>13 DEF Cancel
<1>14. CASE CancelClosing(s)
  BY <1>14 DEF CancelClosing
<1>15. CASE AuditCancelled(s)
  BY <1>15 DEF AuditCancelled
<1>16. CASE CloseDirect(s)
  BY <1>16 DEF CloseDirect
<1>17. CASE PostCheck(s)
  BY <1>17 DEF PostCheck
<1>18. CASE PostAudit(s)
  BY <1>18 DEF PostAudit
<1>19. CASE PostCommit(s)
  <2>1. audit = s
    BY <1>19 DEF PostCommit
  <2>2. ASSUME NEW t \in Session, t # s
        PROVE  /\ pc'[t] \notin Phases \ {"begun", "phase1", "phase2"}
               /\ wcert'[t] = {}
    BY <2>1, <2>2, <1>19 DEF PostCommit
  <2>3. pc'[s] = "idle" /\ wcert'[s] = {}
    BY <1>19 DEF PostCommit
  <2> QED
    BY <2>2, <2>3
<1>20. CASE Commit(s)
  BY <1>20 DEF Commit
<1>21. CASE Rollback(s)
  BY <1>21 DEF Rollback
<1> QED
  BY <1>1, <1>2, <1>3, <1>4, <1>5, <1>6, <1>7, <1>8, <1>9, <1>10, <1>11,
     <1>12, <1>13, <1>14, <1>15, <1>16, <1>17, <1>18, <1>19, <1>20, <1>21
  DEF Step

\* The inductive invariant of the locks, the subledgers and the ledger.
THEOREM CloseInductive ==
    Spec => []CloseInv
<1>1. ASSUME IInv, CloseInv, [Next]_vars PROVE CloseInv'
  <2>1. CASE Next
    BY <1>1, <2>1, StepHold, StepSubledger, StepLedger DEF Next, CloseInv
  <2>2. CASE UNCHANGED vars
    BY <1>1, <2>2
    DEF vars, db, tx, CloseInv, HoldInv, SubledgerInv, LedgerInv
  <2> QED
    BY <1>1, <2>1, <2>2
<1> QED
  BY <1>1, InitClose, Inductive, PTL DEF Spec

\* R25: the row lock of begin_closing admits one run of close_period_full at
\* a time.
THEOREM OneCloseAtATime ==
    Spec => []ExclusiveClose
<1>1. CloseInv => ExclusiveClose
  BY DEF CloseInv, HoldInv, ExclusiveClose
<1> QED
  BY <1>1, CloseInductive, PTL

\* The period of a committed certificate is closed, the certificate is that
\* of an ordinary close, and the subledgers it lists, none, are those that
\* are committed as closed, with subledger contracts in the pack or without.
THEOREM CertificateIsTrue ==
    Spec => []CertificateTrue
<1>1. IInv /\ CloseInv => CertificateTrue
  BY DEF IInv, TypeOK, CertInv, CloseInv, SubledgerInv, CertificateTrue
<1> QED
  BY <1>1, Inductive, CloseInductive, PTL

\* R24: a certificate is committed over the ledger it verified and hashed,
\* because its run holds the audit counter row.
THEOREM CertificateIsCurrent ==
    Spec => CertificateCurrent
<1>1. ASSUME IInv, CloseInv, [Next]_vars
      PROVE  [\A c \in certs' \ certs :
                c.verified = entries' /\ c.hashed = entries']_certs
  <2> SUFFICES ASSUME certs' # certs, NEW c \in certs' \ certs
               PROVE  c.verified = entries' /\ c.hashed = entries'
    OBVIOUS
  <2>1. PICK s \in Session : Step(s)
    BY <1>1 DEF Next, vars, db
  <2>2. Commit(s)
    BY <2>1
    DEF Step, CloseFull, BeginClosing, AuditBegun, Phase1Skipped, Phase1, Phase2,
        Phase4Skipped, Phase4Raises, Phase5, Phase6, HashLedger, Certify, Cancel,
        CancelClosing, AuditCancelled, CloseDirect, PostCheck, PostAudit,
        PostCommit, Rollback, db
  <2>3. certs' = certs \cup wcert[s] /\ entries' = entries
    BY <2>2 DEF Commit, Publish
  <2>4. c \in wcert[s]
    BY <2>3
  <2> QED
    BY <2>3, <2>4, <1>1 DEF CloseInv, LedgerInv
<1> QED
  BY <1>1, Inductive, CloseInductive, PTL DEF Spec, CertificateCurrent
=============================================================================
