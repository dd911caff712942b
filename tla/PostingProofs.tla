--------------------------- MODULE PostingProofs ---------------------------
(***************************************************************************)
(* Proofs about Posting, for every set of sessions, events, payloads,      *)
(* ledgers and periods, and for both values of auto_commit.                *)
(***************************************************************************)
EXTENDS Posting, FiniteSetTheorems, FunctionTheorems, TLAPS

-----------------------------------------------------------------------------
(* The inductive invariant.  A session's part speaks of its own            *)
(* transaction, of the locks it holds and of the committed rows.           *)

PostLabels == {"period", "ingest", "insert", "audit_ingested", "audit_rejected",
               "interpret", "write", "outcome", "failed"}

\* The running call has inserted its event and recorded no outcome yet.
Fresh(s) == pc[s] \in {"audit_ingested", "interpret", "write", "outcome"}

\* A reversal that has passed _load_and_validate.
Reversing(s) ==
    \/ pc[s] \in {"rev_period", "rev_write", "rev_audit"}
    \/ pc[s] = "ok" /\ req[s].op = "reverse"

\* A reversal that has written its entry, and a posting that writes or wrote.
Reversed(s) == pc[s] = "rev_audit" \/ (pc[s] = "ok" /\ req[s].op = "reverse")
Posts(s) == pc[s] \in {"write", "outcome"} \/ (pc[s] = "ok" /\ req[s].op = "post")

PostedRow(e) == [event |-> e, status |-> "POSTED"]

OpOK(s) ==
    /\ pc[s] \in PostLabels => req[s].op = "post"
    /\ pc[s] \in {"rev_lock", "rev_period", "rev_write", "rev_audit"} => req[s].op = "reverse"
    /\ pc[s] = "close" => req[s].op = "close"
    /\ pc[s] = "ok" => req[s].op # "none"

\* The ids of uncommitted event rows are locked and new.
EventsOK(s) ==
    /\ \A v \in tx[s].events :
         /\ holder[EventId(v.id)] = s
         /\ \A w \in events : w.id # v.id
         /\ \A w \in tx[s].events : w.id = v.id => w = v
    /\ pc[s] = "insert" => \A v \in tx[s].events : v.id # req[s].event
    /\ Fresh(s) => \E v \in tx[s].events : v.id = req[s].event

\* An uncommitted outcome belongs to an uncommitted event, and POSTED to the
\* entries of the running call.
OutcomesOK(s) ==
    /\ \A o \in tx[s].outcomes :
         /\ \E v \in tx[s].events : v.id = o.event
         /\ \A q \in tx[s].outcomes : o.event = q.event => o = q
         /\ o.status = "POSTED" => /\ pc[s] = "ok" /\ req[s].op = "post"
                                   /\ o.event = req[s].event /\ tx[s].entries # {}
    /\ Fresh(s) => \A o \in tx[s].outcomes : o.event # req[s].event

\* What is in the journal part of the transaction, by what the call has done.
EntriesOK(s) ==
    /\ tx[s].entries # {} => /\ pc[s] \in {"write", "outcome", "rev_audit", "ok"}
                             /\ holder[Journal] = s
    /\ Posts(s) => \A r \in tx[s].entries :
         /\ r.event = req[s].event /\ r.period = req[s].period /\ r.of = 0
         /\ \A q \in tx[s].entries : r.ledger = q.ledger => r = q
    /\ pc[s] = "outcome" => tx[s].entries # {} /\ Written(s) = Ledger
    /\ pc[s] = "ok" /\ req[s].op = "post" /\ tx[s].entries # {} =>
         /\ Written(s) = Ledger
         /\ PostedRow(req[s].event) \in tx[s].outcomes
         /\ \E v \in tx[s].events : v.id = req[s].event
    /\ pc[s] = "ok" /\ req[s].op = "close" => tx[s].entries = {}
    /\ Reversed(s) => \E r \in journal :
         /\ r.seq = req[s].of
         /\ tx[s].entries = {Entry(jcount + 1, None, r.ledger, req[s].period, r.seq)}

\* The original stays locked and unreversed.
ReversalOK(s) ==
    Reversing(s) => /\ holder[EntryRow(req[s].of)] = s
                    /\ \A r \in journal : r.of # req[s].of

\* The uncommitted entries are numbered behind the committed ones.
NumbersOK(s) ==
    holder[Journal] = s =>
        /\ jval[s] >= jcount
        /\ \A r \in tx[s].entries : r.seq \in (jcount + 1) .. jval[s]
        /\ \A i \in (jcount + 1) .. jval[s] : \E r \in tx[s].entries : r.seq = i
        /\ \A r, q \in tx[s].entries : r.seq = q.seq => r = q

\* Where the caller owns the commit nothing outlives a call.
OwnedOK(s) ==
    ~auto =>
        /\ pc[s] \notin {"audit_ingested", "interpret", "write", "outcome", "failed", "ok"} =>
             tx[s].events = {} /\ tx[s].outcomes = {}
        /\ Fresh(s) => tx[s].outcomes = {} /\ \A v \in tx[s].events : v.id = req[s].event
        /\ pc[s] = "ok" /\ req[s].op # "post" => tx[s].events = {} /\ tx[s].outcomes = {}
        /\ pc[s] = "ok" /\ req[s].op = "post" =>
             /\ \A v \in tx[s].events : v.id = req[s].event
             /\ \/ PostedRow(req[s].event) \in tx[s].outcomes
                \/ tx[s].events = {} /\ \E v \in events : v.id = req[s].event

SessionOK(s) ==
    /\ OpOK(s) /\ EventsOK(s) /\ OutcomesOK(s) /\ EntriesOK(s)
    /\ ReversalOK(s) /\ NumbersOK(s) /\ OwnedOK(s)

\* The committed rows.
RowsOK ==
    /\ \A v, w \in events : v.id = w.id => v = w
    /\ \A o \in outcomes : \E v \in events : v.id = o.event
    /\ \A o, q \in outcomes : o.event = q.event => o = q
    /\ \A r, q \in journal : r.of = q.of /\ r.of # 0 => r = q
    /\ ~auto => \A v \in events : IsPosted(v.id)
    /\ ~auto => \A a \in acked : IsPosted(a.event)

NumberedOK ==
    /\ \A r \in journal : r.seq \in 1 .. jcount
    /\ \A i \in 1 .. jcount : \E r \in journal : r.seq = i
    /\ \A r, q \in journal : r.seq = q.seq => r = q

IInv ==
    /\ TypeOK
    /\ RowsOK
    /\ NumberedOK
    /\ PostedAtomically
    /\ \A s \in Session : SessionOK(s)

-----------------------------------------------------------------------------
(* Facts about the data. *)

LEMMA ResourceFacts ==
    /\ Audit \in Resource /\ Journal \in Resource /\ Audit # Journal
    /\ \A e \in Event : EventId(e) \in Resource /\ EventId(e) # Journal
    /\ \A n \in 1 .. MaxReversible : EntryRow(n) \in Resource /\ EntryRow(n) # Journal
    /\ \A p \in Period : PeriodRow(p) \in Resource /\ PeriodRow(p) # Journal
<1>1. Audit # Journal
  BY DEF Audit, Journal
<1>2. \A e : EventId(e) # Journal
  BY DEF EventId, Journal
<1>3. \A n : EntryRow(n) # Journal
  BY DEF EntryRow, Journal
<1>4. \A p : PeriodRow(p) # Journal
  BY DEF PeriodRow, Journal
<1> QED
  BY <1>1, <1>2, <1>3, <1>4 DEF Resource

LEMMA RequestFacts ==
    ASSUME NEW q \in Requests
    PROVE  /\ q.op \in {"none", "post", "reverse", "close"}
           /\ q.op = "post" => q.event \in Event /\ q.payload \in Payload /\ q.period \in Period
           /\ q.op = "reverse" => q.of \in 1 .. MaxReversible /\ q.period \in Period
           /\ q.op = "close" => q.period \in Period
BY DEF Requests, Idle, Post, Reversal, Close

LEMMA CallFacts ==
    /\ Idle \in Requests /\ Idle.op = "none"
    /\ \A e \in Event, d \in Payload, p \in Period :
         Post(e, d, p) \in Requests /\ Post(e, d, p).op = "post"
    /\ \A n \in 1 .. MaxReversible, p \in Period :
         Reversal(n, p) \in Requests /\ Reversal(n, p).op = "reverse"
    /\ \A p \in Period : Close(p) \in Requests /\ Close(p).op = "close"
<1>1. Idle \in Requests /\ Idle.op = "none"
  BY DEF Requests, Idle
<1>2. ASSUME NEW e \in Event, NEW d \in Payload, NEW p \in Period
      PROVE  Post(e, d, p) \in Requests /\ Post(e, d, p).op = "post"
  <2>1. Post(e, d, p) \in {Post(f, c, q) : f \in Event, c \in Payload, q \in Period}
    OBVIOUS
  <2> QED
    BY <2>1 DEF Requests, Post
<1>3. ASSUME NEW n \in 1 .. MaxReversible, NEW p \in Period
      PROVE  Reversal(n, p) \in Requests /\ Reversal(n, p).op = "reverse"
  <2>1. Reversal(n, p) \in {Reversal(m, q) : m \in 1 .. MaxReversible, q \in Period}
    OBVIOUS
  <2> QED
    BY <2>1 DEF Requests, Reversal
<1>4. \A p \in Period : Close(p) \in Requests /\ Close(p).op = "close"
  BY DEF Requests, Close
<1> QED
  BY <1>1, <1>2, <1>3, <1>4

LEMMA NoRowsFacts ==
    /\ NoRows \in TxRows
    /\ NoRows.events = {} /\ NoRows.entries = {} /\ NoRows.outcomes = {} /\ NoRows.closed = {}
BY DEF NoRows, TxRows

LEMMA EntryFacts ==
    ASSUME NEW n \in Nat, NEW e \in Event \cup {None}, NEW l \in Ledger,
           NEW p \in Period, NEW of \in Nat
    PROVE  /\ Entry(n, e, l, p, of) \in EntryRows
           /\ Entry(n, e, l, p, of).seq = n /\ Entry(n, e, l, p, of).event = e
           /\ Entry(n, e, l, p, of).ledger = l /\ Entry(n, e, l, p, of).period = p
           /\ Entry(n, e, l, p, of).of = of
BY DEF Entry, EntryRows

-----------------------------------------------------------------------------
(* A step of s and the other sessions. *)

\* Nothing of session t changes.
Kept(t) ==
    /\ tx'[t] = tx[t] /\ pc'[t] = pc[t] /\ req'[t] = req[t] /\ jval'[t] = jval[t]
    /\ \A x \in Resource : holder'[x] = t <=> holder[x] = t

LEMMA LockFacts ==
    ASSUME TypeOK, NEW s \in Session, NEW r \in Resource, Free(s, r), Lock(s, r)
    PROVE  /\ holder' \in [Resource -> Session \cup {None}]
           /\ holder'[r] = s
           /\ \A x \in Resource : holder[x] = s => holder'[x] = s
           /\ \A x \in Resource : x # r => holder'[x] = holder[x]
           /\ \A t \in Session \ {s} : \A x \in Resource : holder'[x] = t <=> holder[x] = t
<1>1. holder \in [Resource -> Session \cup {None}] /\ None \notin Session
  BY NoneAssumption DEF TypeOK
<1> QED
  BY <1>1 DEF Free, Lock

LEMMA DiscardFacts ==
    ASSUME TypeOK, NEW s \in Session, Discard(s)
    PROVE  /\ tx' \in [Session -> TxRows] /\ tx'[s] = NoRows
           /\ jval' \in [Session -> Nat]
           /\ holder' \in [Resource -> Session \cup {None}]
           /\ \A x \in Resource : holder'[x] # s
           /\ \A t \in Session \ {s} :
                /\ tx'[t] = tx[t] /\ jval'[t] = jval[t]
                /\ \A x \in Resource : holder'[x] = t <=> holder[x] = t
<1>1. /\ holder \in [Resource -> Session \cup {None}] /\ None \notin Session
      /\ tx \in [Session -> TxRows] /\ jval \in [Session -> Nat]
  BY NoneAssumption DEF TypeOK
<1> QED
  BY <1>1, NoRowsFacts DEF Discard

LEMMA OthersStep ==
    ASSUME TypeOK, NEW t \in Session, SessionOK(t), Kept(t), UNCHANGED <<db, auto>>
    PROVE  SessionOK(t)'
<1>0. /\ UNCHANGED <<status, events, journal, outcomes, jcount, acked, auto>>
      /\ tx'[t] = tx[t] /\ pc'[t] = pc[t] /\ req'[t] = req[t] /\ jval'[t] = jval[t]
      /\ \A x \in Resource : holder'[x] = t <=> holder[x] = t
  BY DEF Kept, db
<1>t. /\ tx[t] \in TxRows /\ req[t] \in Requests
  BY DEF TypeOK
<1>1. OpOK(t)'
  BY <1>0 DEF SessionOK, OpOK
<1>2. EventsOK(t)'
  <2>1. \A v \in tx[t].events : EventId(v.id) \in Resource
    BY <1>t, ResourceFacts DEF TxRows, EventRows
  <2> QED
    BY <1>0, <2>1 DEF SessionOK, EventsOK, Fresh
<1>3. OutcomesOK(t)'
  BY <1>0 DEF SessionOK, OutcomesOK, Fresh
<1>4. EntriesOK(t)'
  BY <1>0, ResourceFacts DEF SessionOK, EntriesOK, Posts, Reversed, Written, PostedRow
<1>5. ReversalOK(t)'
  <2>1. Reversing(t) => EntryRow(req[t].of) \in Resource
    BY <1>t, RequestFacts, ResourceFacts DEF SessionOK, OpOK, Reversing
  <2> QED
    BY <1>0, <2>1 DEF SessionOK, ReversalOK, Reversing
<1>6. NumbersOK(t)'
  BY <1>0, ResourceFacts DEF SessionOK, NumbersOK
<1>7. OwnedOK(t)'
  BY <1>0 DEF SessionOK, OwnedOK, Fresh, PostedRow
<1> QED
  BY <1>1, <1>2, <1>3, <1>4, <1>5, <1>6, <1>7 DEF SessionOK

\* A step of s that commits nothing preserves the invariant when it leaves
\* the other sessions alone and its own part in order.
LEMMA OwnStep ==
    ASSUME IInv, NEW s \in Session, TypeOK', SessionOK(s)', UNCHANGED <<db, auto>>,
           \A t \in Session \ {s} : Kept(t)
    PROVE  IInv'
<1>0. UNCHANGED <<status, events, journal, outcomes, jcount, acked, auto>>
  BY DEF db
<1>1. RowsOK' /\ NumberedOK' /\ PostedAtomically'
  BY <1>0 DEF IInv, RowsOK, NumberedOK, PostedAtomically, IsPosted, RowsOf
<1>2. \A t \in Session : SessionOK(t)'
  BY OthersStep DEF IInv
<1> QED
  BY <1>1, <1>2 DEF IInv

-----------------------------------------------------------------------------
(* Steps that move on to the next statement and write no row. *)

\* The conditions under which session s may go to the label to.
Moves(s, to) ==
    \/ pc[s] = "period" /\ to \in {"ingest", "failed"}
    \/ pc[s] = "ingest" /\ to = "audit_rejected"
    \/ pc[s] = "ingest" /\ to = "ok" /\ \E v \in Events(s) : v.id = req[s].event
    \/ pc[s] = "ingest" /\ to = "insert" /\ \A v \in Events(s) : v.id # req[s].event
    \/ pc[s] = "audit_ingested" /\ to = "interpret"
    \/ pc[s] = "audit_rejected" /\ to = "failed"
    \/ pc[s] = "interpret" /\ to \in {"failed", "write"}
    \/ pc[s] = "rev_lock" /\ to = "raise"
    \/ /\ pc[s] = "rev_lock" /\ to = "rev_period"
       /\ holder'[EntryRow(req[s].of)] = s
       /\ \A r \in journal : r.of # req[s].of
    \/ pc[s] = "rev_period" /\ to \in {"rev_write", "raise"}
    \/ pc[s] = "rev_audit" /\ to = "ok"
    \/ pc[s] = "close" /\ to = "raise"

LEMMA MoveStep ==
    ASSUME IInv, NEW s \in Session, NEW to, Moves(s, to), Goto(s, to),
           UNCHANGED <<db, req, tx, jval, auto>>,
           holder' \in [Resource -> Session \cup {None}],
           holder'[Journal] = holder[Journal],
           \A x \in Resource : holder[x] = s => holder'[x] = s,
           \A t \in Session \ {s} : \A x \in Resource : holder'[x] = t <=> holder[x] = t
    PROVE  IInv'
<1>0. /\ UNCHANGED <<status, events, journal, outcomes, jcount, acked, auto, req, tx, jval>>
      /\ pc'[s] = to /\ to \in Labels /\ pc' \in [Session -> Labels]
      /\ \A t \in Session \ {s} : pc'[t] = pc[t]
  BY DEF db, IInv, TypeOK, Goto, Moves, Labels
<1>1. TypeOK'
  BY <1>0 DEF IInv, TypeOK
<1>2. \A t \in Session \ {s} : Kept(t)
  BY <1>0 DEF Kept
<1>t. tx[s] \in TxRows /\ req[s] \in Requests /\ SessionOK(s)
  BY DEF IInv, TypeOK
<1>3. SessionOK(s)'
  <2>1. OpOK(s)'
    BY <1>0, <1>t DEF Moves, SessionOK, OpOK, PostLabels
  <2>2. EventsOK(s)'
    <3>1. \A v \in tx[s].events : EventId(v.id) \in Resource
      BY <1>t, ResourceFacts DEF TxRows, EventRows
    <3>2. pc'[s] = "insert" => \A v \in tx[s].events : v.id # req[s].event
      BY <1>0 DEF Moves, Events
    <3>3. Fresh(s)' => Fresh(s)
      BY <1>0 DEF Moves, Fresh
    <3> QED
      BY <1>0, <1>t, <3>1, <3>2, <3>3 DEF SessionOK, EventsOK
  <2>3. OutcomesOK(s)'
    <3>1. (Fresh(s)' => Fresh(s)) /\ pc[s] # "ok"
      BY <1>0 DEF Moves, Fresh
    <3> QED
      BY <1>0, <1>t, <3>1 DEF SessionOK, OutcomesOK
  <2>4. EntriesOK(s)'
    <3>1. pc[s] \notin {"rev_audit", "write", "outcome", "ok"} => tx[s].entries = {}
      BY <1>t DEF SessionOK, EntriesOK
    <3>2. pc[s] = "rev_audit" <=> Reversed(s)'
      BY <1>0, <1>t DEF Moves, Reversed, SessionOK, OpOK, PostLabels
    <3>3. CASE pc[s] = "rev_audit"
      BY <1>0, <1>t, <3>2, <3>3 DEF Moves, SessionOK, EntriesOK, Posts, Reversed, OpOK
    <3>4. CASE pc[s] # "rev_audit"
      <4>1. tx[s].entries = {} /\ pc'[s] # "outcome"
        BY <1>0, <3>1, <3>4 DEF Moves
      <4> QED
        BY <1>0, <3>2, <3>4, <4>1 DEF EntriesOK
    <3> QED
      BY <3>3, <3>4
  <2>5. ReversalOK(s)'
    <3>1. Reversing(s)' => req[s].op = "reverse"
      BY <1>0, <1>t DEF Moves, Reversing, SessionOK, OpOK
    <3>2. Reversing(s)' => EntryRow(req[s].of) \in Resource
      BY <1>t, <3>1, RequestFacts, ResourceFacts
    <3>3. Reversing(s)' /\ pc[s] # "rev_lock" => Reversing(s)
      BY <1>0, <1>t DEF Moves, Reversing, SessionOK, OpOK, PostLabels
    <3>4. CASE pc[s] # "rev_lock"
      BY <1>0, <1>t, <3>2, <3>3, <3>4 DEF SessionOK, ReversalOK
    <3>5. CASE pc[s] = "rev_lock"
      BY <1>0, <3>5 DEF Moves, ReversalOK, Reversing
    <3> QED
      BY <3>4, <3>5
  <2>6. NumbersOK(s)'
    BY <1>0, <1>t DEF SessionOK, NumbersOK
  <2>7. OwnedOK(s)'
    <3> SUFFICES ASSUME ~auto PROVE OwnedOK(s)'
      BY <1>0 DEF OwnedOK
    <3>1. CASE to = "ok" /\ pc[s] = "ingest"
      BY <1>0, <1>t, <3>1 DEF Moves, Events, OwnedOK, SessionOK, OpOK, PostLabels, Fresh
    <3>2. CASE to = "ok" /\ pc[s] = "rev_audit"
      BY <1>0, <1>t, <3>2 DEF OwnedOK, SessionOK, OpOK, Fresh
    <3>3. CASE to # "ok"
      BY <1>0, <1>t, <3>3 DEF Moves, OwnedOK, SessionOK, Fresh
    <3> QED
      BY <3>1, <3>2, <3>3 DEF Moves
  <2> QED
    BY <2>1, <2>2, <2>3, <2>4, <2>5, <2>6, <2>7 DEF SessionOK
<1> QED
  BY <1>0, <1>1, <1>2, <1>3, OwnStep

\* The moves that take no lock.
LEMMA PlainMoves ==
    ASSUME IInv, NEW s \in Session, UNCHANGED auto,
           \/ PeriodOpen(s) \/ PostRefused(s) \/ IngestInvalid(s) \/ IngestMismatch(s)
           \/ IngestDuplicate(s) \/ IngestNew(s) \/ InterpretFails(s) \/ Interpreted(s)
           \/ OriginalMissing(s) \/ CheckReversalPeriod(s)
    PROVE  IInv'
<1>1. /\ UNCHANGED <<db, holder, req, tx, jval, auto>>
      /\ \E to \in Labels : Moves(s, to) /\ Goto(s, to)
  BY DEF PeriodOpen, PostRefused, IngestInvalid, IngestMismatch, IngestDuplicate, IngestNew,
         InterpretFails, Interpreted, OriginalMissing, CheckReversalPeriod, Moves, Labels
<1>2. PICK to \in Labels : Moves(s, to) /\ Goto(s, to)
  BY <1>1
<1>3. holder' = holder /\ holder \in [Resource -> Session \cup {None}]
  BY <1>1 DEF IInv, TypeOK
<1> QED
  BY <1>1, <1>2, <1>3, MoveStep

\* The moves that take one.
LEMMA LockMoves ==
    ASSUME IInv, NEW s \in Session, UNCHANGED auto,
           AuditIngested(s) \/ AuditRejected(s) \/ LockOriginal(s) \/ AuditReversal(s)
    PROVE  IInv'
<1>0. TypeOK /\ SessionOK(s) /\ req[s] \in Requests
  BY DEF IInv, TypeOK
<1>1. CASE AuditIngested(s) \/ AuditRejected(s) \/ AuditReversal(s)
  <2>1. /\ Free(s, Audit) /\ Lock(s, Audit)
        /\ UNCHANGED <<db, req, tx, jval, auto>>
        /\ \E to \in Labels : Moves(s, to) /\ Goto(s, to)
    BY <1>1 DEF AuditIngested, AuditRejected, AuditReversal, Moves, Labels
  <2>2. PICK to \in Labels : Moves(s, to) /\ Goto(s, to)
    BY <2>1
  <2> QED
    BY <1>0, <2>1, <2>2, LockFacts, ResourceFacts, MoveStep
<1>2. CASE LockOriginal(s)
  <2> DEFINE row == EntryRow(req[s].of)
  <2>1. row \in Resource /\ row # Journal
    BY <1>0, <1>2, RequestFacts, ResourceFacts DEF LockOriginal, SessionOK, OpOK
  <2>2. /\ Free(s, row) /\ Lock(s, row)
        /\ UNCHANGED <<db, req, tx, jval, auto>>
    BY <1>2 DEF LockOriginal
  <2>3. holder'[row] = s
    BY <1>0, <2>1, <2>2, LockFacts
  <2>4. \E to \in Labels : Moves(s, to) /\ Goto(s, to)
    BY <1>2, <2>3 DEF LockOriginal, Moves, Labels, Entries
  <2>5. PICK to \in Labels : Moves(s, to) /\ Goto(s, to)
    BY <2>4
  <2> HIDE DEF row
  <2> QED
    BY <1>0, <2>1, <2>2, <2>5, LockFacts, ResourceFacts, MoveStep
<1> QED
  BY <1>1, <1>2

-----------------------------------------------------------------------------
(* Steps that write a row. *)

LEMMA AddedEvent ==
    ASSUME TypeOK, NEW s \in Session, NEW v \in EventRows,
           tx' = [tx EXCEPT ![s].events = @ \cup {v}]
    PROVE  /\ tx' \in [Session -> TxRows]
           /\ tx'[s].events = tx[s].events \cup {v}
           /\ tx'[s].entries = tx[s].entries /\ tx'[s].outcomes = tx[s].outcomes
           /\ tx'[s].closed = tx[s].closed
           /\ \A t \in Session \ {s} : tx'[t] = tx[t]
<1>1. tx \in [Session -> TxRows] /\ tx[s] \in TxRows
  BY DEF TypeOK
<1> DEFINE row == [tx[s] EXCEPT !.events = @ \cup {v}]
<1>2. tx' = [tx EXCEPT ![s] = row]
  BY <1>1
<1>3. /\ row \in TxRows /\ row.events = tx[s].events \cup {v}
      /\ row.entries = tx[s].entries /\ row.outcomes = tx[s].outcomes
      /\ row.closed = tx[s].closed
  BY <1>1 DEF TxRows
<1> HIDE DEF row
<1> QED
  BY <1>1, <1>2, <1>3

LEMMA AddedEntry ==
    ASSUME TypeOK, NEW s \in Session, NEW v \in EntryRows,
           tx' = [tx EXCEPT ![s].entries = @ \cup {v}]
    PROVE  /\ tx' \in [Session -> TxRows]
           /\ tx'[s].entries = tx[s].entries \cup {v}
           /\ tx'[s].events = tx[s].events /\ tx'[s].outcomes = tx[s].outcomes
           /\ tx'[s].closed = tx[s].closed
           /\ \A t \in Session \ {s} : tx'[t] = tx[t]
<1>1. tx \in [Session -> TxRows] /\ tx[s] \in TxRows
  BY DEF TypeOK
<1> DEFINE row == [tx[s] EXCEPT !.entries = @ \cup {v}]
<1>2. tx' = [tx EXCEPT ![s] = row]
  BY <1>1
<1>3. /\ row \in TxRows /\ row.entries = tx[s].entries \cup {v}
      /\ row.events = tx[s].events /\ row.outcomes = tx[s].outcomes
      /\ row.closed = tx[s].closed
  BY <1>1 DEF TxRows
<1> HIDE DEF row
<1> QED
  BY <1>1, <1>2, <1>3

LEMMA AddedOutcome ==
    ASSUME TypeOK, NEW s \in Session, NEW v \in OutcomeRows,
           tx' = [tx EXCEPT ![s].outcomes = @ \cup {v}]
    PROVE  /\ tx' \in [Session -> TxRows]
           /\ tx'[s].outcomes = tx[s].outcomes \cup {v}
           /\ tx'[s].events = tx[s].events /\ tx'[s].entries = tx[s].entries
           /\ tx'[s].closed = tx[s].closed
           /\ \A t \in Session \ {s} : tx'[t] = tx[t]
<1>1. tx \in [Session -> TxRows] /\ tx[s] \in TxRows
  BY DEF TypeOK
<1> DEFINE row == [tx[s] EXCEPT !.outcomes = @ \cup {v}]
<1>2. tx' = [tx EXCEPT ![s] = row]
  BY <1>1
<1>3. /\ row \in TxRows /\ row.outcomes = tx[s].outcomes \cup {v}
      /\ row.events = tx[s].events /\ row.entries = tx[s].entries
      /\ row.closed = tx[s].closed
  BY <1>1 DEF TxRows
<1> HIDE DEF row
<1> QED
  BY <1>1, <1>2, <1>3

LEMMA InsertEventStep ==
    ASSUME IInv, NEW s \in Session, InsertEvent(s), UNCHANGED auto
    PROVE  IInv'
<1> DEFINE new == [id |-> req[s].event, payload |-> req[s].payload]
<1>t. TypeOK /\ tx[s] \in TxRows /\ req[s] \in Requests /\ SessionOK(s)
  BY DEF IInv, TypeOK
<1>r. /\ pc[s] = "insert" /\ req[s].op = "post"
      /\ req[s].event \in Event /\ req[s].payload \in Payload
  BY <1>t, RequestFacts DEF InsertEvent, SessionOK, OpOK, PostLabels
<1>0. /\ UNCHANGED <<status, events, journal, outcomes, jcount, acked, auto, req, jval>>
      /\ pc'[s] = "audit_ingested" /\ pc' \in [Session -> Labels]
      /\ \A t \in Session \ {s} : pc'[t] = pc[t] /\ tx'[t] = tx[t]
      /\ Free(s, EventId(req[s].event)) /\ Lock(s, EventId(req[s].event))
      /\ \A v \in events : v.id # req[s].event
  BY <1>t DEF InsertEvent, db, TypeOK, Goto, Labels
<1>1. /\ tx'[s].events = tx[s].events \cup {new} /\ tx'[s].entries = tx[s].entries
      /\ tx'[s].outcomes = tx[s].outcomes /\ tx' \in [Session -> TxRows]
  <2>1. new \in EventRows
    BY <1>r DEF EventRows
  <2> QED
    BY <1>t, <2>1, AddedEvent DEF InsertEvent
<1>2. /\ holder' \in [Resource -> Session \cup {None}] /\ holder'[Journal] = holder[Journal]
      /\ holder'[EventId(req[s].event)] = s
      /\ \A x \in Resource : holder[x] = s => holder'[x] = s
      /\ \A t \in Session \ {s} : \A x \in Resource : holder'[x] = t <=> holder[x] = t
  BY <1>t, <1>r, <1>0, ResourceFacts, LockFacts
<1>3. TypeOK'
  BY <1>t, <1>0, <1>1, <1>2 DEF TypeOK
<1>4. \A t \in Session \ {s} : Kept(t)
  BY <1>0, <1>2 DEF Kept
<1>5. tx[s].entries = {} /\ tx'[s].entries = {}
  BY <1>t, <1>r, <1>1 DEF SessionOK, EntriesOK
<1>6. SessionOK(s)'
  <2>1. OpOK(s)'
    BY <1>0, <1>r DEF OpOK, PostLabels
  <2>2. EventsOK(s)'
    <3>1. \A v \in tx[s].events : EventId(v.id) \in Resource /\ v.id # req[s].event
      BY <1>t, <1>r, ResourceFacts DEF TxRows, EventRows, SessionOK, EventsOK
    <3>2. new.id = req[s].event
      OBVIOUS
    <3> HIDE DEF new
    <3> QED
      BY <1>0, <1>1, <1>2, <1>t, <3>1, <3>2 DEF SessionOK, EventsOK
  <2>3. OutcomesOK(s)'
    BY <1>0, <1>1, <1>r, <1>t DEF SessionOK, OutcomesOK, EventsOK
  <2>4. EntriesOK(s)' /\ ReversalOK(s)' /\ NumbersOK(s)'
    BY <1>0, <1>2, <1>5, <1>t
       DEF SessionOK, EntriesOK, ReversalOK, NumbersOK, Posts, Reversed, Reversing
  <2>5. OwnedOK(s)'
    BY <1>0, <1>1, <1>r, <1>t DEF SessionOK, OwnedOK, Fresh
  <2> QED
    BY <2>1, <2>2, <2>3, <2>4, <2>5 DEF SessionOK
<1> QED
  BY <1>0, <1>3, <1>4, <1>6, OwnStep DEF db

LEMMA WriteFailsStep ==
    ASSUME IInv, NEW s \in Session, NEW o \in {"BLOCKED", "REJECTED"}, WriteFails(s, o),
           UNCHANGED auto
    PROVE  IInv'
<1> DEFINE new == [event |-> req[s].event, status |-> o]
<1>t. TypeOK /\ tx[s] \in TxRows /\ req[s] \in Requests /\ SessionOK(s)
  BY DEF IInv, TypeOK
<1>r. /\ pc[s] = "interpret" /\ req[s].op = "post" /\ req[s].event \in Event
  BY <1>t, RequestFacts DEF WriteFails, SessionOK, OpOK, PostLabels
<1>0. /\ UNCHANGED <<status, events, journal, outcomes, jcount, acked, auto, req, jval, holder>>
      /\ pc'[s] = "failed" /\ pc' \in [Session -> Labels]
      /\ \A t \in Session \ {s} : pc'[t] = pc[t] /\ tx'[t] = tx[t]
  BY <1>t DEF WriteFails, db, TypeOK, Goto, Labels
<1>1. /\ tx'[s].events = tx[s].events /\ tx'[s].entries = tx[s].entries
      /\ tx'[s].outcomes = tx[s].outcomes \cup {new} /\ tx' \in [Session -> TxRows]
  <2>1. new \in OutcomeRows
    BY <1>r DEF OutcomeRows
  <2> QED
    BY <1>t, <2>1, AddedOutcome DEF WriteFails
<1>2. new.event = req[s].event /\ new.status # "POSTED"
  OBVIOUS
<1> HIDE DEF new
<1>3. TypeOK'
  BY <1>t, <1>0, <1>1 DEF TypeOK
<1>4. \A t \in Session \ {s} : Kept(t)
  BY <1>0 DEF Kept
<1>5. tx[s].entries = {} /\ tx'[s].entries = {}
  BY <1>t, <1>r, <1>1 DEF SessionOK, EntriesOK
<1>6. SessionOK(s)'
  <2>1. OpOK(s)' /\ EventsOK(s)'
    BY <1>0, <1>1, <1>r, <1>t DEF SessionOK, OpOK, PostLabels, EventsOK, Fresh
  <2>2. OutcomesOK(s)'
    BY <1>0, <1>1, <1>2, <1>r, <1>t DEF SessionOK, OutcomesOK, EventsOK, Fresh
  <2>3. EntriesOK(s)' /\ ReversalOK(s)' /\ NumbersOK(s)'
    BY <1>0, <1>5, <1>t
       DEF SessionOK, EntriesOK, ReversalOK, NumbersOK, Posts, Reversed, Reversing
  <2>4. OwnedOK(s)'
    BY <1>0, <1>1, <1>r, <1>t DEF SessionOK, OwnedOK, Fresh
  <2> QED
    BY <2>1, <2>2, <2>3, <2>4 DEF SessionOK
<1> QED
  BY <1>0, <1>3, <1>4, <1>6, OwnStep DEF db

LEMMA RecordPostedStep ==
    ASSUME IInv, NEW s \in Session, RecordPosted(s), UNCHANGED auto
    PROVE  IInv'
<1> DEFINE new == PostedRow(req[s].event)
<1>t. TypeOK /\ tx[s] \in TxRows /\ req[s] \in Requests /\ SessionOK(s)
  BY DEF IInv, TypeOK
<1>r. /\ pc[s] = "outcome" /\ req[s].op = "post" /\ req[s].event \in Event
  BY <1>t, RequestFacts DEF RecordPosted, SessionOK, OpOK, PostLabels
<1>0. /\ UNCHANGED <<status, events, journal, outcomes, jcount, acked, auto, req, jval, holder>>
      /\ pc'[s] = "ok" /\ pc' \in [Session -> Labels]
      /\ \A t \in Session \ {s} : pc'[t] = pc[t] /\ tx'[t] = tx[t]
  BY <1>t DEF RecordPosted, db, TypeOK, Goto, Labels
<1>1. /\ tx'[s].events = tx[s].events /\ tx'[s].entries = tx[s].entries
      /\ tx'[s].outcomes = tx[s].outcomes \cup {new} /\ tx' \in [Session -> TxRows]
  <2>1. new \in OutcomeRows
    BY <1>r DEF OutcomeRows, PostedRow
  <2> QED
    BY <1>t, <2>1, AddedOutcome DEF RecordPosted, PostedRow
<1>2. new.event = req[s].event /\ new.status = "POSTED"
  BY DEF PostedRow
<1>3. TypeOK'
  BY <1>t, <1>0, <1>1 DEF TypeOK
<1>4. \A t \in Session \ {s} : Kept(t)
  BY <1>0 DEF Kept
<1>6. SessionOK(s)'
  <2>1. OpOK(s)' /\ EventsOK(s)'
    BY <1>0, <1>1, <1>r, <1>t DEF SessionOK, OpOK, PostLabels, EventsOK, Fresh
  <2>2. OutcomesOK(s)'
    BY <1>0, <1>1, <1>2, <1>r, <1>t DEF SessionOK, OutcomesOK, EventsOK, EntriesOK, Fresh
  <2>3. EntriesOK(s)'
    BY <1>0, <1>1, <1>r, <1>t
       DEF SessionOK, EntriesOK, EventsOK, Posts, Reversed, Written, Fresh
  <2>4. ReversalOK(s)' /\ NumbersOK(s)'
    BY <1>0, <1>1, <1>r, <1>t DEF SessionOK, ReversalOK, NumbersOK, Reversing
  <2>5. OwnedOK(s)'
    BY <1>0, <1>1, <1>r, <1>t DEF SessionOK, OwnedOK, Fresh
  <2> QED
    BY <2>1, <2>2, <2>3, <2>4, <2>5 DEF SessionOK
<1> QED
  BY <1>0, <1>3, <1>4, <1>6, OwnStep DEF db

\* _finalize_posting keeps the uncommitted entries numbered.
LEMMA AddEntryFacts ==
    ASSUME IInv, NEW s \in Session, NEW e \in Event \cup {None}, NEW l \in Ledger,
           NEW p \in Period, NEW of \in Nat, AddEntry(s, e, l, p, of), jcount' = jcount
    PROVE  /\ Counter(s) \in Nat
           /\ holder[Journal] # s => tx[s].entries = {} /\ Counter(s) = jcount
           /\ tx' \in [Session -> TxRows] /\ jval' \in [Session -> Nat]
           /\ tx'[s].entries = tx[s].entries \cup {Entry(Counter(s) + 1, e, l, p, of)}
           /\ tx'[s].events = tx[s].events /\ tx'[s].outcomes = tx[s].outcomes
           /\ holder' \in [Resource -> Session \cup {None}] /\ holder'[Journal] = s
           /\ \A x \in Resource : holder[x] = s => holder'[x] = s
           /\ \A t \in Session \ {s} :
                /\ tx'[t] = tx[t] /\ jval'[t] = jval[t]
                /\ \A x \in Resource : holder'[x] = t <=> holder[x] = t
           /\ NumbersOK(s)'
<1>t. /\ TypeOK /\ SessionOK(s) /\ jcount \in Nat
      /\ jval \in [Session -> Nat] /\ jval[s] \in Nat
  BY DEF IInv, TypeOK
<1>1. Counter(s) \in Nat
  BY <1>t DEF Counter
<1>2. holder[Journal] # s => tx[s].entries = {} /\ Counter(s) = jcount
  BY <1>t DEF SessionOK, EntriesOK, Counter
<1> DEFINE new == Entry(Counter(s) + 1, e, l, p, of)
<1>3. new \in EntryRows /\ new.seq = Counter(s) + 1
  BY <1>1, EntryFacts
<1>4. /\ tx' \in [Session -> TxRows]
      /\ tx'[s].entries = tx[s].entries \cup {new}
      /\ tx'[s].events = tx[s].events /\ tx'[s].outcomes = tx[s].outcomes
      /\ \A t \in Session \ {s} : tx'[t] = tx[t]
  BY <1>t, <1>3, AddedEntry DEF AddEntry
<1> HIDE DEF new
<1>5. /\ holder' \in [Resource -> Session \cup {None}] /\ holder'[Journal] = s
      /\ \A x \in Resource : holder[x] = s => holder'[x] = s
      /\ \A t \in Session \ {s} : \A x \in Resource : holder'[x] = t <=> holder[x] = t
  BY <1>t, ResourceFacts, LockFacts DEF AddEntry
<1>6. /\ jval' \in [Session -> Nat] /\ jval'[s] = Counter(s) + 1
      /\ \A t \in Session \ {s} : jval'[t] = jval[t]
  BY <1>t, <1>1 DEF AddEntry
<1>7. NumbersOK(s)'
  <2>1. CASE holder[Journal] # s
    <3>1. tx'[s].entries = {new} /\ new.seq = jcount + 1 /\ jval'[s] = jcount + 1
      BY <1>2, <1>3, <1>4, <1>6, <2>1
    <3>2. \A i \in (jcount + 1) .. (jcount + 1) : i = jcount + 1
      BY <1>t
    <3> QED
      BY <1>t, <3>1, <3>2 DEF NumbersOK
  <2>2. CASE holder[Journal] = s
    <3>1. /\ Counter(s) = jval[s] /\ jval[s] >= jcount
          /\ \A r \in tx[s].entries : r.seq \in (jcount + 1) .. jval[s]
          /\ \A i \in (jcount + 1) .. jval[s] : \E r \in tx[s].entries : r.seq = i
          /\ \A r, q \in tx[s].entries : r.seq = q.seq => r = q
      BY <1>t, <2>2 DEF Counter, SessionOK, NumbersOK
    <3>2. new.seq = jval[s] + 1 /\ jval'[s] = jval[s] + 1
      BY <1>3, <1>6, <3>1
    <3>3. \A r \in tx'[s].entries : r.seq \in (jcount + 1) .. jval'[s]
      BY <1>t, <1>4, <3>1, <3>2
    <3>4. \A i \in (jcount + 1) .. jval'[s] : \E r \in tx'[s].entries : r.seq = i
      <4> TAKE i \in (jcount + 1) .. jval'[s]
      <4>1. CASE i = jval[s] + 1
        BY <1>4, <3>2, <4>1
      <4>2. CASE i # jval[s] + 1
        <5>1. i \in (jcount + 1) .. jval[s]
          BY <1>t, <3>2, <4>2
        <5> QED
          BY <1>4, <3>1, <5>1
      <4> QED
        BY <4>1, <4>2
    <3>5. \A r, q \in tx'[s].entries : r.seq = q.seq => r = q
      BY <1>t, <1>4, <3>1, <3>2
    <3> QED
      BY <1>t, <3>1, <3>2, <3>3, <3>4, <3>5 DEF NumbersOK
  <2> QED
    BY <2>1, <2>2
<1> QED
  BY <1>1, <1>2, <1>4, <1>5, <1>6, <1>7 DEF new

LEMMA WriteEntryStep ==
    ASSUME IInv, NEW s \in Session, NEW l \in Ledger, WriteEntry(s, l), UNCHANGED auto
    PROVE  IInv'
<1> DEFINE new == Entry(Counter(s) + 1, req[s].event, l, req[s].period, 0)
<1>t. TypeOK /\ tx[s] \in TxRows /\ req[s] \in Requests /\ SessionOK(s)
  BY DEF IInv, TypeOK
<1>r. /\ pc[s] = "write" /\ req[s].op = "post"
      /\ req[s].event \in Event /\ req[s].period \in Period
  BY <1>t, RequestFacts DEF WriteEntry, SessionOK, OpOK, PostLabels
<1>0. /\ UNCHANGED <<status, events, journal, outcomes, jcount, acked, auto, req>>
      /\ pc'[s] = IF Ledger = Written(s) \cup {l} THEN "outcome" ELSE "write"
      /\ pc' \in [Session -> Labels]
      /\ \A t \in Session \ {s} : pc'[t] = pc[t]
      /\ l \notin Written(s)
  BY <1>t DEF WriteEntry, db, TypeOK, Goto, Labels
<1>1. /\ Counter(s) \in Nat
      /\ tx' \in [Session -> TxRows] /\ jval' \in [Session -> Nat]
      /\ tx'[s].entries = tx[s].entries \cup {new}
      /\ tx'[s].events = tx[s].events /\ tx'[s].outcomes = tx[s].outcomes
      /\ holder' \in [Resource -> Session \cup {None}] /\ holder'[Journal] = s
      /\ \A x \in Resource : holder[x] = s => holder'[x] = s
      /\ \A t \in Session \ {s} :
           /\ tx'[t] = tx[t] /\ jval'[t] = jval[t]
           /\ \A x \in Resource : holder'[x] = t <=> holder[x] = t
      /\ NumbersOK(s)'
  BY <1>0, <1>r, AddEntryFacts DEF WriteEntry
<1>2. /\ new.event = req[s].event /\ new.ledger = l /\ new.period = req[s].period /\ new.of = 0
  BY DEF Entry
<1> HIDE DEF new
<1>3. TypeOK'
  BY <1>t, <1>0, <1>1 DEF TypeOK
<1>4. \A t \in Session \ {s} : Kept(t)
  BY <1>0, <1>1 DEF Kept
<1>5. Written(s)' = Written(s) \cup {l}
  BY <1>0, <1>1, <1>2 DEF Written
<1>6. SessionOK(s)'
  <2>1. OpOK(s)'
    BY <1>0, <1>r DEF OpOK, PostLabels
  <2>2. EventsOK(s)'
    <3>1. \A v \in tx[s].events : EventId(v.id) \in Resource
      BY <1>t, ResourceFacts DEF TxRows, EventRows
    <3> QED
      BY <1>0, <1>1, <1>r, <1>t, <3>1 DEF SessionOK, EventsOK, Fresh
  <2>3. OutcomesOK(s)'
    BY <1>0, <1>1, <1>r, <1>t DEF SessionOK, OutcomesOK, Fresh
  <2>4. EntriesOK(s)'
    <3>1. \A r \in tx[s].entries : /\ r.event = req[s].event /\ r.period = req[s].period
                                   /\ r.of = 0 /\ r.ledger \in Written(s)
                                   /\ \A q \in tx[s].entries : r.ledger = q.ledger => r = q
      BY <1>t, <1>r DEF SessionOK, EntriesOK, Posts, Written, TxRows, EntryRows
    <3>2. \A r \in tx'[s].entries :
            /\ r.event = req[s].event /\ r.period = req[s].period /\ r.of = 0
            /\ \A q \in tx'[s].entries : r.ledger = q.ledger => r = q
      BY <1>0, <1>1, <1>2, <3>1
    <3>3. pc'[s] = "outcome" => Written(s)' = Ledger
      BY <1>0, <1>5
    <3>4. pc'[s] \in {"write", "outcome"} /\ tx'[s].entries # {}
      BY <1>0, <1>1
    <3> QED
      BY <1>0, <1>1, <3>2, <3>3, <3>4 DEF EntriesOK, Reversed
  <2>5. ReversalOK(s)'
    BY <1>0 DEF ReversalOK, Reversing
  <2>6. OwnedOK(s)'
    BY <1>0, <1>1, <1>r, <1>t DEF SessionOK, OwnedOK, Fresh
  <2> QED
    BY <1>1, <2>1, <2>2, <2>3, <2>4, <2>5, <2>6 DEF SessionOK
<1> QED
  BY <1>0, <1>3, <1>4, <1>6, OwnStep DEF db

LEMMA WriteReversalStep ==
    ASSUME IInv, NEW s \in Session, WriteReversal(s), UNCHANGED auto
    PROVE  IInv'
<1>t. TypeOK /\ tx[s] \in TxRows /\ req[s] \in Requests /\ SessionOK(s)
  BY DEF IInv, TypeOK
<1>r. /\ pc[s] = "rev_write" /\ req[s].op = "reverse"
      /\ req[s].of \in 1 .. MaxReversible /\ req[s].period \in Period
  BY <1>t, RequestFacts DEF WriteReversal, SessionOK, OpOK
<1>0. /\ UNCHANGED <<status, events, journal, outcomes, jcount, acked, auto, req>>
      /\ pc'[s] = "rev_audit" /\ pc' \in [Session -> Labels]
      /\ \A t \in Session \ {s} : pc'[t] = pc[t]
  BY <1>t DEF WriteReversal, db, TypeOK, Goto, Labels
<1>e. tx[s].entries = {}
  BY <1>t, <1>r DEF SessionOK, EntriesOK
<1>p. PICK r \in journal : r.seq = req[s].of /\ AddEntry(s, None, r.ledger, req[s].period, r.seq)
  BY <1>e DEF WriteReversal, Entries
<1>q. r.ledger \in Ledger /\ r.seq \in Nat
  BY <1>t DEF TypeOK, EntryRows
<1> DEFINE new == Entry(Counter(s) + 1, None, r.ledger, req[s].period, r.seq)
<1>1. /\ Counter(s) \in Nat
      /\ holder[Journal] # s => Counter(s) = jcount
      /\ tx' \in [Session -> TxRows] /\ jval' \in [Session -> Nat]
      /\ tx'[s].entries = tx[s].entries \cup {new}
      /\ tx'[s].events = tx[s].events /\ tx'[s].outcomes = tx[s].outcomes
      /\ holder' \in [Resource -> Session \cup {None}] /\ holder'[Journal] = s
      /\ \A x \in Resource : holder[x] = s => holder'[x] = s
      /\ \A t \in Session \ {s} :
           /\ tx'[t] = tx[t] /\ jval'[t] = jval[t]
           /\ \A x \in Resource : holder'[x] = t <=> holder[x] = t
      /\ NumbersOK(s)'
  BY <1>0, <1>r, <1>p, <1>q, AddEntryFacts
<1>2. Counter(s) = jcount
  <2> SUFFICES ASSUME holder[Journal] = s PROVE jval[s] = jcount
    BY <1>1 DEF Counter
  <2>1. jval[s] \in Nat /\ jcount \in Nat /\ jval[s] >= jcount
    BY <1>t DEF TypeOK, SessionOK, NumbersOK
  <2>2. jval[s] \notin (jcount + 1) .. jval[s]
    BY <1>e, <1>t DEF SessionOK, NumbersOK
  <2> QED
    BY <2>1, <2>2
<1>3. TypeOK'
  BY <1>t, <1>0, <1>1 DEF TypeOK
<1>4. \A t \in Session \ {s} : Kept(t)
  BY <1>0, <1>1 DEF Kept
<1>6. SessionOK(s)'
  <2>1. OpOK(s)'
    BY <1>0, <1>r DEF OpOK, PostLabels
  <2>2. EventsOK(s)'
    <3>1. \A v \in tx[s].events : EventId(v.id) \in Resource
      BY <1>t, ResourceFacts DEF TxRows, EventRows
    <3> QED
      BY <1>0, <1>1, <1>r, <1>t, <3>1 DEF SessionOK, EventsOK, Fresh
  <2>3. OutcomesOK(s)'
    BY <1>0, <1>1, <1>r, <1>t DEF SessionOK, OutcomesOK, Fresh
  <2>4. EntriesOK(s)'
    <3>1. tx'[s].entries = {Entry(jcount + 1, None, r.ledger, req[s].period, r.seq)}
      BY <1>1, <1>2, <1>e
    <3> QED
      BY <1>0, <1>1, <1>p, <3>1 DEF EntriesOK, Posts
  <2>5. ReversalOK(s)'
    BY <1>0, <1>1, <1>r, <1>t, ResourceFacts DEF SessionOK, ReversalOK, Reversing
  <2>6. OwnedOK(s)'
    BY <1>0, <1>1, <1>r, <1>t DEF SessionOK, OwnedOK, Fresh
  <2> QED
    BY <1>1, <2>1, <2>2, <2>3, <2>4, <2>5, <2>6 DEF SessionOK
<1> QED
  BY <1>0, <1>3, <1>4, <1>6, OwnStep DEF db

LEMMA CloseRowStep ==
    ASSUME IInv, NEW s \in Session, CloseRow(s), UNCHANGED auto
    PROVE  IInv'
<1> DEFINE row == PeriodRow(req[s].period)
<1>t. TypeOK /\ tx[s] \in TxRows /\ req[s] \in Requests /\ SessionOK(s)
  BY DEF IInv, TypeOK
<1>r. pc[s] = "close" /\ req[s].op = "close" /\ req[s].period \in Period
  BY <1>t, RequestFacts DEF CloseRow, SessionOK, OpOK
<1>0. /\ UNCHANGED <<status, events, journal, outcomes, jcount, acked, auto, req, jval>>
      /\ pc'[s] \in {"ok", "raise"} /\ pc' \in [Session -> Labels]
      /\ \A t \in Session \ {s} : pc'[t] = pc[t]
      /\ Free(s, row) /\ Lock(s, row)
  BY <1>t DEF CloseRow, db, TypeOK, Goto, Labels
<1>1. /\ tx' \in [Session -> TxRows]
      /\ tx'[s].events = tx[s].events /\ tx'[s].entries = tx[s].entries
      /\ tx'[s].outcomes = tx[s].outcomes
      /\ \A t \in Session \ {s} : tx'[t] = tx[t]
  <2>1. CASE tx' = [tx EXCEPT ![s].closed = @ \cup {req[s].period}]
    <3> DEFINE new == [tx[s] EXCEPT !.closed = @ \cup {req[s].period}]
    <3>1. tx \in [Session -> TxRows] /\ tx' = [tx EXCEPT ![s] = new]
      BY <1>t, <2>1 DEF TypeOK
    <3>2. /\ new \in TxRows /\ new.events = tx[s].events
          /\ new.entries = tx[s].entries /\ new.outcomes = tx[s].outcomes
      BY <1>t, <1>r DEF TxRows
    <3> HIDE DEF new
    <3> QED
      BY <3>1, <3>2
  <2>2. CASE UNCHANGED tx
    BY <1>t, <2>2 DEF TypeOK
  <2> QED
    BY <2>1, <2>2 DEF CloseRow
<1>2. /\ holder' \in [Resource -> Session \cup {None}] /\ holder'[Journal] = holder[Journal]
      /\ \A x \in Resource : holder[x] = s => holder'[x] = s
      /\ \A t \in Session \ {s} : \A x \in Resource : holder'[x] = t <=> holder[x] = t
  BY <1>t, <1>r, <1>0, ResourceFacts, LockFacts
<1>3. TypeOK'
  BY <1>t, <1>0, <1>1, <1>2 DEF TypeOK
<1>4. \A t \in Session \ {s} : Kept(t)
  BY <1>0, <1>1, <1>2 DEF Kept
<1>5. tx[s].entries = {} /\ tx'[s].entries = {}
  BY <1>t, <1>r, <1>1 DEF SessionOK, EntriesOK
<1>6. SessionOK(s)'
  <2>1. OpOK(s)'
    BY <1>0, <1>r DEF OpOK, PostLabels
  <2>2. EventsOK(s)'
    <3>1. \A v \in tx[s].events : EventId(v.id) \in Resource
      BY <1>t, ResourceFacts DEF TxRows, EventRows
    <3> QED
      BY <1>0, <1>1, <1>2, <1>t, <3>1 DEF SessionOK, EventsOK, Fresh
  <2>3. OutcomesOK(s)'
    BY <1>0, <1>1, <1>r, <1>t DEF SessionOK, OutcomesOK, Fresh
  <2>4. EntriesOK(s)' /\ ReversalOK(s)'
    BY <1>0, <1>5, <1>r DEF EntriesOK, ReversalOK, Posts, Reversed, Reversing
  <2>5. NumbersOK(s)'
    BY <1>0, <1>1, <1>2, <1>t DEF SessionOK, NumbersOK
  <2>6. OwnedOK(s)'
    BY <1>0, <1>1, <1>r, <1>t DEF SessionOK, OwnedOK, Fresh
  <2> QED
    BY <2>1, <2>2, <2>3, <2>4, <2>5, <2>6 DEF SessionOK
<1> QED
  BY <1>0, <1>3, <1>4, <1>6, OwnStep DEF db

-----------------------------------------------------------------------------
(* The start of a call, and the ends that commit nothing. *)

LEMMA CallStep ==
    ASSUME IInv, NEW s \in Session, NEW q \in Requests, NEW to \in Labels, Call(s, q, to),
           UNCHANGED auto,
           \/ q.op = "post" /\ to = "period"
           \/ q.op = "reverse" /\ to = "rev_lock"
           \/ q.op = "close" /\ to = "close"
    PROVE  IInv'
<1>t. TypeOK /\ SessionOK(s)
  BY DEF IInv
<1>0. /\ UNCHANGED <<status, events, journal, outcomes, jcount, acked, auto, holder, tx, jval>>
      /\ pc[s] = "idle" /\ pc'[s] = to /\ pc' \in [Session -> Labels]
      /\ req'[s] = q /\ req' \in [Session -> Requests]
      /\ \A t \in Session \ {s} : pc'[t] = pc[t] /\ req'[t] = req[t]
  BY <1>t DEF Call, db, TypeOK, Goto
<1>1. TypeOK'
  BY <1>t, <1>0 DEF TypeOK
<1>2. \A t \in Session \ {s} : Kept(t)
  BY <1>0 DEF Kept
<1>3. tx[s].entries = {}
  BY <1>t, <1>0 DEF SessionOK, EntriesOK
<1>4. SessionOK(s)'
  <2>1. OpOK(s)'
    BY <1>0 DEF OpOK, PostLabels
  <2>2. EventsOK(s)' /\ OutcomesOK(s)'
    BY <1>0, <1>t DEF SessionOK, EventsOK, OutcomesOK, Fresh
  <2>3. EntriesOK(s)' /\ ReversalOK(s)'
    BY <1>0, <1>3 DEF EntriesOK, ReversalOK, Posts, Reversed, Reversing
  <2>4. NumbersOK(s)' /\ OwnedOK(s)'
    BY <1>0, <1>t DEF SessionOK, NumbersOK, OwnedOK, Fresh
  <2> QED
    BY <2>1, <2>2, <2>3, <2>4 DEF SessionOK
<1> QED
  BY <1>0, <1>1, <1>2, <1>4, OwnStep DEF db

LEMMA StartStep ==
    ASSUME IInv, NEW s \in Session, Start(s), UNCHANGED auto
    PROVE  IInv'
<1>0. {"period", "rev_lock", "close"} \subseteq Labels
  BY DEF Labels
<1>1. CASE \E e \in Event, d \in Payload, p \in Period : PostEvent(s, e, d, p)
  BY <1>0, <1>1, CallFacts, CallStep DEF PostEvent
<1>2. CASE \E n \in 1 .. MaxReversible, p \in Period : Reverse(s, n, p)
  BY <1>0, <1>2, CallFacts, CallStep DEF Reverse
<1>3. CASE \E p \in Period : ClosePeriod(s, p)
  BY <1>0, <1>3, CallFacts, CallStep DEF ClosePeriod
<1> QED
  BY <1>1, <1>2, <1>3 DEF Start

\* The transaction is undone: by the conflict on the event id, which then
\* answers ok, or at the end of a call.
LEMMA DiscardStep ==
    ASSUME IInv, NEW s \in Session, Discard(s), UNCHANGED <<db, auto>>,
           \/ Return(s)
           \/ /\ Goto(s, "ok") /\ UNCHANGED req /\ req[s].op = "post"
              /\ \E v \in events : v.id = req[s].event
    PROVE  IInv'
<1>t. TypeOK
  BY DEF IInv
<1>0. /\ UNCHANGED <<status, events, journal, outcomes, jcount, acked, auto>>
      /\ pc'[s] \in {"idle", "ok"} /\ pc' \in [Session -> Labels]
      /\ req' \in [Session -> Requests]
      /\ pc'[s] = "ok" => req'[s].op = "post" /\ \E v \in events : v.id = req'[s].event
      /\ \A t \in Session \ {s} : pc'[t] = pc[t] /\ req'[t] = req[t]
  BY <1>t, CallFacts DEF db, TypeOK, Return, Goto, Labels
<1>1. /\ tx' \in [Session -> TxRows] /\ tx'[s] = NoRows
      /\ jval' \in [Session -> Nat]
      /\ holder' \in [Resource -> Session \cup {None}]
      /\ \A x \in Resource : holder'[x] # s
      /\ \A t \in Session \ {s} :
           /\ tx'[t] = tx[t] /\ jval'[t] = jval[t]
           /\ \A x \in Resource : holder'[x] = t <=> holder[x] = t
  BY <1>t, DiscardFacts
<1>2. TypeOK'
  BY <1>t, <1>0, <1>1 DEF TypeOK
<1>3. \A t \in Session \ {s} : Kept(t)
  BY <1>0, <1>1 DEF Kept
<1>4. /\ tx'[s].events = {} /\ tx'[s].entries = {} /\ tx'[s].outcomes = {}
  BY <1>1, NoRowsFacts
<1>5. SessionOK(s)'
  <2>1. OpOK(s)'
    BY <1>0 DEF OpOK, PostLabels
  <2>2. EventsOK(s)' /\ OutcomesOK(s)'
    BY <1>0, <1>4 DEF EventsOK, OutcomesOK, Fresh
  <2>3. EntriesOK(s)' /\ ReversalOK(s)'
    BY <1>0, <1>4 DEF EntriesOK, ReversalOK, Posts, Reversed, Reversing
  <2>4. NumbersOK(s)'
    BY <1>1, ResourceFacts DEF NumbersOK
  <2>5. OwnedOK(s)'
    BY <1>0, <1>4 DEF OwnedOK, Fresh
  <2> QED
    BY <2>1, <2>2, <2>3, <2>4, <2>5 DEF SessionOK
<1> QED
  BY <1>0, <1>2, <1>3, <1>5, OwnStep DEF db

LEMMA UndoneSteps ==
    ASSUME IInv, NEW s \in Session, UNCHANGED auto,
           InsertConflict(s) \/ ReturnFailure(s) \/ RaiseError(s) \/ Abort(s) \/ DeadlockAbort(s)
    PROVE  IInv'
<1>1. CASE InsertConflict(s)
  BY <1>1, DiscardStep DEF InsertConflict, IInv, SessionOK, OpOK, PostLabels
<1>2. CASE ReturnFailure(s) \/ RaiseError(s) \/ Abort(s) \/ DeadlockAbort(s)
  BY <1>2, DiscardStep DEF ReturnFailure, RaiseError, Abort, DeadlockAbort
<1> QED
  BY <1>1, <1>2

\* post_event returns a failure inside an open transaction.
LEMMA ReturnUncommittedStep ==
    ASSUME IInv, NEW s \in Session, ReturnUncommitted(s), UNCHANGED auto
    PROVE  IInv'
<1>t. TypeOK /\ SessionOK(s)
  BY DEF IInv
<1>0. /\ UNCHANGED <<status, events, journal, outcomes, jcount, acked, auto, holder, tx, jval>>
      /\ auto /\ pc[s] = "failed" /\ pc'[s] = "idle" /\ pc' \in [Session -> Labels]
      /\ req' \in [Session -> Requests]
      /\ \A t \in Session \ {s} : pc'[t] = pc[t] /\ req'[t] = req[t]
  BY <1>t, CallFacts DEF ReturnUncommitted, Return, db, TypeOK, Goto, Labels
<1>1. TypeOK'
  BY <1>t, <1>0 DEF TypeOK
<1>2. \A t \in Session \ {s} : Kept(t)
  BY <1>0 DEF Kept
<1>3. SessionOK(s)'
  <2>1. OpOK(s)' /\ EventsOK(s)' /\ OutcomesOK(s)'
    BY <1>0, <1>t DEF SessionOK, OpOK, PostLabels, EventsOK, OutcomesOK, Fresh
  <2>2. EntriesOK(s)' /\ ReversalOK(s)' /\ NumbersOK(s)' /\ OwnedOK(s)'
    BY <1>0, <1>t DEF SessionOK, EntriesOK, ReversalOK, NumbersOK, OwnedOK, Posts, Reversed,
                      Reversing
  <2> QED
    BY <2>1, <2>2 DEF SessionOK
<1> QED
  BY <1>0, <1>1, <1>2, <1>3, OwnStep DEF db

-----------------------------------------------------------------------------
(* The commit. *)

\* What the transaction adds to the journal: nothing, the entries of a whole
\* posting, or one reversal.
LEMMA CommittedEntries ==
    ASSUME IInv, NEW s \in Session, pc[s] = "ok"
    PROVE  \/ tx[s].entries = {}
           \/ /\ req[s].op = "post" /\ req[s].event \in Event /\ req[s].period \in Period
              /\ tx[s].entries # {} /\ holder[Journal] = s
              /\ \A r \in tx[s].entries :
                   /\ r.event = req[s].event /\ r.period = req[s].period /\ r.of = 0
                   /\ \A q \in tx[s].entries : r.ledger = q.ledger => r = q
              /\ Written(s) = Ledger
              /\ PostedRow(req[s].event) \in tx[s].outcomes
              /\ \E v \in tx[s].events : v.id = req[s].event
           \/ /\ req[s].op = "reverse" /\ req[s].of \in 1 .. MaxReversible
              /\ req[s].period \in Period /\ holder[Journal] = s
              /\ \A r \in journal : r.of # req[s].of
              /\ \E r \in journal :
                   /\ r.seq = req[s].of
                   /\ tx[s].entries = {Entry(jcount + 1, None, r.ledger, req[s].period, r.seq)}
<1>t. SessionOK(s) /\ req[s] \in Requests
  BY DEF IInv, TypeOK
<1>1. CASE req[s].op = "post"
  BY <1>1, <1>t, RequestFacts DEF SessionOK, EntriesOK, Posts
<1>2. CASE req[s].op = "reverse"
  BY <1>2, <1>t, RequestFacts DEF SessionOK, EntriesOK, ReversalOK, Reversed, Reversing
<1>3. CASE req[s].op = "close"
  BY <1>3, <1>t DEF SessionOK, EntriesOK
<1> QED
  BY <1>1, <1>2, <1>3, <1>t, RequestFacts DEF SessionOK, OpOK

LEMMA CommitPosted ==
    ASSUME IInv, NEW s \in Session, Commit(s)
    PROVE  PostedAtomically'
<1>t. /\ TypeOK /\ SessionOK(s) /\ PostedAtomically
      /\ tx[s] \in TxRows /\ None \notin Event
  BY NoneAssumption DEF IInv, TypeOK
<1>0. /\ pc[s] = "ok" /\ events' = events \cup tx[s].events
      /\ journal' = journal \cup tx[s].entries /\ outcomes' = outcomes \cup tx[s].outcomes
  BY DEF Commit, Events, Entries, Outcomes
<1> SUFFICES ASSUME NEW e \in Event
             PROVE  /\ IsPosted(e)' <=> RowsOf(e)' # {}
                    /\ RowsOf(e)' # {} =>
                         /\ \E v \in events' : v.id = e
                         /\ {r.ledger : r \in RowsOf(e)'} = Ledger
                         /\ \A r, q \in RowsOf(e)' :
                              r.period = q.period /\ (r.ledger = q.ledger => r = q)
  BY DEF PostedAtomically
<1>1. CASE req[s].op = "post" /\ req[s].event = e /\ tx[s].entries # {}
  <2>1. /\ \A r \in tx[s].entries :
             /\ r.event = e /\ r.period = req[s].period /\ r.ledger \in Ledger
             /\ \A q \in tx[s].entries : r.ledger = q.ledger => r = q
        /\ Written(s) = Ledger
        /\ PostedRow(e) \in tx[s].outcomes
        /\ \E v \in tx[s].events : v.id = e
    BY <1>0, <1>1, <1>t, CommittedEntries DEF TxRows, EntryRows
  <2>2. \A v \in events : v.id # e
    BY <1>t, <2>1 DEF SessionOK, EventsOK
  <2>3. RowsOf(e) = {}
    BY <1>t, <2>2 DEF PostedAtomically
  <2>4. RowsOf(e)' = tx[s].entries
    BY <1>0, <2>1, <2>3 DEF RowsOf
  <2>5. {r.ledger : r \in tx[s].entries} = Ledger
    BY <1>1, <2>1 DEF Written
  <2>6. IsPosted(e)'
    BY <1>0, <2>1 DEF IsPosted, PostedRow
  <2> QED
    BY <1>0, <1>1, <2>1, <2>4, <2>5, <2>6
<1>2. CASE ~(req[s].op = "post" /\ req[s].event = e /\ tx[s].entries # {})
  <2>1. \A r \in tx[s].entries : r.event # e
    BY <1>0, <1>2, <1>t, CommittedEntries DEF Entry
  <2>2. RowsOf(e)' = RowsOf(e)
    BY <1>0, <2>1 DEF RowsOf
  <2>3. PostedRow(e) \notin tx[s].outcomes
    BY <1>2, <1>t DEF SessionOK, OutcomesOK, PostedRow
  <2>4. IsPosted(e)' <=> IsPosted(e)
    BY <1>0, <2>3 DEF IsPosted, PostedRow
  <2> QED
    BY <1>0, <1>t, <2>2, <2>4 DEF PostedAtomically
<1> QED
  BY <1>1, <1>2

LEMMA CommitRows ==
    ASSUME IInv, NEW s \in Session, Commit(s), UNCHANGED auto
    PROVE  RowsOK'
<1>t. /\ TypeOK /\ SessionOK(s) /\ RowsOK
      /\ tx[s] \in TxRows /\ req[s] \in Requests
  BY DEF IInv, TypeOK
<1>0. /\ pc[s] = "ok" /\ events' = events \cup tx[s].events
      /\ journal' = journal \cup tx[s].entries /\ outcomes' = outcomes \cup tx[s].outcomes
      /\ acked' = IF req[s].op = "post"
                  THEN acked \cup {[event |-> req[s].event, payload |-> req[s].payload]}
                  ELSE acked
  BY DEF Commit, Events, Entries, Outcomes
<1>1. \A v, w \in events' : v.id = w.id => v = w
  BY <1>0, <1>t DEF RowsOK, SessionOK, EventsOK
<1>2. \A o \in outcomes' : \E v \in events' : v.id = o.event
  BY <1>0, <1>t DEF RowsOK, SessionOK, OutcomesOK
<1>3. \A o, q \in outcomes' : o.event = q.event => o = q
  <2>1. \A o \in outcomes, q \in tx[s].outcomes : o.event # q.event
    BY <1>t DEF RowsOK, SessionOK, OutcomesOK, EventsOK
  <2> QED
    BY <1>0, <1>t, <2>1 DEF RowsOK, SessionOK, OutcomesOK
<1>4. \A r, q \in journal' : r.of = q.of /\ r.of # 0 => r = q
  <2>1. CASE req[s].op = "reverse" /\ tx[s].entries # {}
    <3>1. PICK x \in tx[s].entries : tx[s].entries = {x} /\ x.of = req[s].of
      BY <1>0, <2>1, CommittedEntries DEF Entry
    <3>2. \A r \in journal : r.of # req[s].of
      BY <1>0, <2>1, CommittedEntries
    <3> QED
      BY <1>0, <1>t, <3>1, <3>2 DEF RowsOK
  <2>2. CASE ~(req[s].op = "reverse" /\ tx[s].entries # {})
    <3>1. \A r \in tx[s].entries : r.of = 0
      BY <1>0, <2>2, CommittedEntries
    <3> QED
      BY <1>0, <1>t, <3>1 DEF RowsOK
  <2> QED
    BY <2>1, <2>2
<1>5. ASSUME ~auto' PROVE \A v \in events' : IsPosted(v.id)'
  <2>1. \A v \in tx[s].events : IsPosted(v.id)'
    BY <1>0, <1>5, <1>t DEF SessionOK, OwnedOK, PostedRow, IsPosted
  <2> QED
    BY <1>0, <1>5, <1>t, <2>1 DEF RowsOK, IsPosted
<1>6. ASSUME ~auto' PROVE \A a \in acked' : IsPosted(a.event)'
  <2>0. ~auto /\ \A v \in events' : IsPosted(v.id)'
    BY <1>5, <1>6
  <2>1. req[s].op = "post" => \/ PostedRow(req[s].event) \in tx[s].outcomes
                             \/ \E v \in events : v.id = req[s].event
    BY <1>0, <1>t, <2>0 DEF SessionOK, OwnedOK
  <2>2. req[s].op = "post" => PostedRow(req[s].event) \in outcomes'
    BY <1>0, <2>0, <2>1 DEF PostedRow, IsPosted
  <2>3. \A a \in acked : IsPosted(a.event)'
    BY <1>0, <1>t, <2>0 DEF RowsOK, IsPosted
  <2>4. \A a \in acked' : a \in acked \/ (req[s].op = "post" /\ a.event = req[s].event)
    BY <1>0
  <2> QED
    BY <2>2, <2>3, <2>4 DEF PostedRow, IsPosted
<1> QED
  BY <1>1, <1>2, <1>3, <1>4, <1>5, <1>6 DEF RowsOK

LEMMA CommitNumbered ==
    ASSUME IInv, NEW s \in Session, Commit(s)
    PROVE  NumberedOK' /\ jcount' \in Nat
<1>t. TypeOK /\ SessionOK(s) /\ NumberedOK /\ jcount \in Nat /\ jval[s] \in Nat
  BY DEF IInv, TypeOK
<1>0. journal' = journal \cup tx[s].entries /\ jcount' = Counter(s)
  BY DEF Commit, Entries
<1>1. CASE holder[Journal] # s
  <2>1. tx[s].entries = {} /\ jcount' = jcount
    BY <1>0, <1>1, <1>t DEF SessionOK, EntriesOK, Counter
  <2>2. journal' = journal
    BY <1>0, <2>1
  <2> QED
    BY <1>t, <2>1, <2>2 DEF NumberedOK
<1>2. CASE holder[Journal] = s
  <2>1. /\ jcount' = jval[s] /\ jval[s] >= jcount
        /\ \A r \in tx[s].entries : r.seq \in (jcount + 1) .. jval[s]
        /\ \A i \in (jcount + 1) .. jval[s] : \E r \in tx[s].entries : r.seq = i
        /\ \A r, q \in tx[s].entries : r.seq = q.seq => r = q
    BY <1>0, <1>2, <1>t DEF SessionOK, NumbersOK, Counter
  <2>2. \A r \in journal' : r.seq \in 1 .. jcount'
    BY <1>0, <1>t, <2>1 DEF NumberedOK
  <2>3. \A i \in 1 .. jcount' : \E r \in journal' : r.seq = i
    <3> TAKE i \in 1 .. jcount'
    <3>1. CASE i \in 1 .. jcount
      BY <1>0, <1>t, <3>1 DEF NumberedOK
    <3>2. CASE i \notin 1 .. jcount
      <4>1. i \in (jcount + 1) .. jval[s]
        BY <1>t, <2>1, <3>2
      <4> QED
        BY <1>0, <2>1, <4>1
    <3> QED
      BY <3>1, <3>2
  <2>4. \A r, q \in journal' : r.seq = q.seq => r = q
    BY <1>0, <1>t, <2>1 DEF NumberedOK
  <2> QED
    BY <1>t, <2>1, <2>2, <2>3, <2>4 DEF NumberedOK
<1> QED
  BY <1>1, <1>2

\* A commit of s and the transaction of another session.
LEMMA CommitOthers ==
    ASSUME IInv, NEW s \in Session, Commit(s), UNCHANGED auto, NEW t \in Session \ {s}
    PROVE  SessionOK(t)'
<1>t. /\ TypeOK /\ SessionOK(s) /\ SessionOK(t)
      /\ tx[s] \in TxRows /\ tx[t] \in TxRows /\ req[t] \in Requests /\ req[s] \in Requests
  BY DEF IInv, TypeOK
<1>0. /\ pc[s] = "ok" /\ events' = events \cup tx[s].events
      /\ journal' = journal \cup tx[s].entries
      /\ jcount' = Counter(s) /\ auto' = auto
  BY DEF Commit, Events, Entries
<1>1. /\ tx'[t] = tx[t] /\ pc'[t] = pc[t] /\ req'[t] = req[t] /\ jval'[t] = jval[t]
      /\ \A x \in Resource : holder'[x] = t <=> holder[x] = t
  BY <1>t, DiscardFacts DEF Commit, Return, Goto, TypeOK
<1>2. holder[Journal] = t => jcount' = jcount
  BY <1>0 DEF Counter
<1>3. OpOK(t)'
  BY <1>1, <1>t DEF SessionOK, OpOK
<1>4. EventsOK(t)'
  <2>1. \A v \in tx[t].events : EventId(v.id) \in Resource
    BY <1>t, ResourceFacts DEF TxRows, EventRows
  <2>2. \A v \in tx[t].events, w \in tx[s].events : w.id # v.id
    BY <1>t DEF SessionOK, EventsOK
  <2> QED
    BY <1>0, <1>1, <1>t, <2>1, <2>2 DEF SessionOK, EventsOK, Fresh
<1>5. OutcomesOK(t)'
  BY <1>1, <1>t DEF SessionOK, OutcomesOK, Fresh
<1>6. EntriesOK(t)'
  <2>1. Reversed(t) => tx[t].entries # {}
    BY <1>t DEF SessionOK, EntriesOK
  <2>2. Reversed(t) => jcount' = jcount
    BY <1>2, <1>t, <2>1 DEF SessionOK, EntriesOK
  <2>3. Reversed(t)' <=> Reversed(t)
    BY <1>1 DEF Reversed
  <2>4. Reversed(t)' => \E r \in journal' :
          /\ r.seq = req'[t].of
          /\ tx'[t].entries = {Entry(jcount' + 1, None, r.ledger, req'[t].period, r.seq)}
    BY <1>0, <1>1, <1>t, <2>2, <2>3 DEF SessionOK, EntriesOK
  <2> QED
    BY <1>1, <1>t, <2>4, ResourceFacts DEF SessionOK, EntriesOK, Posts, Written, PostedRow
<1>7. ReversalOK(t)'
  <2> SUFFICES ASSUME Reversing(t)
               PROVE  /\ holder'[EntryRow(req[t].of)] = t
                      /\ \A r \in journal' : r.of # req[t].of
    BY <1>1 DEF ReversalOK, Reversing
  <2>1. req[t].of \in 1 .. MaxReversible
    BY <1>t, RequestFacts DEF SessionOK, OpOK, Reversing
  <2>2. holder[EntryRow(req[t].of)] = t /\ \A r \in journal : r.of # req[t].of
    BY <1>t DEF SessionOK, ReversalOK
  <2>3. \A r \in tx[s].entries : r.of # req[t].of
    <3>1. CASE req[s].op = "reverse"
      <4>1. holder[EntryRow(req[s].of)] = s
        BY <1>0, <1>t, <3>1 DEF SessionOK, ReversalOK, Reversing
      <4>2. req[s].of # req[t].of
        BY <2>2, <4>1
      <4>3. \A r \in tx[s].entries : r.of = req[s].of
        BY <1>0, <3>1, CommittedEntries DEF Entry
      <4> QED
        BY <4>2, <4>3
    <3>2. CASE req[s].op # "reverse"
      BY <1>0, <2>1, <3>2, CommittedEntries
    <3> QED
      BY <3>1, <3>2
  <2> QED
    BY <1>0, <1>1, <2>1, <2>2, <2>3, ResourceFacts
<1>8. NumbersOK(t)'
  BY <1>1, <1>2, <1>t, ResourceFacts DEF SessionOK, NumbersOK
<1>9. OwnedOK(t)'
  BY <1>0, <1>1, <1>t DEF SessionOK, OwnedOK, Fresh, PostedRow
<1> QED
  BY <1>3, <1>4, <1>5, <1>6, <1>7, <1>8, <1>9 DEF SessionOK

LEMMA CommitStep ==
    ASSUME IInv, NEW s \in Session, Commit(s), UNCHANGED auto
    PROVE  IInv'
<1>t. TypeOK /\ tx[s] \in TxRows /\ req[s] \in Requests /\ SessionOK(s)
  BY DEF IInv, TypeOK
<1>0. /\ pc[s] = "ok" /\ events' = events \cup tx[s].events
      /\ journal' = journal \cup tx[s].entries /\ outcomes' = outcomes \cup tx[s].outcomes
      /\ acked' = IF req[s].op = "post"
                  THEN acked \cup {[event |-> req[s].event, payload |-> req[s].payload]}
                  ELSE acked
      /\ Discard(s) /\ Return(s)
  BY DEF Commit, Events, Entries, Outcomes
<1>1. /\ tx' \in [Session -> TxRows] /\ tx'[s] = NoRows
      /\ jval' \in [Session -> Nat]
      /\ holder' \in [Resource -> Session \cup {None}]
      /\ \A x \in Resource : holder'[x] # s
  BY <1>0, <1>t, DiscardFacts
<1>2. pc'[s] = "idle" /\ pc' \in [Session -> Labels] /\ req' \in [Session -> Requests]
  BY <1>0, <1>t, CallFacts DEF Return, Goto, TypeOK, Labels
<1>3. TypeOK'
  <2>1. status' \in [Period -> {"OPEN", "CLOSED"}]
    BY <1>t DEF Commit, TypeOK
  <2>2. events' \subseteq EventRows /\ journal' \subseteq EntryRows /\ outcomes' \subseteq OutcomeRows
    BY <1>0, <1>t DEF TypeOK, TxRows
  <2>3. acked' \subseteq [event : Event, payload : Payload]
    BY <1>0, <1>t, RequestFacts DEF TypeOK
  <2>4. jcount' \in Nat
    BY CommitNumbered
  <2>5. auto' \in BOOLEAN
    BY <1>t DEF TypeOK
  <2> QED
    BY <1>1, <1>2, <2>1, <2>2, <2>3, <2>4, <2>5 DEF TypeOK
<1>4. /\ tx'[s].events = {} /\ tx'[s].entries = {} /\ tx'[s].outcomes = {}
  BY <1>1, NoRowsFacts
<1>5. SessionOK(s)'
  <2>1. OpOK(s)' /\ EventsOK(s)' /\ OutcomesOK(s)'
    BY <1>2, <1>4 DEF OpOK, PostLabels, EventsOK, OutcomesOK, Fresh
  <2>2. EntriesOK(s)' /\ ReversalOK(s)' /\ OwnedOK(s)'
    BY <1>2, <1>4 DEF EntriesOK, ReversalOK, OwnedOK, Posts, Reversed, Reversing, Fresh
  <2>3. NumbersOK(s)'
    BY <1>1, ResourceFacts DEF NumbersOK
  <2> QED
    BY <2>1, <2>2, <2>3 DEF SessionOK
<1> QED
  BY <1>3, <1>5, CommitRows, CommitNumbered, CommitPosted, CommitOthers DEF IInv

-----------------------------------------------------------------------------
(* The invariant is inductive. *)

LEMMA InitStep == Init => IInv
<1> SUFFICES ASSUME Init PROVE IInv
  OBVIOUS
<1>1. TypeOK
  BY CallFacts, NoRowsFacts DEF Init, TypeOK, Labels
<1>2. RowsOK /\ NumberedOK
  BY DEF Init, RowsOK, NumberedOK
<1>3. PostedAtomically
  BY DEF Init, PostedAtomically, RowsOf, IsPosted
<1>4. ASSUME NEW s \in Session PROVE SessionOK(s)
  <2>1. /\ pc[s] = "idle" /\ tx[s].events = {} /\ tx[s].entries = {} /\ tx[s].outcomes = {}
        /\ holder[Journal] # s
    BY NoRowsFacts, ResourceFacts, NoneAssumption DEF Init
  <2>2. OpOK(s) /\ EventsOK(s) /\ OutcomesOK(s) /\ NumbersOK(s)
    BY <2>1 DEF OpOK, PostLabels, EventsOK, OutcomesOK, NumbersOK, Fresh
  <2>3. EntriesOK(s) /\ ReversalOK(s) /\ OwnedOK(s)
    BY <2>1 DEF EntriesOK, ReversalOK, OwnedOK, Posts, Reversed, Reversing, Fresh
  <2> QED
    BY <2>2, <2>3 DEF SessionOK
<1> QED
  BY <1>1, <1>2, <1>3, <1>4 DEF IInv

LEMMA NextStep == IInv /\ [Next]_vars => IInv'
<1> SUFFICES ASSUME IInv, [Next]_vars PROVE IInv'
  OBVIOUS
<1>1. CASE UNCHANGED vars
  <2>1. /\ UNCHANGED <<status, events, journal, outcomes, jcount, acked>>
        /\ UNCHANGED <<holder, pc, req, tx, jval, auto>>
    BY <1>1 DEF vars, db
  <2>2. TypeOK' /\ RowsOK' /\ NumberedOK' /\ PostedAtomically'
    BY <2>1 DEF IInv, TypeOK, RowsOK, NumberedOK, PostedAtomically, RowsOf, IsPosted
  <2>3. \A s \in Session : Kept(s)
    BY <2>1 DEF Kept
  <2>4. \A s \in Session : SessionOK(s)'
    BY <2>1, <2>3, OthersStep DEF IInv, db
  <2> QED
    BY <2>2, <2>4 DEF IInv
<1>2. ASSUME NEW s \in Session, Start(s), UNCHANGED auto PROVE IInv'
  BY <1>2, StartStep
<1>3. ASSUME NEW s \in Session, Abort(s) \/ DeadlockAbort(s), UNCHANGED auto PROVE IInv'
  BY <1>3, UndoneSteps
<1>4. ASSUME NEW s \in Session, Step(s), UNCHANGED auto PROVE IInv'
  <2>1. CASE PeriodOpen(s) \/ PostRefused(s) \/ IngestInvalid(s) \/ IngestMismatch(s)
             \/ IngestDuplicate(s) \/ IngestNew(s) \/ InterpretFails(s) \/ Interpreted(s)
             \/ OriginalMissing(s) \/ CheckReversalPeriod(s)
    BY <1>4, <2>1, PlainMoves
  <2>2. CASE AuditIngested(s) \/ AuditRejected(s) \/ LockOriginal(s) \/ AuditReversal(s)
    BY <1>4, <2>2, LockMoves
  <2>3. CASE InsertEvent(s)
    BY <1>4, <2>3, InsertEventStep
  <2>4. CASE \E o \in {"BLOCKED", "REJECTED"} : WriteFails(s, o)
    BY <1>4, <2>4, WriteFailsStep
  <2>5. CASE \E l \in Ledger : WriteEntry(s, l)
    BY <1>4, <2>5, WriteEntryStep
  <2>6. CASE RecordPosted(s)
    BY <1>4, <2>6, RecordPostedStep
  <2>7. CASE WriteReversal(s)
    BY <1>4, <2>7, WriteReversalStep
  <2>8. CASE CloseRow(s)
    BY <1>4, <2>8, CloseRowStep
  <2>9. CASE Commit(s)
    BY <1>4, <2>9, CommitStep
  <2>10. CASE InsertConflict(s) \/ ReturnFailure(s) \/ RaiseError(s)
    BY <1>4, <2>10, UndoneSteps
  <2>11. CASE ReturnUncommitted(s)
    BY <1>4, <2>11, ReturnUncommittedStep
  <2> QED
    BY <1>4, <2>1, <2>2, <2>3, <2>4, <2>5, <2>6, <2>7, <2>8, <2>9, <2>10, <2>11 DEF Step
<1> QED
  BY <1>1, <1>2, <1>3, <1>4 DEF Next, Progress, BreakDeadlock

LEMMA Inductive == Spec => []IInv
BY InitStep, NextStep, PTL DEF Spec

-----------------------------------------------------------------------------
(* The theorems. *)

\* Every row, lock, request and counter of the posting pipeline keeps its type.
THEOREM TypeCorrect == Spec => []TypeOK
<1>1. IInv => TypeOK
  BY DEF IInv
<1> QED
  BY <1>1, Inductive, PTL

\* L5, P11: post_event commits the POSTED outcome of an event with exactly one
\* entry in every ledger, or neither, for any number of concurrent sessions
\* and whatever fails between the statements.
THEOREM PostedAtomicallyHolds == Spec => []PostedAtomically
<1>1. IInv => PostedAtomically
  BY DEF IInv
<1> QED
  BY <1>1, Inductive, PTL

\* P15: where the caller owns the commit, an accepted event has exactly one
\* InterpretationOutcome and no event_id is accepted twice.
THEOREM OutcomePerEventHolds == Spec => []OutcomePerEvent
<1>1. ASSUME IInv, ~auto PROVE OneOutcomeEach
  <2>1. \A v \in events : PostedRow(v.id) \in outcomes
    BY <1>1 DEF IInv, RowsOK, IsPosted, PostedRow
  <2>2. \A v \in events : \E o \in outcomes : v.id = o.event
    BY <2>1 DEF PostedRow
  <2>3. \A o \in outcomes : \E v \in events : v.id = o.event
    BY <1>1 DEF IInv, RowsOK
  <2>4. {v.id : v \in events} = {o.event : o \in outcomes}
    BY <2>2, <2>3
  <2> QED
    BY <1>1, <2>4 DEF IInv, RowsOK, OneOutcomeEach
<1>2. IInv => OutcomePerEvent
  BY <1>1 DEF OutcomePerEvent
<1> QED
  BY <1>2, Inductive, PTL

\* ModulePostingResult.is_success: where the caller owns the commit, a caller
\* that was told POSTED or ALREADY_POSTED finds the event in the journal.
THEOREM AckedIsPostedHolds == Spec => []AckedIsPosted
<1>1. ASSUME IInv, ~auto, NEW a \in acked PROVE IsPosted(a.event) /\ RowsOf(a.event) # {}
  <2>1. a.event \in Event
    BY <1>1 DEF IInv, TypeOK
  <2>2. IsPosted(a.event)
    BY <1>1 DEF IInv, RowsOK
  <2> QED
    BY <1>1, <2>1, <2>2 DEF IInv, PostedAtomically
<1>2. IInv => AckedIsPosted
  BY <1>1 DEF AckedIsPosted
<1> QED
  BY <1>2, Inductive, PTL

\* ReversalService: concurrent reversals of one entry leave one reversal, and
\* none of them finds the original reversed after _load_and_validate.
THEOREM OneReversalHolds == Spec => []OneReversal
<1>1. IInv => OneReversal
  BY DEF IInv, RowsOK, SessionOK, ReversalOK, Reversing, OneReversal
<1> QED
  BY <1>1, Inductive, PTL

-----------------------------------------------------------------------------
(* The refinement of GeneralLedger. *)

\* rows carry the numbers m + 1 .. n, each exactly once.
Numbered(rows, m, n) ==
    /\ n >= m
    /\ \A r \in rows : r.seq \in (m + 1) .. n
    /\ \A i \in (m + 1) .. n : \E r \in rows : r.seq = i
    /\ \A r, q \in rows : r.seq = q.seq => r = q

LEMMA NumberedRows ==
    ASSUME NEW rows, NEW m \in Nat, NEW n \in Nat, Numbered(rows, m, n)
    PROVE  IsFiniteSet(rows) /\ Cardinality(rows) = n - m
<1>0. /\ n >= m
      /\ \A r \in rows : r.seq \in (m + 1) .. n
      /\ \A i \in (m + 1) .. n : \E r \in rows : r.seq = i
      /\ \A r, q \in rows : r.seq = q.seq => r = q
  BY DEF Numbered
<1> DEFINE at == [i \in (m + 1) .. n |-> CHOOSE r \in rows : r.seq = i]
<1>1. \A i \in (m + 1) .. n : at[i] \in rows /\ at[i].seq = i
  BY <1>0
<1>2. at \in [(m + 1) .. n -> rows]
  BY <1>1
<1>3. \A r \in rows : \E i \in (m + 1) .. n : at[i] = r
  BY <1>0, <1>1
<1>4. \A i, j \in (m + 1) .. n : at[i] = at[j] => i = j
  BY <1>1
<1> HIDE DEF at
<1>5. at \in Bijection((m + 1) .. n, rows)
  BY <1>2, <1>3, <1>4 DEF Bijection, Injection, Surjection, IsInjective
<1>6. ExistsBijection((m + 1) .. n, rows)
  BY <1>5 DEF ExistsBijection
<1>7. IsFiniteSet((m + 1) .. n) /\ Cardinality((m + 1) .. n) = n - m
  <2>1. m + 1 \in Int /\ n \in Int
    OBVIOUS
  <2>2. /\ IsFiniteSet((m + 1) .. n)
        /\ Cardinality((m + 1) .. n) = IF m + 1 > n THEN 0 ELSE n - (m + 1) + 1
    BY <2>1, FS_Interval
  <2> QED
    BY <1>0, <2>2
<1> QED
  BY <1>6, <1>7, FS_Bijection

LEMMA SameCardinality == \A S : AbstractLedger!Cardinality(S) = Cardinality(S)
BY Zenon DEF Cardinality, AbstractLedger!Cardinality

LEMMA JournalSize ==
    ASSUME IInv
    PROVE  Cardinality(journal) = jcount
<1>1. jcount \in Nat /\ NumberedOK
  BY DEF IInv, TypeOK
<1>2. Numbered(journal, 0, jcount)
  BY <1>1 DEF NumberedOK, Numbered
<1>3. Cardinality(journal) = jcount - 0
  BY <1>1, <1>2, NumberedRows
<1> QED
  BY <1>1, <1>3

\* The entries of a posting give every ledger one of the next numbers.
LEMMA PostingNumbers ==
    ASSUME IInv, NEW s \in Session, pc[s] = "ok", req[s].op = "post", tx[s].entries # {}
    PROVE  \E no \in [Ledger -> jcount + 1 .. jcount + Cardinality(Ledger)] :
             /\ \A k, l \in Ledger : no[k] = no[l] => k = l
             /\ tx[s].entries = {Entry(no[l], req[s].event, l, req[s].period, 0) : l \in Ledger}
<1>t. /\ jcount \in Nat /\ jval[s] \in Nat /\ tx[s] \in TxRows /\ SessionOK(s)
  BY DEF IInv, TypeOK
<1>r. tx[s].entries \subseteq EntryRows
  BY <1>t DEF TxRows
<1> DEFINE rows == tx[s].entries
           row(l) == CHOOSE r \in rows : r.ledger = l
           no == [l \in Ledger |-> row(l).seq]
<1>1. /\ holder[Journal] = s /\ Written(s) = Ledger
      /\ \A r \in rows :
           /\ r.event = req[s].event /\ r.period = req[s].period /\ r.of = 0
           /\ \A q \in rows : r.ledger = q.ledger => r = q
  BY CommittedEntries
<1>2. /\ jval[s] >= jcount
      /\ \A r \in rows : r.seq \in (jcount + 1) .. jval[s]
      /\ \A i \in (jcount + 1) .. jval[s] : \E r \in rows : r.seq = i
      /\ \A r, q \in rows : r.seq = q.seq => r = q
  BY <1>1, <1>t DEF SessionOK, NumbersOK
<1>3. \A l \in Ledger : \E r \in rows : r.ledger = l
  BY <1>1 DEF Written
<1>4. \A l \in Ledger : row(l) \in rows /\ row(l).ledger = l
  BY <1>3
<1>5. \A r \in rows : r.ledger \in Ledger /\ row(r.ledger) = r
  <2>1. \A r \in rows : r.ledger \in Ledger
    BY <1>r DEF EntryRows
  <2> QED
    BY <1>1, <1>4, <2>1
<1>6. \A r \in rows : r = Entry(r.seq, req[s].event, r.ledger, req[s].period, 0)
  BY <1>1, <1>r DEF EntryRows, Entry
<1> HIDE DEF row
<1>7. IsFiniteSet(rows) /\ Cardinality(rows) = jval[s] - jcount
  <2>1. Numbered(rows, jcount, jval[s])
    BY <1>2 DEF Numbered
  <2> QED
    BY <1>t, <2>1, NumberedRows
<1>8. Cardinality(Ledger) = Cardinality(rows)
  <2> DEFINE f == [r \in rows |-> r.ledger]
  <2>1. f \in [rows -> Ledger] /\ \A r \in rows : f[r] = r.ledger
    BY <1>5
  <2> HIDE DEF f
  <2>2. f \in Bijection(rows, Ledger)
    BY <1>1, <1>3, <2>1 DEF Bijection, Injection, Surjection, IsInjective
  <2>3. ExistsBijection(rows, Ledger)
    BY <2>2 DEF ExistsBijection
  <2> QED
    BY <1>7, <2>3, FS_Bijection
<1>9. jcount + Cardinality(Ledger) = jval[s]
  BY <1>7, <1>8, <1>t
<1>10. no \in [Ledger -> jcount + 1 .. jcount + Cardinality(Ledger)]
  BY <1>2, <1>4, <1>9
<1>11. \A k, l \in Ledger : no[k] = no[l] => k = l
  BY <1>2, <1>4
<1>12. rows = {Entry(no[l], req[s].event, l, req[s].period, 0) : l \in Ledger}
  <2>1. \A l \in Ledger : Entry(no[l], req[s].event, l, req[s].period, 0) = row(l)
    BY <1>4, <1>6
  <2> QED
    BY <1>4, <1>5, <2>1
<1> HIDE DEF no
<1> QED
  BY <1>10, <1>11, <1>12

\* A commit is one posting, one reversal or nothing new in the journal.
LEMMA CommitIsLedgerStep ==
    ASSUME IInv, NEW s \in Session, Commit(s)
    PROVE  AbstractLedger!Next \/ journal' = journal
<1>0. pc[s] = "ok" /\ journal' = journal \cup tx[s].entries /\ SessionOK(s)
  BY DEF Commit, Entries, IInv
<1>1. CASE tx[s].entries = {}
  BY <1>0, <1>1
<1>2. CASE tx[s].entries # {} /\ req[s].op = "post"
  <2> DEFINE e == req[s].event
             p == req[s].period
  <2>1. e \in Event /\ p \in Period /\ \E v \in tx[s].events : v.id = e
    BY <1>0, <1>2, CommittedEntries
  <2>2. \A v \in events : v.id # e
    BY <1>0, <2>1 DEF SessionOK, EventsOK
  <2>3. \A r \in journal : r.event # e
    BY <2>1, <2>2 DEF IInv, PostedAtomically, RowsOf
  <2>4. PICK no \in [Ledger -> jcount + 1 .. jcount + Cardinality(Ledger)] :
           /\ \A k, l \in Ledger : no[k] = no[l] => k = l
           /\ tx[s].entries = {Entry(no[l], e, l, p, 0) : l \in Ledger}
    BY <1>0, <1>2, PostingNumbers
  <2>5. journal' = journal \cup {Entry(no[l], e, l, p, 0) : l \in Ledger}
    BY <1>0, <2>4
  <2>6. no \in [Ledger -> Cardinality(journal) + 1 .. Cardinality(journal) + Cardinality(Ledger)]
    BY <2>4, JournalSize
  <2> HIDE DEF e, p
  <2>7. AbstractLedger!PostToAll(e, p)
    BY <2>3, <2>4, <2>5, <2>6, SameCardinality
       DEF AbstractLedger!PostToAll, AbstractLedger!Size, AbstractLedger!Entry, Entry
  <2> QED
    BY <2>1, <2>7 DEF AbstractLedger!Next
<1>3. CASE tx[s].entries # {} /\ req[s].op # "post"
  <2>1. /\ req[s].period \in Period /\ \A r \in journal : r.of # req[s].of
        /\ \E r \in journal : r.seq = req[s].of
             /\ tx[s].entries = {Entry(jcount + 1, None, r.ledger, req[s].period, r.seq)}
    BY <1>0, <1>3, CommittedEntries
  <2>2. PICK r \in journal : r.seq = req[s].of
             /\ tx[s].entries = {Entry(jcount + 1, None, r.ledger, req[s].period, r.seq)}
    BY <2>1
  <2>3. journal' = journal \cup
          {Entry(Cardinality(journal) + 1, None, r.ledger, req[s].period, r.seq)}
    BY <1>0, <2>2, JournalSize
  <2>4. AbstractLedger!Reverse(r, req[s].period)
    BY <2>1, <2>2, <2>3, SameCardinality
       DEF AbstractLedger!Reverse, AbstractLedger!Size, AbstractLedger!Entry, Entry
  <2> QED
    BY <2>1, <2>4 DEF AbstractLedger!Next
<1> QED
  BY <1>1, <1>2, <1>3

\* R9, R10, P11: the journal that concurrent sessions commit is an append-only
\* ledger: a step of it is a whole posting to every ledger or one reversal,
\* numbered without gap after what was committed before.
THEOREM LedgerRefinement == Spec => ImplementsLedger
<1>1. Init => AbstractLedger!Init
  BY DEF Init, AbstractLedger!Init
<1>2. ASSUME IInv, [Next]_vars PROVE AbstractLedger!Next \/ journal' = journal
  <2>1. ASSUME NEW s \in Session, ~Commit(s),
               Start(s) \/ Abort(s) \/ Step(s) \/ DeadlockAbort(s)
        PROVE  journal' = journal
    BY <2>1 DEF Start, PostEvent, Reverse, ClosePeriod, Call, Abort, DeadlockAbort, Step,
         PeriodOpen, PostRefused, IngestInvalid, IngestMismatch, IngestDuplicate, IngestNew,
         InsertEvent, InsertConflict, AuditIngested, AuditRejected, InterpretFails, Interpreted,
         WriteFails, WriteEntry, RecordPosted, LockOriginal, OriginalMissing,
         CheckReversalPeriod, WriteReversal, AuditReversal, CloseRow, ReturnFailure,
         ReturnUncommitted, RaiseError, db
  <2>2. ASSUME NEW s \in Session, Commit(s) PROVE AbstractLedger!Next \/ journal' = journal
    BY <1>2, <2>2, CommitIsLedgerStep
  <2>3. CASE UNCHANGED vars
    BY <2>3 DEF vars, db
  <2> QED
    BY <1>2, <2>1, <2>2, <2>3 DEF Next, Progress, BreakDeadlock
<1>3. IInv /\ [Next]_vars => [AbstractLedger!Next]_journal
  BY <1>2
<1> QED
  BY <1>1, <1>3, Inductive, PTL DEF Spec, ImplementsLedger, AbstractLedger!Spec
=============================================================================
