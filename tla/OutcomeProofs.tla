--------------------------- MODULE OutcomeProofs ---------------------------
(***************************************************************************)
(* Proofs about OutcomeLifecycle, for every set of sessions, events and    *)
(* intents, every number of ledgers and every limit on retries.            *)
(***************************************************************************)
EXTENDS OutcomeLifecycle, TLAPS

-----------------------------------------------------------------------------
(* The inductive invariant. *)

Statuses == DOMAIN VALID_TRANSITIONS
Rows == [status : Statuses, retries : 0 .. MaxRetries, intent : Intent \cup {None}]
Keys == UNION {KeysOf(x) : x \in Intent}
Writes == [event : Event, intent : Intent, next : 1 .. LedgerCount + 1, new : {{}, Ledgers}]

\* The type invariant.  A row counts at most MaxRetries retries, and a write
\* found the entries of all ledgers or of none.
TypeOK ==
    /\ outcome \in [Event -> Rows \cup {None}]
    /\ journal \subseteq Keys
    /\ holder \in [Event -> Session \cup {None}]
    /\ keys \in [Session -> SUBSET Keys]
    /\ cache \in [Session -> [Event -> Rows \cup {None}]]
    /\ write \in [Session -> Writes \cup {NoWrite}]

\* An idempotency key is inserted once.
KeysUnique ==
    \A s \in Session :
        /\ keys[s] \cap journal = {}
        /\ \A t \in Session \ {s} : keys[s] \cap keys[t] = {}

\* All or none of the entries of x are in K.
Whole(x, K) == KeysOf(x) \subseteq K \/ KeysOf(x) \cap K = {}

\* What s has inserted of the intent x while it writes it: the look-up found
\* every entry; or another session's entries are committed; or the ledgers
\* before the next one have their entry in s.
WriteOK(s, x) ==
    \/ write[s].new = {} /\ Whole(x, keys[s]) /\ KeysOf(x) \subseteq Visible(s)
    \/ write[s].new = Ledgers /\ KeysOf(x) \subseteq journal
    \/ write[s].new = Ledgers /\ \A l \in Ledgers : <<x, l>> \in keys[s] <=> l < write[s].next

SessionOK(s, x) ==
    IF ~Idle(s) /\ write[s].intent = x THEN WriteOK(s, x) ELSE Whole(x, keys[s])

EntriesOK ==
    \A x \in Intent : Whole(x, journal) /\ \A s \in Session : SessionOK(s, x)

IInv == TypeOK /\ KeysUnique /\ EntriesOK /\ PostedHasEntries

-----------------------------------------------------------------------------
(* Facts about the data. *)

LEMMA RowFacts ==
    ASSUME NEW r \in Rows
    PROVE  /\ r.status \in Statuses /\ r.retries \in 0 .. MaxRetries
           /\ r.intent \in Intent \cup {None}
           /\ \A st \in Statuses :
                /\ [r EXCEPT !.status = st] \in Rows
                /\ [r EXCEPT !.status = st].status = st
           /\ \A x \in Intent :
                /\ [r EXCEPT !.status = "POSTED", !.intent = x] \in Rows
                /\ [r EXCEPT !.status = "POSTED", !.intent = x].intent = x
           /\ r.retries < MaxRetries =>
                /\ [r EXCEPT !.status = "RETRYING", !.retries = @ + 1] \in Rows
                /\ [r EXCEPT !.status = "RETRYING", !.retries = @ + 1].status = "RETRYING"
<1>1. "POSTED" \in Statuses /\ "RETRYING" \in Statuses
  BY DEF Statuses, VALID_TRANSITIONS
<1>2. /\ r.status \in Statuses /\ r.retries \in 0 .. MaxRetries
      /\ r.intent \in Intent \cup {None}
  BY DEF Rows
<1>3. \A st \in Statuses : /\ [r EXCEPT !.status = st] \in Rows
                           /\ [r EXCEPT !.status = st].status = st
  BY DEF Rows
<1>4. \A x \in Intent : /\ [r EXCEPT !.status = "POSTED", !.intent = x] \in Rows
                        /\ [r EXCEPT !.status = "POSTED", !.intent = x].intent = x
  BY <1>1 DEF Rows
<1>5. ASSUME r.retries < MaxRetries
      PROVE  /\ [r EXCEPT !.status = "RETRYING", !.retries = @ + 1] \in Rows
             /\ [r EXCEPT !.status = "RETRYING", !.retries = @ + 1].status = "RETRYING"
  <2>1. r.retries + 1 \in 0 .. MaxRetries
    BY <1>2, <1>5, MaxRetriesAssumption
  <2> QED
    BY <1>1, <2>1 DEF Rows
<1> QED
  BY <1>2, <1>3, <1>4, <1>5

LEMMA WriteFacts ==
    ASSUME TypeOK, NEW s \in Session, ~Idle(s)
    PROVE  /\ write[s] \in Writes /\ write[s].event \in Event /\ write[s].intent \in Intent
           /\ write[s].next \in 1 .. LedgerCount + 1
           /\ write[s].new \in {{}, Ledgers}
BY DEF TypeOK, Idle, Writes

LEMMA NoWriteFacts == NoWrite \notin Writes
BY NoneAssumption DEF NoWrite, Writes

LEMMA KeyFacts ==
    /\ \A x \in Intent, l \in Ledgers : <<x, l>> \in KeysOf(x) /\ <<x, l>> \in Keys
    /\ \A x, y \in Intent : x # y => KeysOf(x) \cap KeysOf(y) = {}
    /\ \A x \in Intent : KeysOf(x) # {}
    /\ Ledgers # {}
<1>1. Ledgers # {}
  BY LedgerAssumption DEF Ledgers
<1>2. \A x, y \in Intent : x # y => KeysOf(x) \cap KeysOf(y) = {}
  BY DEF KeysOf
<1>3. ASSUME NEW x \in Intent, NEW l \in Ledgers PROVE <<x, l>> \in KeysOf(x) /\ <<x, l>> \in Keys
  <2>1. <<x, l>> \in KeysOf(x)
    BY DEF KeysOf
  <2> QED
    BY <2>1 DEF Keys
<1> QED
  BY <1>1, <1>2, <1>3

\* Nothing that SessionOK(t, x) speaks of changes.
LEMMA OthersStep ==
    ASSUME NEW t \in Session, NEW x \in Intent, SessionOK(t, x),
           write'[t] = write[t], keys'[t] = keys[t], journal' = journal
    PROVE  SessionOK(t, x)'
BY DEF SessionOK, WriteOK, Whole, Idle, Visible

-----------------------------------------------------------------------------
(* Steps that touch the rows only. *)

\* A row is written with a status other than POSTED.
LEMMA PutStep ==
    ASSUME IInv, NEW s \in Session, NEW e \in Event, NEW r \in Rows, r.status # "POSTED",
           Put(s, e, r), UNCHANGED <<outcome, journal, keys, write>>
    PROVE  IInv'
<1>t. TypeOK /\ KeysUnique /\ EntriesOK /\ PostedHasEntries
  BY DEF IInv
<1>0. /\ holder' = [holder EXCEPT ![e] = s] /\ cache' = [cache EXCEPT ![s][e] = r]
      /\ UNCHANGED <<outcome, journal, keys, write>>
  BY DEF Put
<1>1. TypeOK'
  BY <1>0, <1>t DEF TypeOK
<1>2. KeysUnique' /\ EntriesOK'
  BY <1>0, <1>t DEF KeysUnique, EntriesOK, SessionOK, WriteOK, Whole, Idle, Visible
<1>3. PostedHasEntries'
  <2>1. ASSUME NEW t \in Session, NEW f \in Event,
               holder'[f] = t, cache'[t][f].status = "POSTED"
        PROVE  KeysOf(cache'[t][f].intent) \subseteq Visible(t)'
    <3>1. f # e
      BY <1>0, <1>t, <2>1 DEF TypeOK
    <3>2. holder[f] = t /\ cache'[t][f] = cache[t][f]
      BY <1>0, <1>t, <2>1, <3>1 DEF TypeOK
    <3> QED
      BY <1>0, <1>t, <2>1, <3>2 DEF PostedHasEntries, Visible
  <2> QED
    BY <1>0, <1>t, <2>1 DEF PostedHasEntries, Written
<1> QED
  BY <1>1, <1>2, <1>3 DEF IInv

LEMMA RecorderSteps ==
    ASSUME IInv, NEW s \in Session, NEW e \in Event,
           \/ \E st \in Recorded : Record(s, e, st)
           \/ TransitionToRejected(s, e) \/ InitiateRetry(s, e)
           \/ CompleteRetryFailure(s, e) \/ Abandon(s, e)
    PROVE  IInv'
<1>t. cache[s][e] \in Rows \cup {None}
  BY DEF IInv, TypeOK
<1>k. {"REJECTED", "FAILED", "ABANDONED"} \subseteq Statuses /\ Recorded \subseteq Statuses
  BY DEF Statuses, VALID_TRANSITIONS, Recorded
<1>1. CASE \E st \in Recorded : Record(s, e, st)
  <2>1. PICK st \in Recorded : Record(s, e, st)
    BY <1>1
  <2>2. Row(st, 0, None) \in Rows /\ Row(st, 0, None).status # "POSTED"
    BY <1>k, MaxRetriesAssumption DEF Row, Rows, Recorded
  <2> QED
    BY <2>1, <2>2, PutStep DEF Record
<1>2. CASE TransitionToRejected(s, e)
  BY <1>2, <1>k, <1>t, RowFacts, PutStep DEF TransitionToRejected, Transition, Known
<1>3. CASE InitiateRetry(s, e)
  BY <1>3, <1>t, RowFacts, PutStep DEF InitiateRetry, Transition, Known
<1>4. CASE CompleteRetryFailure(s, e)
  BY <1>4, <1>k, <1>t, RowFacts, PutStep DEF CompleteRetryFailure, Transition, Known
<1>5. CASE Abandon(s, e)
  BY <1>5, <1>k, <1>t, RowFacts, PutStep DEF Abandon, Transition, Known
<1> QED
  BY <1>1, <1>2, <1>3, <1>4, <1>5

LEMMA GetOutcomeStep ==
    ASSUME IInv, NEW s \in Session, NEW e \in Event, GetOutcome(s, e)
    PROVE  IInv'
<1>t. TypeOK /\ KeysUnique /\ EntriesOK /\ PostedHasEntries
  BY DEF IInv
<1>0. /\ outcome[e] # None /\ cache' = [cache EXCEPT ![s][e] = outcome[e]]
      /\ UNCHANGED <<outcome, journal, holder, keys, write>>
  BY DEF GetOutcome
<1>1. TypeOK'
  BY <1>0, <1>t DEF TypeOK
<1>2. KeysUnique' /\ EntriesOK'
  BY <1>0, <1>t DEF KeysUnique, EntriesOK, SessionOK, WriteOK, Whole, Idle, Visible
<1>3. PostedHasEntries'
  <2>1. ASSUME NEW t \in Session, NEW f \in Event,
               holder'[f] = t, cache'[t][f].status = "POSTED"
        PROVE  KeysOf(cache'[t][f].intent) \subseteq Visible(t)'
    <3>1. cache'[t][f] = IF t = s /\ f = e THEN outcome[e] ELSE cache[t][f]
      BY <1>0, <1>t DEF TypeOK
    <3>2. CASE t = s /\ f = e
      BY <1>0, <1>t, <2>1, <3>1, <3>2 DEF PostedHasEntries, Written, Visible
    <3>3. CASE ~(t = s /\ f = e)
      BY <1>0, <1>t, <2>1, <3>1, <3>3 DEF PostedHasEntries, Visible
    <3> QED
      BY <3>2, <3>3
  <2> QED
    BY <1>0, <1>t, <2>1 DEF PostedHasEntries, Written
<1> QED
  BY <1>1, <1>2, <1>3 DEF IInv

-----------------------------------------------------------------------------
(* JournalWriter.write. *)

LEMMA StartWriteStep ==
    ASSUME IInv, NEW s \in Session, NEW e \in Event, NEW x \in Intent, StartWrite(s, e, x)
    PROVE  IInv'
<1> DEFINE new == {l \in Ledgers : <<x, l>> \notin Visible(s)}
           w == [event |-> e, intent |-> x, next |-> 1, new |-> new]
<1>t. TypeOK /\ KeysUnique /\ EntriesOK /\ PostedHasEntries
  BY DEF IInv
<1>0. /\ Idle(s) /\ write' = [write EXCEPT ![s] = w]
      /\ UNCHANGED <<outcome, journal, holder, keys, cache>>
  BY DEF StartWrite
<1>1. Whole(x, keys[s]) /\ Whole(x, journal)
  BY <1>0, <1>t DEF EntriesOK, SessionOK
<1>2. \/ new = {} /\ KeysOf(x) \subseteq Visible(s)
      \/ new = Ledgers /\ KeysOf(x) \cap keys[s] = {}
  BY <1>1 DEF Whole, KeysOf, Visible
<1>3. w \in Writes /\ w.new = new /\ w.intent = x /\ w.next = 1
  BY <1>2, LedgerAssumption DEF Writes
<1> HIDE DEF new, w
<1>4. write'[s] = w /\ \A t \in Session \ {s} : write'[t] = write[t]
  BY <1>0, <1>t DEF TypeOK
<1>5. TypeOK'
  BY <1>0, <1>3, <1>t DEF TypeOK
<1>6. KeysUnique'
  BY <1>0, <1>t DEF KeysUnique
<1>7. EntriesOK'
  <2>1. ASSUME NEW y \in Intent PROVE Whole(y, journal)'
    BY <1>0, <1>t DEF EntriesOK, Whole
  <2>2. ASSUME NEW y \in Intent, NEW t \in Session \ {s} PROVE SessionOK(t, y)'
    BY <1>0, <1>4, <1>t, OthersStep DEF EntriesOK
  <2>3. WriteOK(s, x)'
    <3>1. CASE new = {} /\ KeysOf(x) \subseteq Visible(s)
      BY <1>0, <1>1, <1>3, <1>4, <3>1 DEF WriteOK, Visible, Whole
    <3>2. CASE new = Ledgers /\ KeysOf(x) \cap keys[s] = {}
      <4>1. \A l \in Ledgers : <<x, l>> \notin keys[s] /\ ~(l < 1)
        BY <3>2, KeyFacts DEF Ledgers
      <4> QED
        BY <1>0, <1>3, <1>4, <3>2, <4>1 DEF WriteOK
    <3> QED
      BY <1>2, <3>1, <3>2
  <2>4. ASSUME NEW y \in Intent PROVE SessionOK(s, y)'
    <3>1. ~Idle(s)' /\ write'[s].intent = x
      BY <1>3, <1>4, NoWriteFacts DEF Idle
    <3>2. CASE y = x
      BY <2>3, <3>1, <3>2 DEF SessionOK
    <3>3. CASE y # x
      BY <1>0, <1>t, <3>1, <3>3 DEF EntriesOK, SessionOK, Whole
    <3> QED
      BY <3>2, <3>3
  <2> QED
    BY <2>1, <2>2, <2>4 DEF EntriesOK
<1>8. PostedHasEntries'
  BY <1>0, <1>t DEF PostedHasEntries, Written, Visible
<1> QED
  BY <1>5, <1>6, <1>7, <1>8 DEF IInv

LEMMA SkipExistingStep ==
    ASSUME IInv, NEW s \in Session, SkipExisting(s)
    PROVE  IInv'
<1> DEFINE w == write[s]
<1>t. TypeOK /\ KeysUnique /\ EntriesOK /\ PostedHasEntries
  BY DEF IInv
<1>0. /\ ~Idle(s) /\ w.next \in Ledgers /\ w.next \notin w.new
      /\ write' = [write EXCEPT ![s].next = @ + 1]
      /\ UNCHANGED <<outcome, journal, holder, keys, cache>>
  BY DEF SkipExisting, Writing, NextLedger
<1>w. w \in Writes /\ w.intent \in Intent /\ w.new \in {{}, Ledgers}
  BY <1>0, <1>t, WriteFacts
<1>1. /\ write'[s] = [w EXCEPT !.next = @ + 1]
      /\ \A t \in Session \ {s} : write'[t] = write[t]
  BY <1>0, <1>t DEF TypeOK
<1>2. write'[s] \in Writes /\ write'[s].intent = w.intent /\ write'[s].new = w.new
  BY <1>0, <1>1, <1>w, LedgerAssumption DEF Writes, Ledgers
<1>3. w.new = {}
  BY <1>0, <1>w
<1>4. TypeOK'
  BY <1>0, <1>1, <1>2, <1>t DEF TypeOK
<1>5. KeysUnique'
  BY <1>0, <1>t DEF KeysUnique
<1>6. EntriesOK'
  <2>1. ASSUME NEW y \in Intent PROVE Whole(y, journal)'
    BY <1>0, <1>t DEF EntriesOK, Whole
  <2>2. ASSUME NEW y \in Intent, NEW t \in Session \ {s} PROVE SessionOK(t, y)'
    BY <1>0, <1>1, <1>t, OthersStep DEF EntriesOK
  <2>3. ASSUME NEW y \in Intent PROVE SessionOK(s, y)'
    <3>1. ~Idle(s)'
      BY <1>2, NoWriteFacts DEF Idle
    <3>2. SessionOK(s, y) /\ Ledgers # {}
      BY <1>t, KeyFacts DEF EntriesOK
    <3> QED
      BY <1>0, <1>2, <1>3, <3>1, <3>2 DEF SessionOK, WriteOK, Whole, Visible
  <2> QED
    BY <2>1, <2>2, <2>3 DEF EntriesOK
<1>7. PostedHasEntries'
  BY <1>0, <1>t DEF PostedHasEntries, Written, Visible
<1> QED
  BY <1>4, <1>5, <1>6, <1>7 DEF IInv

LEMMA CreateEntryStep ==
    ASSUME IInv, NEW s \in Session, CreateEntry(s)
    PROVE  IInv'
<1> DEFINE w == write[s]
<1>t. TypeOK /\ KeysUnique /\ EntriesOK /\ PostedHasEntries
  BY DEF IInv
<1>x. PICK x \in Intent : x = w.intent
  BY <1>t, WriteFacts DEF CreateEntry, Writing
<1>0. /\ ~Idle(s) /\ w.next \in Ledgers /\ w.next \in w.new
      /\ <<x, w.next>> \notin journal
      /\ \A t \in Session \ {s} : <<x, w.next>> \notin keys[t]
      /\ keys' = [keys EXCEPT ![s] = @ \cup {<<x, w.next>>}]
      /\ write' = [write EXCEPT ![s].next = @ + 1]
      /\ UNCHANGED <<outcome, journal, holder, cache>>
  BY <1>x DEF CreateEntry, Writing, NextLedger, Pending, Key
<1>w. w \in Writes /\ w.new = Ledgers
  <2>1. w \in Writes /\ w.new \in {{}, Ledgers}
    BY <1>0, <1>t, WriteFacts
  <2> QED
    BY <1>0, <2>1
<1>k. <<x, w.next>> \in KeysOf(x) /\ <<x, w.next>> \in Keys
  BY <1>0, <1>w, KeyFacts
<1>1. /\ write'[s] = [w EXCEPT !.next = @ + 1]
      /\ keys'[s] = keys[s] \cup {<<x, w.next>>}
      /\ \A t \in Session \ {s} : write'[t] = write[t] /\ keys'[t] = keys[t]
  BY <1>0, <1>t DEF TypeOK
<1>2. /\ write'[s] \in Writes /\ write'[s].intent = x /\ write'[s].new = Ledgers
      /\ write'[s].next = w.next + 1 /\ w.next \in Nat
  BY <1>0, <1>1, <1>w, <1>x, LedgerAssumption DEF Writes, Ledgers
<1>4. TypeOK'
  BY <1>0, <1>1, <1>2, <1>k, <1>t DEF TypeOK
<1>5. KeysUnique'
  BY <1>0, <1>1, <1>t DEF KeysUnique
<1>6. EntriesOK'
  <2>1. ASSUME NEW y \in Intent PROVE Whole(y, journal)'
    BY <1>0, <1>t DEF EntriesOK, Whole
  <2>2. ASSUME NEW y \in Intent, NEW t \in Session \ {s} PROVE SessionOK(t, y)'
    BY <1>0, <1>1, <1>t, OthersStep DEF EntriesOK
  <2>3. ASSUME NEW y \in Intent \ {x} PROVE SessionOK(s, y)'
    <3>1. Whole(y, keys[s])
      BY <1>t, <1>x, <2>3 DEF EntriesOK, SessionOK
    <3>2. <<x, w.next>> \notin KeysOf(y)
      BY <1>k, <1>w, KeyFacts
    <3>3. Whole(y, keys'[s])
      BY <1>1, <3>1, <3>2 DEF Whole
    <3> QED
      BY <1>2, <3>3 DEF SessionOK
  <2>4. SessionOK(s, x)'
    <3>1. WriteOK(s, x)
      BY <1>0, <1>t, <1>x DEF EntriesOK, SessionOK
    <3>2. \A l \in Ledgers : <<x, l>> \in keys[s] <=> l < w.next
      BY <1>0, <1>k, <1>w, <3>1, KeyFacts DEF WriteOK
    <3>3. \A l \in Ledgers : l \in Nat /\ (l < w.next + 1 <=> l < w.next \/ l = w.next)
      BY <1>2 DEF Ledgers
    <3>4. \A l \in Ledgers : <<x, l>> \in keys'[s] <=> l < write'[s].next
      BY <1>1, <1>2, <3>2, <3>3
    <3>5. ~Idle(s)'
      BY <1>2, NoWriteFacts DEF Idle
    <3> QED
      BY <1>2, <3>4, <3>5 DEF SessionOK, WriteOK
  <2> QED
    BY <2>1, <2>2, <2>3, <2>4 DEF EntriesOK
<1>7. PostedHasEntries'
  <2>1. \A t \in Session : Visible(t) \subseteq Visible(t)'
    BY <1>0, <1>1 DEF Visible
  <2> QED
    BY <1>0, <1>t, <2>1 DEF PostedHasEntries, Written
<1> QED
  BY <1>4, <1>5, <1>6, <1>7 DEF IInv

LEMMA DiscardFacts ==
    ASSUME TypeOK, NEW s \in Session, Discard(s)
    PROVE  /\ holder' \in [Event -> Session \cup {None}] /\ keys' \in [Session -> SUBSET Keys]
           /\ cache' \in [Session -> [Event -> Rows \cup {None}]]
           /\ keys'[s] = {} /\ \A e \in Event : holder'[e] # s
           /\ \A t \in Session \ {s} :
                /\ keys'[t] = keys[t] /\ cache'[t] = cache[t]
                /\ \A e \in Event : holder'[e] = t <=> holder[e] = t
<1>1. None \notin Session
  BY NoneAssumption
<1> QED
  BY <1>1 DEF TypeOK, Discard

\* A rollback, whatever becomes of the write under way.
LEMMA DiscardStep ==
    ASSUME IInv, NEW s \in Session, Discard(s), UNCHANGED <<outcome, journal>>,
           write' \in [Session -> Writes \cup {NoWrite}],
           \A t \in Session \ {s} : write'[t] = write[t],
           \A x \in Intent : ~Idle(s)' /\ write'[s].intent = x =>
               write'[s].new = Ledgers /\ KeysOf(x) \subseteq journal
    PROVE  IInv'
<1>t. TypeOK /\ KeysUnique /\ EntriesOK /\ PostedHasEntries
  BY DEF IInv
<1>0. /\ holder' \in [Event -> Session \cup {None}] /\ keys' \in [Session -> SUBSET Keys]
      /\ cache' \in [Session -> [Event -> Rows \cup {None}]]
      /\ keys'[s] = {} /\ \A e \in Event : holder'[e] # s
      /\ \A t \in Session \ {s} :
           /\ keys'[t] = keys[t] /\ cache'[t] = cache[t]
           /\ \A e \in Event : holder'[e] = t <=> holder[e] = t
  BY <1>t, DiscardFacts
<1>1. TypeOK'
  BY <1>0, <1>t DEF TypeOK
<1>2. KeysUnique'
  BY <1>0, <1>t DEF KeysUnique
<1>3. EntriesOK'
  <2>1. ASSUME NEW y \in Intent PROVE Whole(y, journal)'
    BY <1>t DEF EntriesOK, Whole
  <2>2. ASSUME NEW y \in Intent, NEW t \in Session \ {s} PROVE SessionOK(t, y)'
    BY <1>0, <1>t, OthersStep DEF EntriesOK
  <2>3. ASSUME NEW y \in Intent PROVE SessionOK(s, y)'
    BY <1>0 DEF SessionOK, WriteOK, Whole
  <2> QED
    BY <2>1, <2>2, <2>3 DEF EntriesOK
<1>4. PostedHasEntries'
  <2>1. ASSUME NEW t \in Session, NEW f \in Event,
               holder'[f] = t, cache'[t][f].status = "POSTED"
        PROVE  KeysOf(cache'[t][f].intent) \subseteq Visible(t)'
    <3>1. t # s
      BY <1>0, <2>1
    <3>2. holder[f] = t /\ cache'[t] = cache[t] /\ Visible(t)' = Visible(t)
      BY <1>0, <2>1, <3>1 DEF Visible
    <3> QED
      BY <1>t, <2>1, <3>2 DEF PostedHasEntries
  <2> QED
    BY <1>t, <2>1 DEF PostedHasEntries, Written
<1> QED
  BY <1>1, <1>2, <1>3, <1>4 DEF IInv

LEMMA ConcurrentInsertStep ==
    ASSUME IInv, NEW s \in Session, ConcurrentInsert(s)
    PROVE  IInv'
<1> DEFINE w == write[s]
<1>t. TypeOK /\ EntriesOK
  BY DEF IInv
<1>0. /\ ~Idle(s) /\ w.next \in Ledgers /\ w.next \in w.new
      /\ <<w.intent, w.next>> \in journal
      /\ write' = [write EXCEPT ![s].next = @ + 1]
      /\ Discard(s) /\ UNCHANGED <<outcome, journal>>
  BY DEF ConcurrentInsert, Writing, NextLedger, Key
<1>w. w \in Writes /\ w.intent \in Intent /\ w.new = Ledgers
  <2>1. w \in Writes /\ w.intent \in Intent /\ w.new \in {{}, Ledgers}
    BY <1>0, <1>t, WriteFacts
  <2> QED
    BY <1>0, <2>1
<1>1. /\ write'[s] = [w EXCEPT !.next = @ + 1]
      /\ \A t \in Session \ {s} : write'[t] = write[t]
  BY <1>0, <1>t DEF TypeOK
<1>2. write'[s] \in Writes /\ write'[s].intent = w.intent /\ write'[s].new = Ledgers
  BY <1>0, <1>1, <1>w, LedgerAssumption DEF Writes, Ledgers
<1>3. write' \in [Session -> Writes \cup {NoWrite}]
  BY <1>0, <1>1, <1>2, <1>t DEF TypeOK
<1>4. KeysOf(w.intent) \subseteq journal
  <2>1. Whole(w.intent, journal)
    BY <1>t, <1>w DEF EntriesOK
  <2>2. <<w.intent, w.next>> \in KeysOf(w.intent)
    BY <1>0, <1>w, KeyFacts
  <2> QED
    BY <1>0, <2>1, <2>2 DEF Whole
<1> HIDE DEF w
<1> QED
  BY <1>0, <1>1, <1>2, <1>3, <1>4, DiscardStep

LEMMA RollbackStep ==
    ASSUME IInv, NEW s \in Session, Rollback(s)
    PROVE  IInv'
<1>1. /\ Discard(s) /\ UNCHANGED <<outcome, journal>>
      /\ write' = [write EXCEPT ![s] = NoWrite]
  BY DEF Rollback
<1>2. /\ write' \in [Session -> Writes \cup {NoWrite}] /\ write'[s] = NoWrite
      /\ \A t \in Session \ {s} : write'[t] = write[t]
  BY <1>1 DEF IInv, TypeOK
<1>3. Idle(s)'
  BY <1>2 DEF Idle
<1> QED
  BY <1>1, <1>2, <1>3, DiscardStep

\* The loop over the ledgers has ended: every entry of the intent is there.
LEMMA WriteEnded ==
    ASSUME IInv, NEW s \in Session, ~Idle(s), ~Writing(s)
    PROVE  /\ Whole(write[s].intent, keys[s])
           /\ KeysOf(write[s].intent) \subseteq Visible(s)
<1> DEFINE x == write[s].intent
<1>t. TypeOK /\ KeysUnique /\ EntriesOK
  BY DEF IInv
<1>1. x \in Intent /\ write[s].next \in 1 .. LedgerCount + 1 /\ write[s].next \notin Ledgers
  BY <1>t, WriteFacts DEF Writing
<1>2. \A l \in Ledgers : l < write[s].next
  BY <1>1, LedgerAssumption DEF Ledgers
<1>3. WriteOK(s, x)
  BY <1>1, <1>t DEF EntriesOK, SessionOK
<1>4. CASE write[s].new = {} /\ Whole(x, keys[s]) /\ KeysOf(x) \subseteq Visible(s)
  BY <1>4
<1>5. CASE KeysOf(x) \subseteq journal
  BY <1>5, <1>t DEF KeysUnique, Whole, Visible
<1>6. CASE \A l \in Ledgers : <<x, l>> \in keys[s] <=> l < write[s].next
  BY <1>2, <1>6 DEF Whole, KeysOf, Visible
<1> QED
  BY <1>3, <1>4, <1>5, <1>6 DEF WriteOK

LEMMA TransitionToPostedStep ==
    ASSUME IInv, NEW s \in Session, TransitionToPosted(s)
    PROVE  IInv'
<1>t. TypeOK /\ KeysUnique /\ EntriesOK /\ PostedHasEntries
  BY DEF IInv
<1>w. ~Idle(s) /\ ~Writing(s)
  BY DEF TransitionToPosted
<1>e. PICK e \in Event, x \in Intent : e = write[s].event /\ x = write[s].intent
  BY <1>t, <1>w, WriteFacts
<1> DEFINE r == [cache[s][e] EXCEPT !.status = "POSTED", !.intent = x]
<1>r. r \in Rows /\ r.intent = x
  <2>1. cache[s][e] # None
    BY <1>e DEF TransitionToPosted, Transition, Known
  <2>2. cache[s][e] \in Rows
    BY <1>t, <2>1 DEF TypeOK
  <2> QED
    BY <2>2, RowFacts
<1>0. /\ holder' = [holder EXCEPT ![e] = s] /\ cache' = [cache EXCEPT ![s][e] = r]
      /\ write' = [write EXCEPT ![s] = NoWrite] /\ UNCHANGED <<outcome, journal, keys>>
  BY <1>e DEF TransitionToPosted, Transition, Put
<1> HIDE DEF r
<1>1. TypeOK'
  BY <1>0, <1>r, <1>t DEF TypeOK
<1>2. KeysUnique'
  BY <1>0, <1>t DEF KeysUnique
<1>3. EntriesOK'
  <2>0. write'[s] = NoWrite /\ \A t \in Session \ {s} : write'[t] = write[t]
    BY <1>0, <1>t DEF TypeOK
  <2>1. ASSUME NEW y \in Intent PROVE Whole(y, journal)'
    BY <1>0, <1>t DEF EntriesOK, Whole
  <2>2. ASSUME NEW y \in Intent, NEW t \in Session \ {s} PROVE SessionOK(t, y)'
    BY <1>0, <1>t, <2>0, OthersStep DEF EntriesOK
  <2>3. ASSUME NEW y \in Intent PROVE SessionOK(s, y)'
    <3>1. Whole(y, keys[s])
      BY <1>e, <1>t, <1>w, WriteEnded DEF EntriesOK, SessionOK
    <3>2. Idle(s)' /\ keys'[s] = keys[s]
      BY <1>0, <2>0 DEF Idle
    <3> QED
      BY <3>1, <3>2 DEF SessionOK
  <2> QED
    BY <2>1, <2>2, <2>3 DEF EntriesOK
<1>4. PostedHasEntries'
  <2>1. ASSUME NEW t \in Session, NEW f \in Event,
               holder'[f] = t, cache'[t][f].status = "POSTED"
        PROVE  KeysOf(cache'[t][f].intent) \subseteq Visible(t)'
    <3>1. CASE f = e
      <4>1. t = s /\ cache'[t][f] = r
        BY <1>0, <1>t, <2>1, <3>1 DEF TypeOK
      <4>2. KeysOf(x) \subseteq Visible(s)
        BY <1>e, <1>w, WriteEnded
      <4> QED
        BY <1>0, <1>r, <4>1, <4>2 DEF Visible
    <3>2. CASE f # e
      <4>1. holder[f] = t /\ cache'[t][f] = cache[t][f]
        BY <1>0, <1>t, <2>1, <3>2 DEF TypeOK
      <4> QED
        BY <1>0, <1>t, <2>1, <4>1 DEF PostedHasEntries, Visible
    <3> QED
      BY <3>1, <3>2
  <2> QED
    BY <1>0, <1>t, <2>1 DEF PostedHasEntries, Written
<1> QED
  BY <1>1, <1>2, <1>3, <1>4 DEF IInv

-----------------------------------------------------------------------------
(* The commit. *)

LEMMA CommitStep ==
    ASSUME IInv, NEW s \in Session, Commit(s)
    PROVE  IInv'
<1>t. TypeOK /\ KeysUnique /\ EntriesOK /\ PostedHasEntries
  BY DEF IInv
<1>0. /\ Idle(s) /\ journal' = journal \cup keys[s]
      /\ outcome' = [e \in Event |-> IF holder[e] = s THEN cache[s][e] ELSE outcome[e]]
      /\ holder' = [e \in Event |-> IF holder[e] = s THEN None ELSE holder[e]]
      /\ keys' = [keys EXCEPT ![s] = {}] /\ UNCHANGED <<cache, write>>
  BY DEF Commit
<1>k. keys'[s] = {} /\ \A t \in Session \ {s} : keys'[t] = keys[t]
  BY <1>0, <1>t DEF TypeOK
<1>1. TypeOK'
  BY <1>0, <1>t DEF TypeOK
<1>2. KeysUnique'
  BY <1>0, <1>k, <1>t DEF KeysUnique
<1>3. EntriesOK'
  <2>0. \A y \in Intent : Whole(y, keys[s]) /\ Whole(y, journal)
    BY <1>0, <1>t DEF EntriesOK, SessionOK
  <2>1. ASSUME NEW y \in Intent PROVE Whole(y, journal)'
    BY <1>0, <2>0 DEF Whole
  <2>2. ASSUME NEW y \in Intent, NEW t \in Session \ {s} PROVE SessionOK(t, y)'
    <3>1. CASE ~Idle(t) /\ write[t].intent = y
      <4>1. WriteOK(t, y)
        BY <1>t, <3>1 DEF EntriesOK, SessionOK
      <4>2. WriteOK(t, y)'
        BY <1>0, <1>k, <4>1 DEF WriteOK, Whole, Visible
      <4> QED
        BY <1>0, <3>1, <4>2 DEF SessionOK, Idle
    <3>2. CASE ~(~Idle(t) /\ write[t].intent = y)
      BY <1>0, <1>k, <1>t, <3>2 DEF EntriesOK, SessionOK, Whole, Idle
    <3> QED
      BY <3>1, <3>2
  <2>3. ASSUME NEW y \in Intent PROVE SessionOK(s, y)'
    BY <1>0, <1>k DEF SessionOK, Whole, Idle
  <2> QED
    BY <2>1, <2>2, <2>3 DEF EntriesOK
<1>4. PostedHasEntries'
  <2>1. \A x \in Intent : Whole(x, journal)'
    BY <1>3 DEF EntriesOK
  <2>2. ASSUME NEW e \in Event, Written(e)', outcome'[e].status = "POSTED"
        PROVE  KeysOf(outcome'[e].intent) \subseteq journal'
    <3>1. CASE holder[e] = s
      <4>1. outcome'[e] = cache[s][e]
        BY <1>0, <3>1
      <4> QED
        BY <1>0, <1>t, <2>2, <3>1, <4>1 DEF PostedHasEntries, Visible
    <3>2. CASE holder[e] # s
      <4>1. outcome'[e] = outcome[e]
        BY <1>0, <3>2
      <4> QED
        BY <1>0, <1>t, <2>2, <4>1 DEF PostedHasEntries, Written
    <3> QED
      BY <3>1, <3>2
  <2>3. ASSUME NEW t \in Session, NEW f \in Event,
               holder'[f] = t, cache'[t][f].status = "POSTED"
        PROVE  KeysOf(cache'[t][f].intent) \subseteq Visible(t)'
    <3>1. t # s /\ holder[f] = t
      BY <1>0, <2>3, NoneAssumption
    <3>2. Visible(t) \subseteq Visible(t)'
      BY <1>0, <1>k, <3>1 DEF Visible
    <3> QED
      BY <1>0, <1>t, <2>3, <3>1, <3>2 DEF PostedHasEntries
  <2> QED
    BY <2>1, <2>2, <2>3 DEF PostedHasEntries, Whole
<1> QED
  BY <1>1, <1>2, <1>3, <1>4 DEF IInv

-----------------------------------------------------------------------------
(* The theorems. *)

LEMMA InitStep == Init => IInv
<1> SUFFICES ASSUME Init PROVE IInv
  OBVIOUS
<1>1. TypeOK
  BY DEF Init, TypeOK
<1>2. KeysUnique
  BY DEF Init, KeysUnique
<1>3. EntriesOK
  BY DEF Init, EntriesOK, SessionOK, Whole, Idle
<1>4. PostedHasEntries
  BY NoneAssumption DEF Init, PostedHasEntries, Written
<1> QED
  BY <1>1, <1>2, <1>3, <1>4 DEF IInv

LEMMA NextStep == IInv /\ [Next]_vars => IInv'
<1> SUFFICES ASSUME IInv, [Next]_vars PROVE IInv'
  OBVIOUS
<1>1. CASE UNCHANGED vars
  BY <1>1 DEF vars, IInv, TypeOK, KeysUnique, EntriesOK, SessionOK, WriteOK, Whole, Idle,
       Visible, PostedHasEntries, Written
<1>2. ASSUME NEW s \in Session, NEW e \in Event,
             \/ \E st \in Recorded : Record(s, e, st)
             \/ TransitionToRejected(s, e) \/ InitiateRetry(s, e)
             \/ CompleteRetryFailure(s, e) \/ Abandon(s, e)
      PROVE  IInv'
  BY <1>2, RecorderSteps
<1>3. ASSUME NEW s \in Session, NEW e \in Event, GetOutcome(s, e) PROVE IInv'
  BY <1>3, GetOutcomeStep
<1>4. ASSUME NEW s \in Session, NEW e \in Event, NEW x \in Intent, StartWrite(s, e, x)
      PROVE  IInv'
  BY <1>4, StartWriteStep
<1>5. ASSUME NEW s \in Session, SkipExisting(s) \/ CreateEntry(s) \/ ConcurrentInsert(s)
      PROVE  IInv'
  BY <1>5, SkipExistingStep, CreateEntryStep, ConcurrentInsertStep
<1>6. ASSUME NEW s \in Session, TransitionToPosted(s) \/ Commit(s) \/ Rollback(s)
      PROVE  IInv'
  BY <1>6, TransitionToPostedStep, CommitStep, RollbackStep
<1> QED
  BY <1>1, <1>2, <1>3, <1>4, <1>5, <1>6 DEF Next

LEMMA Inductive == Spec => []IInv
BY InitStep, NextStep, PTL DEF Spec

\* The rows, keys, caches and writes of the outcome's life keep their types.
THEOREM TypeCorrect == Spec => []TypeOK
<1>1. IInv => TypeOK
  BY DEF IInv
<1> QED
  BY <1>1, Inductive, PTL

\* RetryService.initiate_retry: however many sessions retry from rows that
\* are stale, no row counts more than MAX_RETRIES retries.
THEOREM RetryLimitHolds == Spec => []RetryLimit
<1>1. IInv => RetryLimit
  BY MaxRetriesAssumption DEF IInv, TypeOK, Rows, RetryLimit, Written, Known
<1> QED
  BY <1>1, Inductive, PTL

\* JournalWriter.write and transition_to_posted: a POSTED outcome has its
\* intent's entries in every ledger, and no conflict on an idempotency key
\* leaves an intent in some of its ledgers only.
THEOREM PostedHasEntriesHolds == Spec => []PostedHasEntries
<1>1. IInv => PostedHasEntries
  BY DEF IInv
<1> QED
  BY <1>1, Inductive, PTL
=============================================================================
