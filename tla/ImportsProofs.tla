---------------------------- MODULE ImportsProofs ----------------------------
(***************************************************************************)
(* Proofs about Imports, for every set of sessions and batches, any number *)
(* of rows, any file content and any bounds.                               *)
(***************************************************************************)
EXTENDS Imports, TLAPS

-----------------------------------------------------------------------------
(* The inductive invariant.  Its parts speak of a transaction x. *)

\* A transaction that does something is about a batch that was loaded.
BatchOf(x) ==
    /\ x.op # "idle" => x.batch # None
    /\ x.batch # None => batches[x.batch].status # None

\* An inserted row is what its record is about to name; a record about to be
\* PROMOTED names a row that is there; the records to come are untouched.
WritesOK(x) ==
    /\ \A e \in x.new : /\ e.batch = x.batch
                        /\ x.wrote[e.row] = [status |-> "promoted", entity |-> e]
    /\ \A r \in Row : x.wrote[r] # None /\ x.wrote[r].status = "promoted" =>
                         x.wrote[r].entity \in entities \cup x.new
    /\ \A r \in x.todo : x.wrote[r] = None

\* promote_record is about one record.
SingleOK(x) ==
    x.single => /\ \A p, q \in x.todo : p = q
                /\ x.todo # {} => x.new = {}

\* No key of an inserted row is taken by a live row or by another inserted one.
KeysOK(x) ==
    \A e \in x.new : /\ \A f \in entities : ~SameKey(f, e)
                     /\ \A f \in x.new : SameKey(e, f) => e = f

\* The row about to be inserted, once it was checked.
Pending(x, r) ==
    [kind |-> batches[x.batch].kind, row |-> r, batch |-> x.batch, data |-> x.data[r]]

\* What CheckRecord found still holds of the transaction's own rows.
CheckedOK(x) ==
    x.inserting => \A r \in x.todo :
        x.op = "promote" /\ (\A q \in x.todo : r <= q) /\ Exists(x.batch) =>
            \A f \in x.new : ~SameKey(f, Pending(x, r))

TxnOK(x) == BatchOf(x) /\ WritesOK(x) /\ SingleOK(x) /\ KeysOK(x) /\ CheckedOK(x)

\* The unique index keeps the rows of two transactions apart.
Apart(x, y) == \A e \in x.new, f \in y.new : ~SameKey(e, f) /\ ~SameKey(f, e)

\* A batch that exists is of some kind; one never loaded has no VALID record.
BatchOK(b) ==
    /\ Exists(b) => batches[b].kind \in Kind
    /\ batches[b].status = None => \A r \in Row : records[b][r].status # "valid"

IInv ==
    /\ TypeOK
    /\ PromotedIsReal /\ ImportedOnce
    /\ \A b \in Batch : BatchOK(b)
    /\ \A s \in Session : TxnOK(tx[s])
    /\ \A s, t \in Session : s # t => Apart(tx[s], tx[t])

-----------------------------------------------------------------------------
(* Facts about transactions. *)

LEMMA TxnFields ==
    ASSUME NEW x \in Txns
    PROVE  /\ x.op \in {"idle", "validate", "promote"} /\ x.batch \in Batch \cup {None}
           /\ x.todo \subseteq Row /\ x.inserting \in BOOLEAN /\ x.single \in BOOLEAN
           /\ x.expired \in BOOLEAN /\ x.valid \in BOOLEAN /\ x.data \in [Row -> Nat]
           /\ x.wrote \in [Row -> Writes \cup {None}] /\ x.new \subseteq Entities
           /\ x.verdict \in [Row -> {"valid", "invalid", None}]
BY DEF Txns

LEMMA IdleFacts ==
    /\ Idle \in Txns /\ TxnOK(Idle) /\ \A x : Apart(Idle, x) /\ Apart(x, Idle)
<1>1. /\ Idle.op = "idle" /\ Idle.batch = None /\ Idle.todo = {} /\ Idle.inserting = FALSE
      /\ Idle.wrote = [r \in Row |-> None] /\ Idle.new = {} /\ Idle.single = FALSE
  BY DEF Idle
<1>2. Idle \in Txns
  BY DEF Idle, Txns, Missing
<1>3. TxnOK(Idle)
  BY <1>1 DEF TxnOK, BatchOf, WritesOK, SingleOK, KeysOK, CheckedOK
<1>4. \A x : Apart(Idle, x) /\ Apart(x, Idle)
  BY <1>1 DEF Apart
<1> QED
  BY <1>2, <1>3, <1>4

\* A transaction keeps what it relies on while batches other than its own are
\* loaded, its own changes status or is deleted, and rows with other keys
\* are committed.
LEMMA TxnStays ==
    ASSUME NEW x \in Txns, TxnOK(x), entities \subseteq entities',
           \A e \in x.new, f \in entities' \ entities : ~SameKey(f, e),
           x.batch \in Batch =>
              /\ batches[x.batch].status # None => batches'[x.batch].status # None
              /\ Exists(x.batch)' /\ batches[x.batch].status # None =>
                    Exists(x.batch) /\ batches'[x.batch].kind = batches[x.batch].kind
    PROVE  TxnOK(x)'
<1>1. /\ BatchOf(x) /\ WritesOK(x) /\ SingleOK(x) /\ KeysOK(x) /\ CheckedOK(x)
      /\ x.batch \in Batch \cup {None}
  BY TxnFields DEF TxnOK
<1>2. BatchOf(x)'
  BY <1>1 DEF BatchOf
<1>3. WritesOK(x)'
  BY <1>1 DEF WritesOK
<1>4. KeysOK(x)'
  BY <1>1 DEF KeysOK
<1>5. CheckedOK(x)'
  <2> SUFFICES ASSUME x.inserting, NEW r \in x.todo, x.op = "promote",
                      \A q \in x.todo : r <= q, Exists(x.batch)', NEW f \in x.new
               PROVE  ~SameKey(f, Pending(x, r)')
    BY DEF CheckedOK, SameKey, Pending
  <2>1. x.batch \in Batch /\ batches[x.batch].status # None
    BY <1>1 DEF BatchOf
  <2>2. Exists(x.batch) /\ Pending(x, r)' = Pending(x, r)
    BY <2>1 DEF Pending
  <2> QED
    BY <1>1, <2>2 DEF CheckedOK
<1> QED
  BY <1>1, <1>2, <1>3, <1>4, <1>5 DEF TxnOK, SingleOK

\* Committed state stays; the transaction of s becomes x.
LEMMA SessionStep ==
    ASSUME IInv, NEW s \in Session, NEW x \in Txns, tx' = [tx EXCEPT ![s] = x],
           UNCHANGED <<batches, records, entities>>, TxnOK(x),
           \A t \in Session \ {s} : Apart(x, tx[t]) /\ Apart(tx[t], x)
    PROVE  IInv'
<1>1. /\ TypeOK /\ tx \in [Session -> Txns]
  BY DEF IInv, TypeOK
<1>2. tx'[s] = x /\ \A t \in Session \ {s} : tx'[t] = tx[t]
  BY <1>1
<1>3. TypeOK'
  BY <1>1 DEF TypeOK
<1>4. PromotedIsReal' /\ ImportedOnce' /\ \A b \in Batch : BatchOK(b)'
  BY DEF IInv, PromotedIsReal, ImportedOnce, BatchOK, Exists
<1>5. ASSUME NEW y \in Txns, TxnOK(y) PROVE TxnOK(y)'
  BY <1>5, TxnStays DEF Exists
<1>6. ASSUME NEW t \in Session PROVE TxnOK(tx[t])'
  <2>1. PICK y \in Txns : y = tx'[t] /\ TxnOK(y)
    BY <1>1, <1>2 DEF IInv
  <2>2. TxnOK(y)'
    BY <1>5, <2>1
  <2> QED
    BY <2>1, <2>2 DEF TxnOK, BatchOf, WritesOK, SingleOK, KeysOK, CheckedOK, Pending, Exists
<1>7. ASSUME NEW t \in Session, NEW u \in Session, t # u PROVE Apart(tx[t], tx[u])'
  BY <1>2, <1>7 DEF IInv, Apart
<1> QED
  BY <1>3, <1>4, <1>6, <1>7 DEF IInv

-----------------------------------------------------------------------------
(* Steps of ImportService. *)

\* The records of batch b change, and its row; nothing becomes PROMOTED and no
\* record names another row.  The transaction of s ends.
LEMMA StagingStep ==
    ASSUME IInv, NEW b \in Batch, TypeOK', UNCHANGED entities,
           \A t \in Session : tx'[t] = tx[t] \/ tx'[t] = Idle,
           \A c \in Batch \ {b} : batches'[c] = batches[c] /\ records'[c] = records[c],
           batches'[b].status # None, Exists(b)' => batches'[b].kind \in Kind,
           Exists(b)' /\ batches[b].status # None =>
                Exists(b) /\ batches'[b].kind = batches[b].kind,
           \A r \in Row : records'[b][r].status = "promoted" =>
                /\ records[b][r].status = "promoted"
                /\ records'[b][r].entity = records[b][r].entity
    PROVE  IInv'
<1>1. tx \in [Session -> Txns]
  BY DEF IInv, TypeOK
<1>2. PromotedIsReal'
  BY DEF IInv, PromotedIsReal
<1>3. ImportedOnce'
  BY DEF IInv, ImportedOnce
<1>4. ASSUME NEW c \in Batch PROVE BatchOK(c)'
  BY DEF IInv, BatchOK, Exists
<1>5. ASSUME NEW y \in Txns, TxnOK(y) PROVE TxnOK(y)'
  BY <1>5, TxnStays DEF Exists
<1>6. ASSUME NEW t \in Session PROVE TxnOK(tx[t])'
  <2>1. PICK y \in Txns : y = tx'[t] /\ TxnOK(y)
    BY <1>1, IdleFacts DEF IInv
  <2>2. TxnOK(y)'
    BY <1>5, <2>1
  <2> QED
    BY <2>1, <2>2 DEF TxnOK, BatchOf, WritesOK, SingleOK, KeysOK, CheckedOK, Pending, Exists
<1>7. ASSUME NEW t \in Session, NEW u \in Session, t # u PROVE Apart(tx[t], tx[u])'
  <2>1. \A x : Apart(Idle, x) /\ Apart(x, Idle)
    BY IdleFacts
  <2>2. PICK x, y : x = tx'[t] /\ y = tx'[u] /\ Apart(x, y)
    BY <1>7, <2>1 DEF IInv
  <2> QED
    BY <2>2 DEF Apart
<1> QED
  BY <1>2, <1>3, <1>4, <1>6, <1>7 DEF IInv

LEMMA NullFacts ==
    /\ None \notin Batch /\ None \notin Writes /\ None \notin Entities /\ None \notin Kind
    /\ None \notin {"staged", "validated", "completed", "deleted", "valid", "promoted"}
BY ImportsAssumption DEF Statuses

LEMMA LoadStep ==
    ASSUME IInv, NEW file \in File, load_batch(file)
    PROVE  IInv'
<1>0. /\ file.kind \in Kind /\ file.data \in [Row -> Nat]
  BY ImportsAssumption DEF File
<1>1. PICK b \in Unused :
        /\ batches' = [batches EXCEPT ![b] = [kind |-> file.kind, status |-> "staged", valid |-> FALSE]]
        /\ records' = [records EXCEPT ![b] =
                         [r \in Row |-> [status |-> "staged", data |-> file.data[r], entity |-> None]]]
        /\ UNCHANGED <<entities, tx, calls>>
  BY DEF load_batch
<1>2. b \in Batch /\ batches[b].status = None
  BY DEF Unused, NoBatch
<1>3. TypeOK
  BY DEF IInv
<1>4. TypeOK'
  <2>1. [kind |-> file.kind, status |-> "staged", valid |-> FALSE] \in BatchRows
    BY <1>0 DEF BatchRows
  <2>2. [r \in Row |-> [status |-> "staged", data |-> file.data[r], entity |-> None]]
           \in [Row -> RecordRows]
    BY <1>0 DEF Statuses, RecordRows
  <2> QED
    BY <1>1, <1>2, <1>3, <2>1, <2>2 DEF TypeOK
<1>5. /\ batches'[b].kind = file.kind /\ batches'[b].status = "staged"
      /\ \A r \in Row : records'[b][r].status = "staged"
      /\ \A c \in Batch \ {b} : batches'[c] = batches[c] /\ records'[c] = records[c]
  BY <1>1, <1>2, <1>3 DEF TypeOK
<1> QED
  BY <1>0, <1>1, <1>2, <1>4, <1>5, NullFacts, StagingStep

LEMMA CommitValidationStep ==
    ASSUME IInv, NEW s \in Session, CommitValidation(s)
    PROVE  IInv'
<1>t. TypeOK
  BY DEF IInv
<1>x. PICK x \in Txns : x = tx[s] /\ TxnOK(x)
  BY <1>t DEF IInv, TypeOK
<1>b. PICK b \in Batch : b = x.batch
  BY <1>x, TxnFields DEF CommitValidation, TxnOK, BatchOf
<1>0. /\ Exists(b)
      /\ records' = [records EXCEPT ![b] = [r \in Row |->
                         IF x.verdict[r] # None
                         THEN [@[r] EXCEPT !.status = x.verdict[r], !.data = x.data[r]]
                         ELSE @[r]]]
      /\ batches' = [batches EXCEPT ![b].status = "validated", ![b].valid = x.valid]
      /\ tx' = [tx EXCEPT ![s] = Idle]
      /\ UNCHANGED entities
  BY <1>x, <1>b DEF CommitValidation
<1>1. /\ batches' \in [Batch -> BatchRows]
      /\ batches'[b].status = "validated" /\ batches'[b].kind = batches[b].kind
      /\ \A c \in Batch \ {b} : batches'[c] = batches[c]
  <2>1. batches[b] \in BatchRows
    BY <1>t DEF TypeOK
  <2>2. x.valid \in BOOLEAN
    BY TxnFields
  <2>3. batches' = [batches EXCEPT ![b] = [batches[b] EXCEPT !.status = "validated", !.valid = x.valid]]
    BY <1>0
  <2>4. /\ [batches[b] EXCEPT !.status = "validated", !.valid = x.valid] \in BatchRows
        /\ [batches[b] EXCEPT !.status = "validated", !.valid = x.valid].status = "validated"
        /\ [batches[b] EXCEPT !.status = "validated", !.valid = x.valid].kind = batches[b].kind
    BY <2>1, <2>2 DEF BatchRows
  <2> QED
    BY <1>t, <2>3, <2>4 DEF TypeOK
<1>2. ASSUME NEW r \in Row
      PROVE  /\ records'[b][r] \in RecordRows
             /\ records'[b][r].status = "promoted" =>
                   /\ records[b][r].status = "promoted"
                   /\ records'[b][r].entity = records[b][r].entity
  <2>1. /\ x.verdict[r] \in {"valid", "invalid", None} /\ x.data[r] \in Nat
    BY TxnFields
  <2>2. records[b][r] \in RecordRows
    BY <1>t DEF TypeOK
  <2>3. records'[b][r] = IF x.verdict[r] # None
                         THEN [records[b][r] EXCEPT !.status = x.verdict[r], !.data = x.data[r]]
                         ELSE records[b][r]
    BY <1>0, <1>t DEF TypeOK
  <2> QED
    BY <2>1, <2>2, <2>3 DEF Statuses, RecordRows
<1>3. \A c \in Batch \ {b} : records'[c] = records[c]
  BY <1>0, <1>t DEF TypeOK
<1>4. records' \in [Batch -> [Row -> RecordRows]]
  <2>1. records' = [c \in Batch |-> records'[c]] /\ records'[b] = [r \in Row |-> records'[b][r]]
    BY <1>0, <1>t DEF TypeOK
  <2> QED
    BY <1>2, <1>3, <1>t, <2>1 DEF TypeOK
<1>5. /\ tx' \in [Session -> Txns]
      /\ \A t \in Session : tx'[t] = tx[t] \/ tx'[t] = Idle
  BY <1>0, <1>t, IdleFacts DEF TypeOK
<1>6. TypeOK'
  BY <1>0, <1>1, <1>4, <1>5, <1>t DEF TypeOK
<1>7. batches'[b].status # None /\ batches'[b].kind \in Kind
  BY <1>0, <1>1, NullFacts DEF IInv, BatchOK
<1>8. UNCHANGED entities /\ Exists(b)
  BY <1>0
<1> QED
  BY <1>1, <1>2, <1>3, <1>5, <1>6, <1>7, <1>8, StagingStep

LEMMA RetryRecordStep ==
    ASSUME IInv, NEW s \in Session, NEW b \in Batch, NEW r \in Row, NEW d \in Correction,
           retry_record(s, b, r, d)
    PROVE  IInv'
<1>t. TypeOK
  BY DEF IInv
<1> DEFINE st == IF RecordErrors(batches[b].kind, d) THEN "invalid" ELSE "valid"
<1>0. /\ Exists(b) /\ d \in Nat /\ st \in {"valid", "invalid"}
      /\ records' = [records EXCEPT ![b][r].data = d, ![b][r].status = st]
      /\ UNCHANGED <<batches, entities, tx>>
  BY ImportsAssumption DEF retry_record, Correction
<1> HIDE DEF st
<1>1. records[b][r] \in RecordRows
  BY <1>t DEF TypeOK
<1>2. records' = [records EXCEPT ![b] = [records[b] EXCEPT ![r] =
                    [records[b][r] EXCEPT !.data = d, !.status = st]]]
  BY <1>0, <1>t DEF TypeOK
<1>3. /\ [records[b][r] EXCEPT !.data = d, !.status = st]
            \in RecordRows
      /\ [records[b][r] EXCEPT !.data = d, !.status = st].status = st
  BY <1>0, <1>1 DEF Statuses, RecordRows
<1>4. TypeOK'
  BY <1>0, <1>2, <1>3, <1>t DEF TypeOK
<1>5. /\ \A c \in Batch \ {b} : records'[c] = records[c]
      /\ \A q \in Row \ {r} : records'[b][q] = records[b][q]
      /\ records'[b][r].status = st
  BY <1>2, <1>3, <1>t DEF TypeOK
<1>6. st # "promoted" /\ batches[b].kind \in Kind /\ batches[b].status # None
  BY <1>0 DEF IInv, BatchOK, Exists
<1> QED
  BY <1>0, <1>4, <1>5, <1>6, StagingStep DEF Exists

LEMMA DeleteStep ==
    ASSUME IInv, NEW s \in Session, NEW b \in Batch, delete_batch(s, b)
    PROVE  IInv'
<1>t. TypeOK
  BY DEF IInv
<1>0. /\ batches' = [batches EXCEPT ![b] = [NoBatch EXCEPT !.status = "deleted"]]
      /\ records' = [records EXCEPT ![b] = [r \in Row |-> NoRecord]]
      /\ UNCHANGED <<entities, tx>>
  BY DEF delete_batch
<1>d. [NoBatch EXCEPT !.status = "deleted"] \in BatchRows
      /\ [NoBatch EXCEPT !.status = "deleted"].status = "deleted"
  <2>1. NoBatch \in BatchRows
    BY DEF NoBatch, BatchRows
  <2> QED
    BY <2>1 DEF BatchRows
<1>1. /\ NoRecord \in RecordRows
      /\ NoRecord.status = None
  BY DEF NoRecord, Missing, RecordRows
<1>2. TypeOK'
  BY <1>0, <1>1, <1>d, <1>t DEF TypeOK
<1>3. /\ batches'[b].status = "deleted"
      /\ \A c \in Batch \ {b} : batches'[c] = batches[c] /\ records'[c] = records[c]
      /\ \A r \in Row : records'[b][r] = NoRecord
  BY <1>0, <1>1, <1>d, <1>t DEF TypeOK
<1>4. ~Exists(b)' /\ None # "deleted"
  BY <1>3, NullFacts DEF Exists
<1>5. None # "promoted"
  BY NullFacts
<1> QED
  BY <1>0, <1>1, <1>2, <1>3, <1>4, <1>5, StagingStep

LEMMA ValidateStep ==
    ASSUME IInv, NEW s \in Session, NEW b \in Batch, NEW assign \in BOOLEAN,
           validate_batch(s, b, assign)
    PROVE  IInv'
<1> DEFINE old == [r \in Row |-> records[b][r].data]
           data == IF assign THEN AutoAssigned(old) ELSE old
           verdict == [r \in Row |-> Verdict(batches[b].kind, data, r)]
           changed == {r \in Row : verdict[r] # records[b][r].status \/ data[r] # old[r]}
           news == [r \in Row |-> IF r \in changed THEN verdict[r] ELSE None]
           valid == \E r \in Row : verdict[r] = "valid"
           x == [Idle EXCEPT !.op = "validate", !.batch = b, !.data = data,
                             !.verdict = news, !.valid = valid]
<1>1. /\ Exists(b) /\ tx' = [tx EXCEPT ![s] = x]
      /\ UNCHANGED <<batches, records, entities>>
      /\ assign => \A r \in Row : data[r] \in 0 .. MaxCode
  BY DEF validate_batch
<1>2. old \in [Row -> Nat]
  BY DEF IInv, TypeOK, RecordRows
<1>3. data \in [Row -> Nat]
  <2>1. CASE assign
    <3>1. AutoAssigned(old) = [r \in Row |-> AutoAssigned(old)[r]]
      BY DEF AutoAssigned
    <3> QED
      BY <1>1, <2>1, <3>1, ImportsAssumption
  <2> QED
    BY <1>2, <2>1
<1>4. news \in [Row -> {"valid", "invalid", None}] /\ valid \in BOOLEAN
  BY DEF Verdict
<1> HIDE DEF old, data, verdict, changed, news, valid
<1>5. /\ x.op = "validate" /\ x.batch = b /\ x.todo = {} /\ x.inserting = FALSE
      /\ x.wrote = [r \in Row |-> None] /\ x.new = {} /\ x.single = FALSE
  BY DEF Idle
<1>6. x \in Txns
  <2>1. Idle \in Txns
    BY IdleFacts
  <2> QED
    BY <1>3, <1>4, <2>1 DEF Txns
<1> HIDE DEF x
<1>7. TxnOK(x)
  BY <1>1, <1>5, NullFacts DEF TxnOK, BatchOf, WritesOK, SingleOK, KeysOK, CheckedOK, Exists
<1> QED
  BY <1>1, <1>5, <1>6, <1>7, SessionStep DEF Apart

-----------------------------------------------------------------------------
(* Steps of PromotionService. *)

LEMMA BeginStep ==
    ASSUME IInv, NEW s \in Session, NEW b \in Batch, NEW rows \in SUBSET Row, NEW single \in BOOLEAN,
           Begin(s, b, rows, single), batches[b].status # None,
           single => \A p, q \in rows : p = q, UNCHANGED <<batches, records, entities>>
    PROVE  IInv'
<1> DEFINE data == [r \in Row |-> records[b][r].data]
           x == [Idle EXCEPT !.op = "promote", !.batch = b, !.single = single,
                             !.todo = rows, !.data = data]
<1>1. tx' = [tx EXCEPT ![s] = x]
  BY DEF Begin
<1>2. data \in [Row -> Nat]
  BY DEF IInv, TypeOK, RecordRows
<1> HIDE DEF data
<1>3. /\ x.op = "promote" /\ x.batch = b /\ x.todo = rows /\ x.inserting = FALSE
      /\ x.wrote = [r \in Row |-> None] /\ x.new = {} /\ x.single = single
  BY DEF Idle
<1>4. x \in Txns
  <2>1. Idle \in Txns
    BY IdleFacts
  <2> QED
    BY <1>2, <2>1 DEF Txns
<1> HIDE DEF x
<1>5. TxnOK(x)
  BY <1>3, NullFacts DEF TxnOK, BatchOf, WritesOK, SingleOK, KeysOK, CheckedOK
<1> QED
  BY <1>1, <1>3, <1>4, <1>5, SessionStep DEF Apart

LEMMA PromoteBatchStep ==
    ASSUME IInv, NEW s \in Session, NEW b \in Batch, promote_batch(s, b)
    PROVE  IInv'
<1>1. batches[b].status # None /\ ValidRows(b) \in SUBSET Row
  BY NullFacts DEF promote_batch, ValidRows
<1> QED
  BY <1>1, BeginStep DEF promote_batch

\* The record of a batch that was never loaded is not VALID.
LEMMA PromoteRecordStep ==
    ASSUME IInv, NEW s \in Session, NEW b \in Batch, NEW r \in Row, promote_record(s, b, r)
    PROVE  IInv'
<1>1. batches[b].status # None
  BY DEF IInv, BatchOK, promote_record, ValidRows
<1>2. {r} \in SUBSET Row /\ TRUE \in BOOLEAN /\ \A p, q \in {r} : p = q
  OBVIOUS
<1>3. Begin(s, b, {r}, TRUE) /\ UNCHANGED <<batches, records, entities>>
  BY DEF promote_record
<1> QED
  BY <1>1, <1>2, <1>3, BeginStep

\* The transaction of s is done with record r and becomes y.
LEMMA RecordStep ==
    ASSUME IInv, NEW s \in Session, NEW x \in Txns, x = tx[s], NEW r \in x.todo, NEW y \in Txns,
           y.op = x.op, y.batch = x.batch, y.single <=> x.single, y.todo = x.todo \ {r},
           ~y.inserting, WritesOK(y), KeysOK(y),
           \A t \in Session \ {s} : Apart(y, tx[t]) /\ Apart(tx[t], y),
           tx' = [tx EXCEPT ![s] = y], UNCHANGED <<batches, records, entities>>
    PROVE  IInv'
<1>1. BatchOf(x) /\ SingleOK(x)
  BY DEF IInv, TxnOK
<1>2. BatchOf(y) /\ SingleOK(y) /\ CheckedOK(y)
  BY <1>1 DEF BatchOf, SingleOK, CheckedOK
<1> QED
  BY <1>2, SessionStep DEF TxnOK

\* Handled, of any transaction.
Done(x, r, w) == [x EXCEPT !.todo = @ \ {r}, !.inserting = FALSE, !.wrote[r] = w]

LEMMA DoneFacts ==
    ASSUME NEW x \in Txns, NEW r \in Row, NEW w \in Writes, NEW y, y = Done(x, r, w)
    PROVE  /\ y \in Txns /\ y.op = x.op /\ y.batch = x.batch
           /\ y.todo = x.todo \ {r} /\ y.new = x.new
           /\ y.wrote = [x.wrote EXCEPT ![r] = w]
<1>1. y = [x EXCEPT !.todo = x.todo \ {r}, !.inserting = FALSE,
                    !.wrote = [x.wrote EXCEPT ![r] = w]]
  BY DEF Done, Txns
<1>2. [x.wrote EXCEPT ![r] = w] \in [Row -> Writes \cup {None}] /\ x.todo \ {r} \in SUBSET Row
  BY TxnFields
<1>3. y \in Txns
  BY <1>1, <1>2 DEF Txns
<1> QED
  BY <1>1, <1>3 DEF Txns

LEMMA DoneFlags ==
    ASSUME NEW x \in Txns, NEW r \in Row, NEW w \in Writes, NEW y, y = Done(x, r, w)
    PROVE  (y.single <=> x.single) /\ ~y.inserting
BY DEF Done, Txns

\* The records of the rows a transaction inserted are behind it.
LEMMA InsertedBehind ==
    ASSUME NEW x \in Txns, WritesOK(x), NEW r \in x.todo, NEW e \in x.new
    PROVE  e.row # r /\ e \in Entities /\ e.row \in Row
<1>1. e \in Entities /\ e.row \in Row
  BY TxnFields DEF Entities
<1>2. [status |-> "promoted", entity |-> e] \in Writes
  BY <1>1 DEF Writes
<1> QED
  BY <1>1, <1>2, NullFacts DEF WritesOK

LEMMA HandledStep ==
    ASSUME IInv, NEW s \in Session, NEW r \in tx[s].todo,
           NEW st \in {"promoted", "promotion_failed", "skipped"}, NEW e \in Entities \cup {None},
           st = "promoted" => e \in entities \cup tx[s].new,
           tx' = [tx EXCEPT ![s] = Handled(s, r, st, e)], UNCHANGED <<batches, records, entities>>
    PROVE  IInv'
<1>x. PICK x \in Txns : x = tx[s] /\ WritesOK(x) /\ KeysOK(x)
  BY DEF IInv, TypeOK, TxnOK
<1>w. PICK w \in Writes : w = [status |-> st, entity |-> e]
  BY DEF Writes
<1>r. r \in Row /\ r \in x.todo
  BY <1>x, TxnFields
<1>y. PICK y : y = Handled(s, r, st, e) /\ y = Done(x, r, w)
  BY <1>x, <1>w DEF Handled, Done
<1>1. /\ y \in Txns /\ y.op = x.op /\ y.batch = x.batch /\ (y.single <=> x.single)
      /\ y.todo = x.todo \ {r} /\ ~y.inserting /\ y.new = x.new
      /\ y.wrote[r] = [status |-> st, entity |-> e]
      /\ \A q \in Row \ {r} : y.wrote[q] = x.wrote[q]
  <2>1. /\ y \in Txns /\ y.op = x.op /\ y.batch = x.batch
        /\ y.todo = x.todo \ {r} /\ y.new = x.new
        /\ y.wrote = [x.wrote EXCEPT ![r] = w]
    BY <1>r, <1>y, DoneFacts
  <2>2. (y.single <=> x.single) /\ ~y.inserting
    BY <1>r, <1>y, DoneFlags
  <2>5. x.wrote \in [Row -> Writes \cup {None}]
    BY TxnFields
  <2> QED
    BY <1>r, <1>w, <2>1, <2>2, <2>5
<1>2. WritesOK(y)
  <2>1. \A f \in y.new : f.batch = y.batch /\ y.wrote[f.row] = [status |-> "promoted", entity |-> f]
    <3> SUFFICES ASSUME NEW f \in y.new
                 PROVE  f.batch = y.batch /\ y.wrote[f.row] = [status |-> "promoted", entity |-> f]
      OBVIOUS
    <3>1. f \in x.new /\ f.row # r /\ f.row \in Row
      BY <1>1, <1>x, InsertedBehind
    <3> QED
      BY <1>1, <1>x, <3>1 DEF WritesOK
  <2>2. \A q \in Row : y.wrote[q] # None /\ y.wrote[q].status = "promoted" =>
                         y.wrote[q].entity \in entities \cup y.new
    BY <1>1, <1>x DEF WritesOK
  <2>3. \A q \in y.todo : y.wrote[q] = None
    BY <1>1, <1>x, TxnFields DEF WritesOK
  <2> QED
    BY <2>1, <2>2, <2>3 DEF WritesOK
<1>3. KeysOK(y)
  BY <1>1, <1>x DEF KeysOK
<1>4. \A t \in Session \ {s} : Apart(y, tx[t]) /\ Apart(tx[t], y)
  BY <1>1, <1>x DEF IInv, Apart
<1> QED
  BY <1>1, <1>2, <1>3, <1>4, <1>x, <1>y, RecordStep

LEMMA PromotionFailsStep ==
    ASSUME IInv, NEW s \in Session, NEW r \in Row, PromotionFails(s, r)
    PROVE  IInv'
<1>1. /\ r \in tx[s].todo /\ tx' = [tx EXCEPT ![s] = Handled(s, r, "promotion_failed", None)]
      /\ UNCHANGED <<batches, records, entities>>
  BY DEF PromotionFails, AtRecord, Failed
<1> QED
  BY <1>1, HandledStep

\* The row for a record of an existing batch.
LEMMA EntityFacts ==
    ASSUME IInv, NEW s \in Session, NEW r \in Row, tx[s].op = "promote", Exists(tx[s].batch)
    PROVE  /\ tx[s].batch \in Batch /\ Entity(s, r) \in Entities
           /\ Entity(s, r).row = r /\ Entity(s, r).batch = tx[s].batch
           /\ Entity(s, r).kind = batches[tx[s].batch].kind
<1>x. PICK x \in Txns : x = tx[s] /\ BatchOf(x)
  BY DEF IInv, TypeOK, TxnOK
<1>b. PICK b \in Batch : b = x.batch
  BY <1>x, TxnFields DEF BatchOf
<1>1. batches[b].kind \in Kind /\ records[b][r].data \in Nat /\ x.data[r] \in Nat
  BY <1>b, <1>x, TxnFields DEF IInv, BatchOK, TypeOK, RecordRows
<1>2. Entity(s, r) = [kind |-> batches[b].kind, row |-> r, batch |-> b,
                      data |-> IF x.expired /\ ~x.inserting THEN records[b][r].data ELSE x.data[r]]
  BY <1>b, <1>x DEF Entity
<1> QED
  BY <1>1, <1>2, <1>b, <1>x DEF Entities

LEMMA CheckRecordStep ==
    ASSUME IInv, NEW s \in Session, NEW r \in Row, CheckRecord(s, r)
    PROVE  IInv'
<1> DEFINE e == Entity(s, r)
           seen == {f \in entities \cup tx[s].new : SameKey(f, e)}
           first == CHOOSE f \in seen : TRUE
           goOn == [tx[s] EXCEPT !.inserting = TRUE, !.data[r] = e.data]
<1>1. /\ tx[s].op = "promote" /\ r \in tx[s].todo /\ \A q \in tx[s].todo : r <= q
      /\ Exists(tx[s].batch) /\ UNCHANGED <<batches, records, entities>>
  BY DEF CheckRecord, AtRecord
<1>2. /\ e \in Entities /\ e.row = r /\ e.batch = tx[s].batch
      /\ e.kind = batches[tx[s].batch].kind /\ e.kind \in {"account", "journal"}
  BY <1>1, EntityFacts DEF Entities, Kind
<1>3. \/ tx' = [tx EXCEPT ![s] = Handled(s, r, "promotion_failed", None)]
      \/ tx' = [tx EXCEPT ![s] = Handled(s, r, "skipped", None)]
      \/ seen # {} /\ tx' = [tx EXCEPT ![s] = Handled(s, r, "promoted", first)]
      \/ /\ tx' = [tx EXCEPT ![s] = goOn]
         /\ IF tx[s].single THEN e.kind = "account" ELSE seen = {}
  <2>1. CASE e.kind = "journal" /\ tx[s].single
    BY <2>1 DEF CheckRecord, Failed
  <2>2. CASE e.kind = "account" /\ seen # {} /\ ~tx[s].single
    BY <2>2 DEF CheckRecord
  <2>3. CASE e.kind = "journal" /\ seen # {} /\ ~tx[s].single
    <3>1. tx' = [tx EXCEPT ![s] = IF first.batch = e.batch THEN Handled(s, r, "promoted", first)
                                  ELSE Failed(s, r)]
      BY <2>3 DEF CheckRecord
    <3> QED
      BY <2>3, <3>1 DEF Failed
  <2>4. CASE /\ ~(e.kind = "journal" /\ tx[s].single)
             /\ ~(e.kind = "account" /\ seen # {} /\ ~tx[s].single)
             /\ ~(e.kind = "journal" /\ seen # {} /\ ~tx[s].single)
    <3>1. tx' = [tx EXCEPT ![s] = goOn]
      BY <2>4 DEF CheckRecord
    <3> QED
      BY <1>2, <2>4, <3>1
  <2> QED
    BY <2>1, <2>2, <2>3, <2>4
<1>4. seen # {} => first \in entities \cup tx[s].new
  OBVIOUS
<1>5. entities \cup tx[s].new \subseteq Entities
  BY DEF IInv, TypeOK, Txns
<1>6. CASE \/ tx' = [tx EXCEPT ![s] = Handled(s, r, "promotion_failed", None)]
           \/ tx' = [tx EXCEPT ![s] = Handled(s, r, "skipped", None)]
  BY <1>1, <1>6, HandledStep
<1>7. CASE seen # {} /\ tx' = [tx EXCEPT ![s] = Handled(s, r, "promoted", first)]
  <2>1. PICK f \in Entities : f = first /\ f \in entities \cup tx[s].new
    BY <1>4, <1>5, <1>7
  <2>2. tx' = [tx EXCEPT ![s] = Handled(s, r, "promoted", f)]
    BY <1>7, <2>1
  <2> HIDE DEF first, seen
  <2> QED
    BY <1>1, <2>1, <2>2, HandledStep
<1>8. CASE /\ tx' = [tx EXCEPT ![s] = goOn]
           /\ IF tx[s].single THEN e.kind = "account" ELSE seen = {}
  <2>x. PICK x \in Txns : x = tx[s] /\ TxnOK(x)
    BY DEF IInv, TypeOK
  <2>d. PICK d \in Nat : d = e.data
    BY <1>2 DEF Entities
  <2>y. PICK y : y = [x EXCEPT !.inserting = TRUE, !.data = [x.data EXCEPT ![r] = d]]
    OBVIOUS
  <2>1. [x.data EXCEPT ![r] = d] \in [Row -> Nat]
    BY TxnFields
  <2>2. y \in Txns
    BY <2>1, <2>y DEF Txns
  <2>3. /\ y.op = x.op /\ y.batch = x.batch /\ y.todo = x.todo /\ y.new = x.new
        /\ y.wrote = x.wrote /\ y.data = [x.data EXCEPT ![r] = d]
    BY <2>y DEF Txns
  <2>4. y.single <=> x.single
    BY <2>y DEF Txns
  <2>5. tx' = [tx EXCEPT ![s] = y]
    BY <1>8, <2>d, <2>x, <2>y DEF Txns
  <2>6. BatchOf(y) /\ WritesOK(y) /\ SingleOK(y) /\ KeysOK(y)
    BY <2>3, <2>4, <2>x DEF TxnOK, BatchOf, WritesOK, SingleOK, KeysOK
  <2>7. CheckedOK(y)
    <3> SUFFICES ASSUME NEW q \in x.todo, \A p \in x.todo : q <= p, NEW f \in x.new
                 PROVE  ~SameKey(f, Pending(y, q))
      BY <2>3 DEF CheckedOK
    <3>1. q = r
      BY <1>1, <2>x, TxnFields DEF Row
    <3>2. Pending(y, q).kind = e.kind /\ Pending(y, q).row = r /\ Pending(y, q).data = e.data
      <4>1. y.data[r] = e.data
        BY <2>3, <2>d, TxnFields
      <4> QED
        BY <1>2, <2>3, <2>x, <3>1, <4>1 DEF Pending
    <3>3. ~x.single
      BY <1>1, <2>x DEF TxnOK, SingleOK
    <3>4. ~SameKey(f, e)
      BY <1>8, <2>x, <3>3
    <3> QED
      BY <1>2, <3>2, <3>4 DEF SameKey
  <2>8. \A t \in Session \ {s} : Apart(y, tx[t]) /\ Apart(tx[t], y)
    BY <2>3, <2>x DEF IInv, Apart
  <2> QED
    BY <1>1, <2>2, <2>5, <2>6, <2>7, <2>8, SessionStep DEF TxnOK
<1> QED
  BY <1>3, <1>6, <1>7, <1>8

LEMMA InsertRecordStep ==
    ASSUME IInv, NEW s \in Session, NEW r \in Row, InsertRecord(s, r)
    PROVE  IInv'
<1>e. PICK e : e = Entity(s, r)
  OBVIOUS
<1>0. /\ tx[s].op = "promote" /\ r \in tx[s].todo /\ \A q \in tx[s].todo : r <= q
      /\ tx[s].inserting /\ Exists(tx[s].batch) /\ ~Taken(e) /\ ~HeldByOther(s, e)
      /\ tx' = [tx EXCEPT ![s] = [Handled(s, r, "promoted", e) EXCEPT !.new = @ \cup {e}]]
      /\ UNCHANGED <<batches, records, entities>>
  BY <1>e DEF InsertRecord, AtRecord
<1>1. e \in Entities /\ e.row = r /\ e.batch = tx[s].batch /\ e.kind = batches[tx[s].batch].kind
  BY <1>0, <1>e, EntityFacts
<1>x. PICK x \in Txns : x = tx[s] /\ TxnOK(x)
  BY DEF IInv, TypeOK
<1>w. PICK w \in Writes : w = [status |-> "promoted", entity |-> e]
  BY <1>1 DEF Writes
<1>z. PICK z : z = Done(x, r, w)
  OBVIOUS
<1>h. z = Handled(s, r, "promoted", e) /\ r \in x.todo
  BY <1>0, <1>x, <1>w, <1>z DEF Handled, Done
<1>2. /\ z \in Txns /\ z.op = x.op /\ z.batch = x.batch
      /\ z.todo = x.todo \ {r} /\ z.new = x.new /\ z.wrote = [x.wrote EXCEPT ![r] = w]
  BY <1>z, DoneFacts
<1>3. (z.single <=> x.single) /\ ~z.inserting
  BY <1>z, DoneFlags
<1>y. PICK y : y = [z EXCEPT !.new = x.new \cup {e}] /\ tx' = [tx EXCEPT ![s] = y]
  BY <1>0, <1>2, <1>h
<1>4. /\ y.op = x.op /\ y.batch = x.batch
      /\ y.todo = x.todo \ {r} /\ y.new = x.new \cup {e} /\ y.wrote = [x.wrote EXCEPT ![r] = w]
  BY <1>2, <1>y DEF Txns
<1>5. y \in Txns
  <2>1. x.new \cup {e} \in SUBSET Entities
    BY <1>1, TxnFields
  <2> QED
    BY <1>2, <1>y, <2>1 DEF Txns
<1>6. (y.single <=> x.single) /\ ~y.inserting
  BY <1>2, <1>3, <1>y DEF Txns
<1>7. y.wrote[r] = w /\ \A q \in Row \ {r} : y.wrote[q] = x.wrote[q]
  BY <1>4, TxnFields
<1>8. WritesOK(y)
  <2>1. ASSUME NEW f \in x.new
        PROVE  f.batch = y.batch /\ y.wrote[f.row] = [status |-> "promoted", entity |-> f]
    <3>1. f.row # r /\ f.row \in Row
      BY <1>h, <1>x, InsertedBehind DEF TxnOK
    <3> QED
      BY <1>4, <1>7, <1>x, <3>1 DEF TxnOK, WritesOK
  <2>2. e.batch = y.batch /\ y.wrote[e.row] = [status |-> "promoted", entity |-> e]
    BY <1>1, <1>4, <1>7, <1>w, <1>x
  <2>3. \A q \in Row : y.wrote[q] # None /\ y.wrote[q].status = "promoted" =>
                         y.wrote[q].entity \in entities \cup y.new
    BY <1>4, <1>7, <1>w, <1>x DEF TxnOK, WritesOK
  <2>4. \A q \in y.todo : y.wrote[q] = None
    BY <1>4, <1>7, <1>x, TxnFields DEF TxnOK, WritesOK
  <2> QED
    BY <1>4, <2>1, <2>2, <2>3, <2>4 DEF WritesOK
<1>9. \A f \in x.new : ~SameKey(f, e) /\ ~SameKey(e, f)
  <2>1. e = Pending(x, r)
    BY <1>0, <1>e, <1>x DEF Entity, Pending
  <2>2. \A f \in x.new : ~SameKey(f, e)
    BY <1>0, <1>x, <2>1 DEF TxnOK, CheckedOK
  <2> QED
    BY <2>2 DEF SameKey
<1>10. KeysOK(y)
  BY <1>0, <1>4, <1>9, <1>x DEF TxnOK, KeysOK, Taken
<1>11. ASSUME NEW t \in Session \ {s} PROVE Apart(y, tx[t]) /\ Apart(tx[t], y)
  <2>1. \A f \in tx[t].new : ~SameKey(f, e) /\ ~SameKey(e, f)
    BY <1>0 DEF HeldByOther, SameKey
  <2>2. Apart(x, tx[t]) /\ Apart(tx[t], x)
    BY <1>x DEF IInv
  <2> QED
    BY <1>4, <2>1, <2>2 DEF Apart
<1>12. x = tx[s] /\ r \in x.todo /\ y.op = x.op /\ y.batch = x.batch /\ y.todo = x.todo \ {r}
  BY <1>4, <1>h, <1>x
<1>13. tx' = [tx EXCEPT ![s] = y] /\ UNCHANGED <<batches, records, entities>>
  BY <1>0, <1>y
<1> QED
  BY <1>5, <1>6, <1>8, <1>10, <1>11, <1>12, <1>13, RecordStep

LEMMA InsertConflictsStep ==
    ASSUME IInv, NEW s \in Session, NEW r \in Row, InsertConflicts(s, r)
    PROVE  IInv'
<1>0. r \in tx[s].todo /\ UNCHANGED <<batches, records, entities>>
  BY DEF InsertConflicts, AtRecord
<1>x. PICK x \in Txns : x = tx[s] /\ TxnOK(x) /\ r \in x.todo
  BY <1>0 DEF IInv, TypeOK
<1>1. CASE Entity(s, r).kind = "account"
  <2>1. tx' = [tx EXCEPT ![s] = Handled(s, r, "promotion_failed", None)]
    BY <1>1 DEF InsertConflicts, Failed
  <2> QED
    BY <1>0, <2>1, HandledStep
<1>2. CASE Entity(s, r).kind # "account"
  <2>w. PICK w \in Writes : w = [status |-> "promotion_failed", entity |-> None]
    BY DEF Writes
  <2>z. PICK z : z = Done(x, r, w)
    OBVIOUS
  <2>h. z = Failed(s, r)
    BY <1>x, <2>w, <2>z DEF Failed, Handled, Done
  <2>1. /\ z \in Txns /\ z.op = x.op /\ z.batch = x.batch
        /\ z.todo = x.todo \ {r} /\ z.new = x.new /\ z.wrote = [x.wrote EXCEPT ![r] = w]
    BY <2>z, DoneFacts
  <2>2. (z.single <=> x.single) /\ ~z.inserting
    BY <2>z, DoneFlags
  <2>3. PICK v : v = [q \in Row |-> IF q = r THEN z.wrote[q] ELSE None]
    OBVIOUS
  <2>y. PICK y : /\ y = [z EXCEPT !.new = {}, !.expired = TRUE, !.wrote = v]
                 /\ tx' = [tx EXCEPT ![s] = y]
    BY <1>2, <2>1, <2>3, <2>h DEF InsertConflicts
  <2>4. v \in [Row -> Writes \cup {None}] /\ v[r] = w /\ \A q \in Row \ {r} : v[q] = None
    BY <2>1, <2>3, TxnFields
  <2>5. y \in Txns
    BY <2>1, <2>4, <2>y DEF Txns
  <2>6. y.op = x.op /\ y.batch = x.batch /\ y.todo = x.todo \ {r} /\ y.new = {} /\ y.wrote = v
    BY <2>1, <2>y DEF Txns
  <2>7. (y.single <=> x.single) /\ ~y.inserting
    BY <2>1, <2>2, <2>y DEF Txns
  <2>8. WritesOK(y) /\ KeysOK(y)
    BY <1>x, <2>4, <2>6, <2>w, TxnFields DEF WritesOK, KeysOK
  <2>9. \A t \in Session \ {s} : Apart(y, tx[t]) /\ Apart(tx[t], y)
    BY <2>6 DEF Apart
  <2>10. tx' = [tx EXCEPT ![s] = y]
    BY <2>y
  <2> QED
    BY <1>0, <1>x, <2>5, <2>6, <2>7, <2>8, <2>9, <2>10, RecordStep
<1> QED
  BY <1>1, <1>2

LEMMA AbortStep ==
    ASSUME IInv, NEW s \in Session, Abort(s)
    PROVE  IInv'
<1>1. tx' = [tx EXCEPT ![s] = Idle] /\ UNCHANGED <<batches, records, entities>>
  BY DEF Abort
<1> QED
  BY <1>1, IdleFacts, SessionStep

LEMMA UpdatedFacts ==
    ASSUME NEW row \in RecordRows, NEW w \in Writes \cup {None}
    PROVE  /\ Updated(row, w) \in RecordRows
           /\ w # None => Updated(row, w).status = w.status
           /\ w # None /\ w.status = "promoted" => Updated(row, w).entity = w.entity
BY DEF Updated, RecordRows, Writes, Statuses

\* What a commit publishes.
LEMMA CommitFacts ==
    ASSUME IInv, NEW s \in Session, CommitPromotion(s), NEW x \in Txns, x = tx[s]
    PROVE  /\ x.batch \in Batch /\ Exists(x.batch) /\ TxnOK(x)
           /\ entities' = entities \cup x.new
           /\ \A c \in Batch \ {x.batch} : records'[c] = records[c]
           /\ records' \in [Batch -> [Row -> RecordRows]]
           /\ \A r \in Row : records'[x.batch][r] = Updated(records[x.batch][r], x.wrote[r])
<1>1. TxnOK(x) /\ x.batch \in Batch
  BY TxnFields DEF IInv, TxnOK, BatchOf, CommitPromotion
<1>b. PICK b \in Batch : b = x.batch
  BY <1>1
<1>f. PICK f : f = [r \in Row |-> Updated(records[b][r], x.wrote[r])]
  OBVIOUS
<1>2. /\ Exists(b) /\ entities' = entities \cup x.new
      /\ records' = [records EXCEPT ![b] = f]
  <2>1. Exists(b) /\ entities' = entities \cup x.new
    BY <1>b DEF CommitPromotion
  <2>2. records' = [records EXCEPT ![b] = [r \in Row |-> Updated(records[b][r], x.wrote[r])]]
    BY <1>b DEF CommitPromotion
  <2> QED
    BY <1>f, <2>1, <2>2
<1>3. records \in [Batch -> [Row -> RecordRows]]
  BY DEF IInv, TypeOK
<1>4. f \in [Row -> RecordRows]
  <2>1. ASSUME NEW r \in Row PROVE Updated(records[b][r], x.wrote[r]) \in RecordRows
    <3>1. records[b][r] \in RecordRows /\ x.wrote[r] \in Writes \cup {None}
      BY <1>3, TxnFields
    <3> QED
      BY <3>1, UpdatedFacts
  <2> QED
    BY <1>f, <2>1
<1>5. /\ records' \in [Batch -> [Row -> RecordRows]] /\ records'[b] = f
      /\ \A c \in Batch \ {b} : records'[c] = records[c]
  BY <1>2, <1>3, <1>4
<1> QED
  BY <1>1, <1>2, <1>5, <1>b, <1>f

LEMMA CommitPromotionStep ==
    ASSUME IInv, NEW s \in Session, CommitPromotion(s)
    PROVE  IInv'
<1>t. TypeOK
  BY DEF IInv
<1>x. PICK x \in Txns : x = tx[s]
  BY <1>t DEF TypeOK
<1>1. /\ x.batch \in Batch /\ Exists(x.batch) /\ TxnOK(x)
      /\ entities' = entities \cup x.new
      /\ \A c \in Batch \ {x.batch} : records'[c] = records[c]
      /\ records' \in [Batch -> [Row -> RecordRows]]
      /\ \A r \in Row : records'[x.batch][r] = Updated(records[x.batch][r], x.wrote[r])
  BY <1>x, CommitFacts
<1>b. PICK b \in Batch : b = x.batch
  BY <1>1
<1>2. /\ batches' \in [Batch -> BatchRows]
      /\ \A c \in Batch \ {b} : batches'[c] = batches[c]
      /\ batches'[b].kind = batches[b].kind /\ batches'[b].status \in {batches[b].status, "completed"}
  <2>1. \/ batches' = batches
        \/ batches' = [batches EXCEPT ![b] = [batches[b] EXCEPT !.status = "completed"]]
    BY <1>b, <1>x DEF CommitPromotion
  <2>2. batches \in [Batch -> BatchRows] /\ batches[b] \in BatchRows
    BY <1>t DEF TypeOK
  <2>3. /\ [batches[b] EXCEPT !.status = "completed"] \in BatchRows
        /\ [batches[b] EXCEPT !.status = "completed"].kind = batches[b].kind
        /\ [batches[b] EXCEPT !.status = "completed"].status = "completed"
    BY <2>2 DEF BatchRows
  <2> QED
    BY <2>1, <2>2, <2>3
<1>3. tx' = [tx EXCEPT ![s] = Idle] /\ tx \in [Session -> Txns]
  BY <1>t DEF CommitPromotion, TypeOK
<1>4. tx' \in [Session -> Txns] /\ tx'[s] = Idle /\ \A t \in Session \ {s} : tx'[t] = tx[t]
  BY <1>3, IdleFacts
<1>5. TypeOK'
  BY <1>1, <1>2, <1>4, <1>t, TxnFields DEF TypeOK
<1>6. PromotedIsReal'
  <2> SUFFICES ASSUME NEW c \in Batch, NEW r \in Row, records'[c][r].status = "promoted"
               PROVE  records'[c][r].entity \in entities'
    BY DEF PromotedIsReal
  <2>1. CASE records'[c][r] = records[c][r]
    BY <1>1, <2>1 DEF IInv, PromotedIsReal
  <2>2. CASE c = b /\ x.wrote[r] # None
    <3>1. x.wrote[r] \in Writes \cup {None} /\ records[b][r] \in RecordRows
      BY <1>t, TxnFields DEF TypeOK
    <3>2. x.wrote[r].status = "promoted" /\ records'[b][r].entity = x.wrote[r].entity
      BY <1>1, <1>b, <2>2, <3>1, UpdatedFacts
    <3> QED
      BY <1>1, <2>2, <3>2 DEF TxnOK, WritesOK
  <2>3. c # b \/ x.wrote[r] = None => records'[c][r] = records[c][r]
    BY <1>1, <1>b DEF Updated
  <2> QED
    BY <2>1, <2>2, <2>3
<1>7. ImportedOnce'
  BY <1>1 DEF IInv, ImportedOnce, TxnOK, KeysOK, SameKey
<1>8. Exists(b) /\ batches[b].status # None /\ batches'[b].status # None /\ Exists(b)'
  BY <1>1, <1>2, <1>b, NullFacts DEF Exists
<1>9. ASSUME NEW c \in Batch PROVE BatchOK(c)'
  BY <1>1, <1>2, <1>8, <1>b DEF IInv, BatchOK, Exists
<1>10. ASSUME NEW y \in Txns, TxnOK(y), Apart(x, y) PROVE TxnOK(y)'
  <2>1. \A e \in y.new, f \in entities' \ entities : ~SameKey(f, e)
    BY <1>1, <1>10 DEF Apart
  <2>2. \A c \in Batch : /\ batches[c].status # None => batches'[c].status # None
                         /\ Exists(c)' => Exists(c) /\ batches'[c].kind = batches[c].kind
    BY <1>2, <1>8 DEF Exists
  <2> QED
    BY <1>1, <1>10, <2>1, <2>2, TxnStays
<1>11. ASSUME NEW t \in Session PROVE TxnOK(tx[t])'
  <2>1. PICK y \in Txns : y = tx'[t] /\ TxnOK(y) /\ Apart(x, y)
    BY <1>3, <1>4, <1>x, IdleFacts DEF IInv
  <2>2. TxnOK(y)'
    BY <1>10, <2>1
  <2> QED
    BY <2>1, <2>2 DEF TxnOK, BatchOf, WritesOK, SingleOK, KeysOK, CheckedOK, Pending, Exists
<1>12. ASSUME NEW t \in Session, NEW u \in Session, t # u PROVE Apart(tx[t], tx[u])'
  <2>1. \A y : Apart(Idle, y) /\ Apart(y, Idle)
    BY IdleFacts
  <2>2. PICK y, z : y = tx'[t] /\ z = tx'[u] /\ Apart(y, z)
    BY <1>4, <1>12, <2>1 DEF IInv
  <2> QED
    BY <2>2 DEF Apart
<1> QED
  BY <1>5, <1>6, <1>7, <1>9, <1>11, <1>12 DEF IInv

-----------------------------------------------------------------------------
(* The invariant is inductive. *)

LEMMA InitStep ==
    ASSUME Init PROVE IInv
<1>1. NoBatch \in BatchRows /\ NoRecord \in RecordRows /\ NoBatch.status = None /\ NoRecord.status = None
  BY DEF NoBatch, NoRecord, BatchRows, RecordRows, Missing
<1>2. TypeOK
  BY <1>1, IdleFacts DEF Init, TypeOK
<1>3. PromotedIsReal /\ ImportedOnce
  BY <1>1, NullFacts DEF Init, PromotedIsReal, ImportedOnce
<1>4. \A b \in Batch : BatchOK(b)
  BY <1>1, NullFacts DEF Init, BatchOK, Exists
<1>5. \A s \in Session : TxnOK(tx[s])
  <2>1. \A s \in Session : tx[s] = Idle
    BY DEF Init
  <2> QED
    BY <2>1, IdleFacts
<1>6. \A s, t \in Session : s # t => Apart(tx[s], tx[t])
  BY IdleFacts DEF Init
<1> QED
  BY <1>2, <1>3, <1>4, <1>5, <1>6 DEF IInv

LEMMA StutterStep ==
    ASSUME IInv, UNCHANGED vars PROVE IInv'
BY DEF vars, IInv, TypeOK, PromotedIsReal, ImportedOnce, BatchOK, TxnOK, BatchOf, WritesOK, SingleOK,
       KeysOK, CheckedOK, Pending, Exists, Apart

LEMMA NextStep ==
    ASSUME IInv, [Next]_vars PROVE IInv'
<1>1. CASE UNCHANGED vars
  BY <1>1, StutterStep
<1>2. ASSUME NEW file \in File, load_batch(file) PROVE IInv'
  BY <1>2, LoadStep
<1>3. ASSUME NEW s \in Session, CommitValidation(s) PROVE IInv'
  BY <1>3, CommitValidationStep
<1>4. ASSUME NEW s \in Session, CommitPromotion(s) PROVE IInv'
  BY <1>4, CommitPromotionStep
<1>5. ASSUME NEW s \in Session, Abort(s) PROVE IInv'
  BY <1>5, AbortStep
<1>6. ASSUME NEW s \in Session, NEW r \in Row, CheckRecord(s, r) PROVE IInv'
  BY <1>6, CheckRecordStep
<1>7. ASSUME NEW s \in Session, NEW r \in Row, InsertRecord(s, r) PROVE IInv'
  BY <1>7, InsertRecordStep
<1>8. ASSUME NEW s \in Session, NEW r \in Row, InsertConflicts(s, r) PROVE IInv'
  BY <1>8, InsertConflictsStep
<1>9. ASSUME NEW s \in Session, NEW r \in Row, PromotionFails(s, r) PROVE IInv'
  BY <1>9, PromotionFailsStep
<1>10. ASSUME NEW s \in Session, NEW b \in Batch, NEW assign \in BOOLEAN,
              validate_batch(s, b, assign)
       PROVE  IInv'
  BY <1>10, ValidateStep
<1>11. ASSUME NEW s \in Session, NEW b \in Batch, delete_batch(s, b) PROVE IInv'
  BY <1>11, DeleteStep
<1>12. ASSUME NEW s \in Session, NEW b \in Batch, promote_batch(s, b) PROVE IInv'
  BY <1>12, PromoteBatchStep
<1>13. ASSUME NEW s \in Session, NEW b \in Batch, NEW r \in Row, promote_record(s, b, r) PROVE IInv'
  BY <1>13, PromoteRecordStep
<1>14. ASSUME NEW s \in Session, NEW b \in Batch, NEW r \in Row, NEW d \in Correction,
              retry_record(s, b, r, d)
       PROVE  IInv'
  BY <1>14, RetryRecordStep
<1> QED
  BY <1>1, <1>2, <1>3, <1>4, <1>5, <1>6, <1>7, <1>8, <1>9, <1>10, <1>11, <1>12, <1>13, <1>14
     DEF Next

\* The invariant holds in every state the import and promotion services reach.
THEOREM Inductive == Spec => []IInv
<1>1. Init => IInv
  BY InitStep
<1>2. IInv /\ [Next]_vars => IInv'
  BY NextStep
<1> QED
  BY <1>1, <1>2, PTL DEF Spec

-----------------------------------------------------------------------------
(* What staging and promotion keep. *)

\* The staged rows, the live rows and the open transactions of validations and
\* promotions have their types in every reachable state.
THEOREM TypeCorrect == Spec => []TypeOK
<1>1. IInv => TypeOK
  BY DEF IInv
<1> QED
  BY <1>1, Inductive, PTL

\* A committed record with the status PROMOTED names a committed account or
\* entry, although the ingestor may roll the whole session back in the middle
\* of promote_batch and retry_record overwrites promoted records.
THEOREM PromotedIsRealHolds == Spec => []PromotedIsReal
<1>1. IInv => PromotedIsReal
  BY DEF IInv
<1> QED
  BY <1>1, Inductive, PTL

\* However often, in however many batches and by however many sessions a row is
\* staged and promoted, there is one account for its code and one entry for
\* its content: check_duplicate and the unique index close the race together.
THEOREM ImportedOnceHolds == Spec => []ImportedOnce
<1>1. IInv => ImportedOnce
  BY DEF IInv
<1> QED
  BY <1>1, Inductive, PTL

\* Only the commit of a promotion adds live rows, and it marks the record that
\* each one came from as PROMOTED: the savepoint of a failed record leaves
\* nothing behind (IM-15).
THEOREM NoOrphanEntityHolds == Spec => NoOrphanEntity
<1> DEFINE A == \A e \in entities' \ entities :
                  /\ records'[e.batch][e.row].status = "promoted"
                  /\ records'[e.batch][e.row].entity = e
<1>1. ASSUME NEW s \in Session, IInv, CommitPromotion(s) PROVE A
  <2>x. PICK x \in Txns : x = tx[s]
    BY <1>1 DEF IInv, TypeOK
  <2> SUFFICES ASSUME NEW e \in entities' \ entities
               PROVE  /\ records'[e.batch][e.row].status = "promoted"
                      /\ records'[e.batch][e.row].entity = e
    OBVIOUS
  <2>1. /\ x.batch \in Batch /\ TxnOK(x) /\ e \in x.new
        /\ \A r \in Row : records'[x.batch][r] = Updated(records[x.batch][r], x.wrote[r])
    BY <1>1, <2>x, CommitFacts
  <2>2. e \in Entities /\ e.row \in Row
    BY <2>1, TxnFields DEF Entities
  <2>3. e.batch = x.batch /\ x.wrote[e.row] = [status |-> "promoted", entity |-> e]
    BY <2>1 DEF TxnOK, WritesOK
  <2>4. [status |-> "promoted", entity |-> e] \in Writes /\ records[x.batch][e.row] \in RecordRows
    BY <1>1, <2>1, <2>2 DEF IInv, TypeOK, Writes
  <2> QED
    BY <2>1, <2>2, <2>3, <2>4, NullFacts, UpdatedFacts
<1>2. ASSUME Next, ~\E s \in Session : CommitPromotion(s) PROVE UNCHANGED entities
  <2>1. ASSUME NEW file \in File, load_batch(file) PROVE UNCHANGED entities
    BY <2>1 DEF load_batch
  <2>2. ASSUME NEW s \in Session, CommitValidation(s) \/ Abort(s) PROVE UNCHANGED entities
    BY <2>2 DEF CommitValidation, Abort
  <2>3. ASSUME NEW s \in Session, NEW r \in Row,
               CheckRecord(s, r) \/ InsertRecord(s, r) \/ InsertConflicts(s, r) \/ PromotionFails(s, r)
        PROVE  UNCHANGED entities
    BY <2>3 DEF CheckRecord, InsertRecord, InsertConflicts, PromotionFails
  <2>4. ASSUME NEW s \in Session, NEW b \in Batch, NEW assign \in BOOLEAN,
               validate_batch(s, b, assign)
        PROVE  UNCHANGED entities
    BY <2>4 DEF validate_batch
  <2>5. ASSUME NEW s \in Session, NEW b \in Batch, delete_batch(s, b) \/ promote_batch(s, b)
        PROVE  UNCHANGED entities
    BY <2>5 DEF delete_batch, promote_batch
  <2>6. ASSUME NEW s \in Session, NEW b \in Batch, NEW r \in Row, promote_record(s, b, r)
        PROVE  UNCHANGED entities
    BY <2>6 DEF promote_record
  <2>7. ASSUME NEW s \in Session, NEW b \in Batch, NEW r \in Row, NEW d \in Correction,
               retry_record(s, b, r, d)
        PROVE  UNCHANGED entities
    BY <2>7 DEF retry_record
  <2> QED
    BY <1>2, <2>1, <2>2, <2>3, <2>4, <2>5, <2>6, <2>7 DEF Next
<1>3. IInv /\ [Next]_vars => [A]_vars
  BY <1>1, <1>2 DEF vars
<1> HIDE DEF A
<1>4. Spec => [][A]_vars
  BY <1>3, Inductive, PTL DEF Spec
<1> QED
  BY <1>4 DEF NoOrphanEntity, A
=============================================================================
