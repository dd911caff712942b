------------------------------ MODULE Imports ------------------------------
(***************************************************************************)
(* finance_ingestion: ImportService (load, validate, auto-assign codes,    *)
(* correct and delete) and PromotionService (one SAVEPOINT per record),    *)
(* called by the import scripts and by the Import & Staging menu in        *)
(* concurrent READ COMMITTED transactions.                                 *)
(*                                                                         *)
(* Loading, correcting and deleting are committed by their caller at once. *)
(* A validation reads, then waits for the row locks of what it writes.  A  *)
(* promotion is one transaction over all its records: wrote and new are    *)
(* its uncommitted record updates (whose rows it has locked) and inserted  *)
(* live rows.  A record's data is its account code, or what a journal row  *)
(* says: date, number, name and lines.                                     *)
(***************************************************************************)
EXTENDS Integers, FiniteSets, FiniteSetsExt

CONSTANTS
    Session, Batch,
    Rows,       \* a batch has the source rows 1..Rows
    Data,       \* what a row of an uploaded file, or a correction, may say
    MaxCode,    \* auto-assigned codes stop here
    MaxCalls,   \* validations, corrections, deletions and promotions in a behaviour
    None

Missing == 0    \* a required field without a value
Row == 1 .. Rows
Kind == {"account", "journal"}
File == [kind : Kind, data : [Row -> Data]]
Correction == Data \ {Missing}

Statuses == {"staged", "valid", "invalid", "promoted", "promotion_failed", "skipped"}
Entities == [kind : Kind, data : Nat, row : Row, batch : Batch]
Writes == [status : {"promoted", "promotion_failed", "skipped"}, entity : Entities \cup {None}]

ASSUME ImportsAssumption ==
    /\ Rows \in Nat /\ MaxCode \in Nat /\ MaxCalls \in Nat /\ Data \subseteq Nat
    /\ None \notin Batch \cup Session \cup Kind \cup Statuses \cup {"validated", "completed", "deleted"}
    /\ None \notin Writes /\ None \notin Entities

VARIABLES
    batches,    \* committed ImportBatchModel rows: kind, status, whether valid_records > 0
    records,    \* committed ImportRecordModel rows: status, data, promoted_entity_id
    entities,   \* committed accounts and imported journal entries, and where they came from
    tx,         \* tx[s]: the transaction of session s
    calls       \* calls made so far

vars == <<batches, records, entities, tx, calls>>

NoBatch == [kind |-> None, status |-> None, valid |-> FALSE]
NoRecord == [status |-> None, data |-> Missing, entity |-> None]

\* single: promote_record, which calls the promoter without check_duplicate.
\* expired: the session was rolled back, and loaded records are read again.
Idle == [op |-> "idle", batch |-> None, todo |-> {}, inserting |-> FALSE,
         data |-> [r \in Row |-> Missing], wrote |-> [r \in Row |-> None], new |-> {},
         verdict |-> [r \in Row |-> None], valid |-> FALSE, single |-> FALSE, expired |-> FALSE]

Init ==
    /\ batches = [b \in Batch |-> NoBatch]
    /\ records = [b \in Batch |-> [r \in Row |-> NoRecord]]
    /\ entities = {}
    /\ tx = [s \in Session |-> Idle]
    /\ calls = 0

Call(s) == tx[s] = Idle /\ calls < MaxCalls /\ calls' = calls + 1

Exists(b) == batches[b].status \notin {None, "deleted"}
RowLocked(s, b, r) ==
    \E t \in Session \ {s} : tx[t].batch = b /\ tx[t].wrote[r] # None

-----------------------------------------------------------------------------
(* ImportService *)

\* A bug a promoter may have: the event id also covers the batch.
SameKeyPerBatch(e, f) ==
    /\ e.kind = f.kind /\ e.data = f.data
    /\ e.kind = "journal" => e.row = f.row /\ e.batch = f.batch

\* What the database keeps unique: accounts.code, and the event id
\* _deterministic_event_id computes from the row's content and source_row.
SameKey(e, f) ==
    /\ e.kind = f.kind /\ e.data = f.data
    /\ e.kind = "journal" => e.row = f.row

Codes == {e.data : e \in {x \in entities : x.kind = "account"}}

\* Required fields and, for accounts, the unique rule of scope "system".
RecordErrors(kind, d) == d = Missing \/ (kind = "account" /\ d \in Codes)

\* validate_batch_uniqueness: the unique rule of scope "batch".
BatchErrors(kind, data, r) ==
    kind = "account" /\ \E q \in Row \ {r} : data[q] = data[r]

Verdict(kind, data, r) ==
    IF RecordErrors(kind, data[r]) \/ BatchErrors(kind, data, r) THEN "invalid" ELSE "valid"

\* batch_id is uuid4(): an id no batch has had, and no matter which.
Unused == {b \in Batch : batches[b] = NoBatch}

load_batch(file) == \E b \in Unused :
    /\ b = CHOOSE c \in Unused : TRUE
    /\ batches' = [batches EXCEPT ![b] = [kind |-> file.kind, status |-> "staged", valid |-> FALSE]]
    /\ records' = [records EXCEPT ![b] =
                     [r \in Row |-> [status |-> "staged", data |-> file.data[r], entity |-> None]]]
    /\ UNCHANGED <<entities, tx, calls>>

\* The codes auto_assign_codes gives to the account rows without one, in row
\* order: one more than the largest code in the live table and in the batch.
AutoAssigned(data) ==
    LET used == Codes \cup {data[r] : r \in Row}
        top == Max(used \cup {0})
        rank(r) == Cardinality({q \in Row : q <= r /\ data[q] = Missing})
    IN  [r \in Row |-> IF data[r] = Missing THEN top + rank(r) ELSE data[r]]

\* The reads of validate_batch.  With assign, auto_assign_codes went before it
\* in the same transaction.  Only attributes that change are written.
validate_batch(s, b, assign) ==
    LET old == [r \in Row |-> records[b][r].data]
        data == IF assign THEN AutoAssigned(old) ELSE old
        verdict == [r \in Row |-> Verdict(batches[b].kind, data, r)]
        changed == {r \in Row : verdict[r] # records[b][r].status \/ data[r] # old[r]}
    IN  /\ Call(s) /\ Exists(b)
        /\ assign => /\ batches[b].kind = "account"
                     /\ \E r \in Row : old[r] = Missing
                     /\ \A r \in Row : data[r] \in 0 .. MaxCode
        /\ tx' = [tx EXCEPT ![s] =
                    [Idle EXCEPT !.op = "validate", !.batch = b, !.data = data,
                                 !.verdict = [r \in Row |-> IF r \in changed THEN verdict[r] ELSE None],
                                 !.valid = \E r \in Row : verdict[r] = "valid"]]
        /\ UNCHANGED <<batches, records, entities>>

\* Its writes, and the commit of its caller.
CommitValidation(s) ==
    LET b == tx[s].batch
    IN  /\ tx[s].op = "validate" /\ Exists(b)
        /\ \A r \in Row : tx[s].verdict[r] # None => ~RowLocked(s, b, r)
        /\ records' = [records EXCEPT ![b] = [r \in Row |->
                         IF tx[s].verdict[r] # None
                         THEN [@[r] EXCEPT !.status = tx[s].verdict[r], !.data = tx[s].data[r]]
                         ELSE @[r]]]
        /\ batches' = [batches EXCEPT ![b].status = "validated", ![b].valid = tx[s].valid]
        /\ tx' = [tx EXCEPT ![s] = Idle]
        /\ UNCHANGED <<entities, calls>>

\* retry_record: the status of the record is not looked at, nor is the batch.
retry_record(s, b, r, d) ==
    /\ Call(s) /\ Exists(b) /\ ~RowLocked(s, b, r)
    /\ records' = [records EXCEPT ![b][r].data = d, ![b][r].status =
                     IF RecordErrors(batches[b].kind, d) THEN "invalid" ELSE "valid"]
    /\ UNCHANGED <<batches, entities, tx>>

delete_batch(s, b) ==
    /\ Call(s) /\ Exists(b)
    /\ \A r \in Row : ~RowLocked(s, b, r)
    /\ batches' = [batches EXCEPT ![b] = [NoBatch EXCEPT !.status = "deleted"]]
    /\ records' = [records EXCEPT ![b] = [r \in Row |-> NoRecord]]
    /\ UNCHANGED <<entities, tx>>

-----------------------------------------------------------------------------
(* PromotionService *)

ValidRows(b) == {r \in Row : records[b][r].status = "valid"}

Begin(s, b, rows, single) ==
    tx' = [tx EXCEPT ![s] =
             [Idle EXCEPT !.op = "promote", !.batch = b, !.single = single,
                          !.todo = rows,
                          !.data = [r \in Row |-> records[b][r].data]]]

\* The menu promotes the validated batches with valid records; every valid
\* record is ready (compute_preflight_graph blocks none).
promote_batch(s, b) ==
    /\ Call(s) /\ batches[b].status = "validated" /\ batches[b].valid
    /\ Begin(s, b, ValidRows(b), FALSE)
    /\ UNCHANGED <<batches, records, entities>>

promote_record(s, b, r) ==
    /\ Call(s) /\ r \in ValidRows(b)
    /\ Begin(s, b, {r}, TRUE)
    /\ UNCHANGED <<batches, records, entities>>

\* Session s has handled record r: its new status, and its row lock.
Handled(s, r, status, entity) ==
    [tx[s] EXCEPT !.todo = @ \ {r}, !.inserting = FALSE,
                  !.wrote[r] = [status |-> status, entity |-> entity]]

Failed(s, r) == Handled(s, r, "promotion_failed", None)

\* The row the promoter would insert for record r.
Entity(s, r) ==
    LET b == tx[s].batch
    IN  [kind |-> batches[b].kind, row |-> r, batch |-> b,
         data |-> IF tx[s].expired /\ ~tx[s].inserting THEN records[b][r].data ELSE tx[s].data[r]]

\* The loop goes by source_row.
AtRecord(s, r, inserting) ==
    /\ tx[s].op = "promote" /\ r \in tx[s].todo /\ \A q \in tx[s].todo : r <= q
    /\ tx[s].inserting = inserting
    /\ Exists(tx[s].batch) /\ ~RowLocked(s, tx[s].batch, r)

\* check_duplicate of the account promoter, and what JournalPromoter.promote
\* learns from the ingestor about its event: the same batch gives the same
\* payload, which is a duplicate, and another batch's migration_batch_id a
\* payload that does not match, which is rejected.  Without a posting service
\* (promote_record) a journal record fails.
CheckRecord(s, r) ==
    LET e == Entity(s, r)
        seen == {x \in entities \cup tx[s].new : SameKey(x, e)}
        goOn == [tx[s] EXCEPT !.inserting = TRUE, !.data[r] = e.data]
    IN  /\ AtRecord(s, r, FALSE)
        /\ tx' = [tx EXCEPT ![s] =
              CASE e.kind = "journal" /\ tx[s].single -> Failed(s, r)
                [] e.kind = "account" /\ seen # {} /\ ~tx[s].single -> Handled(s, r, "skipped", None)
                [] e.kind = "journal" /\ seen # {} /\ ~tx[s].single ->
                     LET x == CHOOSE y \in seen : TRUE
                     IN  IF x.batch = e.batch THEN Handled(s, r, "promoted", x) ELSE Failed(s, r)
                [] OTHER -> goOn]
        /\ UNCHANGED <<batches, records, entities, calls>>

Taken(e) == \E x \in entities : SameKey(x, e)
HeldByOther(s, e) == \E t \in Session \ {s} : \E x \in tx[t].new : SameKey(x, e)

\* The unique index makes the insert wait for another transaction's row.
InsertRecord(s, r) ==
    LET e == Entity(s, r)
    IN  /\ AtRecord(s, r, TRUE)
        /\ ~Taken(e) /\ ~HeldByOther(s, e)
        /\ tx' = [tx EXCEPT ![s] = [Handled(s, r, "promoted", e) EXCEPT !.new = @ \cup {e}]]
        /\ UNCHANGED <<batches, records, entities, calls>>

\* A bug the conflict handling may have: the earlier records keep their status.
InsertConflictsKeepsRecords(s, r) ==
    /\ AtRecord(s, r, TRUE) /\ Taken(Entity(s, r))
    /\ tx' = [tx EXCEPT ![s] = [Failed(s, r) EXCEPT !.new = {}]]
    /\ UNCHANGED <<batches, records, entities, calls>>

\* The row was committed since the check.  An account's IntegrityError rolls
\* the savepoint back.  The ingestor's handler rolls the whole session back
\* (ingestor_service.py:255): the earlier records and their entries are lost,
\* and this record fails because its savepoint is closed.
InsertConflicts(s, r) ==
    LET e == Entity(s, r)
    IN  /\ AtRecord(s, r, TRUE) /\ Taken(e)
        /\ tx' = [tx EXCEPT ![s] =
              IF e.kind = "account" THEN Failed(s, r)
              ELSE [Failed(s, r) EXCEPT !.new = {}, !.expired = TRUE,
                      !.wrote = [q \in Row |-> IF q = r THEN @[q] ELSE None]]]
        /\ UNCHANGED <<batches, records, entities, calls>>

\* A bug the failure path may have: the savepoint is not rolled back.
PromotionFailsUnsaved(s, r) ==
    /\ AtRecord(s, r, TRUE)
    /\ tx' = [tx EXCEPT ![s] = [Failed(s, r) EXCEPT
                !.new = @ \cup (IF Taken(Entity(s, r)) THEN {} ELSE {Entity(s, r)})]]
    /\ UNCHANGED <<batches, records, entities, calls>>

\* The posting is refused, a flush fails, or the database picks the waiting
\* session as a deadlock victim: the savepoint is rolled back.
PromotionFails(s, r) ==
    /\ AtRecord(s, r, TRUE)
    /\ tx' = [tx EXCEPT ![s] = Failed(s, r)]
    /\ UNCHANGED <<batches, records, entities, calls>>

\* A record row after the UPDATE w; promoted_entity_id is written only with
\* PROMOTED.
Updated(row, w) ==
    IF w = None THEN row
    ELSE [row EXCEPT !.status = w.status,
                     !.entity = IF w.status = "promoted" THEN w.entity ELSE row.entity]

\* The end of promote_batch and the commit of its caller.
CommitPromotion(s) ==
    LET b == tx[s].batch
    IN  /\ tx[s].op = "promote" /\ tx[s].todo = {} /\ Exists(b)
        /\ records' = [records EXCEPT ![b] =
                         [r \in Row |-> Updated(records[b][r], tx[s].wrote[r])]]
        /\ entities' = entities \cup tx[s].new
        /\ batches' = IF tx[s].single THEN batches
                      ELSE [batches EXCEPT ![b].status = "completed"]
        /\ tx' = [tx EXCEPT ![s] = Idle]
        /\ UNCHANGED calls

\* An exception, an interrupt or a crash, and the update of a deleted row.
Abort(s) ==
    /\ tx[s] # Idle
    /\ tx' = [tx EXCEPT ![s] = Idle]
    /\ UNCHANGED <<batches, records, entities, calls>>

Next ==
    \/ \E file \in File : load_batch(file)
    \/ \E s \in Session :
         \/ CommitValidation(s)
         \/ CommitPromotion(s)
         \/ Abort(s)
         \/ \E r \in Row :
              CheckRecord(s, r) \/ InsertRecord(s, r) \/ InsertConflicts(s, r) \/ PromotionFails(s, r)
         \/ \E b \in Batch :
              \/ \E assign \in BOOLEAN : validate_batch(s, b, assign)
              \/ delete_batch(s, b)
              \/ promote_batch(s, b)
              \/ \E r \in Row :
                   \/ promote_record(s, b, r)
                   \/ \E d \in Correction : retry_record(s, b, r, d)

Spec == Init /\ [][Next]_vars

-----------------------------------------------------------------------------
(* Properties *)

BatchRows == [kind : Kind \cup {None}, valid : BOOLEAN,
              status : {"staged", "validated", "completed", "deleted", None}]
RecordRows == [status : Statuses \cup {None}, data : Nat, entity : Entities \cup {None}]
Txns ==
    [op : {"idle", "validate", "promote"}, batch : Batch \cup {None}, todo : SUBSET Row,
     inserting : BOOLEAN, data : [Row -> Nat], wrote : [Row -> Writes \cup {None}],
     new : SUBSET Entities, verdict : [Row -> {"valid", "invalid", None}],
     valid : BOOLEAN, single : BOOLEAN, expired : BOOLEAN]

\* The type invariant.
TypeOK ==
    /\ batches \in [Batch -> BatchRows]
    /\ records \in [Batch -> [Row -> RecordRows]]
    /\ entities \subseteq Entities
    /\ tx \in [Session -> Txns]

\* A committed record that says PROMOTED names a live row that is committed:
\* the per-record savepoints, the session rollback in the ingestor's conflict
\* handler and a crash never leave a promotion without its account or entry.
PromotedIsReal ==
    \A b \in Batch, r \in Row :
        records[b][r].status = "promoted" => records[b][r].entity \in entities

\* One account per code and one entry per imported journal row, however often
\* and in however many batches and sessions the row is loaded, validated,
\* corrected and promoted.
ImportedOnce ==
    \A e, f \in entities :
        /\ e.kind = f.kind /\ e.data = f.data
        /\ e.kind = "journal" => e.row = f.row
        => e = f

\* A live row appears only in the commit that also marks the staged record it
\* came from as PROMOTED and points the record at it: a failed record leaves
\* no account or entry behind (SAVEPOINT per record, IM-15).
NoOrphanEntity ==
    [][\A e \in entities' \ entities :
          /\ records'[e.batch][e.row].status = "promoted"
          /\ records'[e.batch][e.row].entity = e]_vars
=============================================================================
