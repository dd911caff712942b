----------------------------- MODULE BaseProofs -----------------------------
(***************************************************************************)
(* Proofs about the two parts that use no other: the audit chain, for      *)
(* every set of sessions and contents and every bound on the counter, and  *)
(* the calculation engines, for every set of jobs.                         *)
(***************************************************************************)
EXTENDS AuditChain, Engines, WellFoundedInduction, FiniteSetTheorems, TLAPS

-----------------------------------------------------------------------------
(* The audit chain.                                                        *)

\* rows carry the numbers 1 .. n, each exactly once.
Numbered(rows, n) ==
    /\ \A r \in rows : r.seq \in 1 .. n
    /\ \A i \in 1 .. n : \E r \in rows : r.seq = i
    /\ \A r, q \in rows : r.seq = q.seq => r = q

\* p is the hash a row numbered n must link to in rows.
LinksTo(p, n, rows) ==
    /\ n = 1 => p = Genesis
    /\ n > 1 => \E q \in rows : q.seq = n - 1 /\ p = q.hash

Linked(rows) ==
    \A r \in rows : /\ r.hash = HashAuditEvent(r.content, r.prev)
                    /\ LinksTo(r.prev, r.seq, rows)

GoodRows(rows, n) == Numbered(rows, n) /\ Linked(rows)

\* The numbers of the rows s has already flushed: between the increment and
\* the insert the newest value has no row yet.
Filled(s) == IF pc[s] \in {"read", "insert"} THEN val[s] - 1 ELSE val[s]

LogInv == GoodRows(log, counter) /\ (~created => counter = 0)

\* Only the holder of the counter row has anything uncommitted.
LockInv ==
    \A s \in Session : owner # s =>
        /\ pend[s] = {}
        /\ pc[s] \in {"idle", "lock", "create"}
        /\ sp[s] # "held"

\* The holder's private view extends the committed chain.
ViewOK(s) ==
    /\ pc[s] \in {"idle", "lock", "increment", "read", "insert"}
    /\ pc[s] \in {"read", "insert"} => val[s] > 0
    /\ Filled(s) >= counter
    /\ GoodRows(View(s), Filled(s))
    /\ pc[s] = "insert" => LinksTo(prev[s], val[s], View(s))

ViewInv == \A s \in Session : owner = s => ViewOK(s)

\* A savepoint remembers a view the holder had.
SaveInv ==
    \A s \in Session :
        /\ sp[s] # "held" => savedPend[s] = {}
        /\ sp[s] = "held" => /\ savedVal[s] >= counter
                             /\ GoodRows(log \cup savedPend[s], savedVal[s])

IInv == TypeOK /\ LogInv /\ LockInv /\ ViewInv /\ SaveInv

-----------------------------------------------------------------------------
(* Facts about numbered and linked rows. *)

\* _get_last_hash returns the hash of the row with the highest number.
LEMMA LastHashNumbered ==
    ASSUME NEW rows, NEW n \in Nat, Numbered(rows, n)
    PROVE  LinksTo(LastHash(rows), n + 1, rows)
<1>1. CASE n = 0
  <2>1. rows = {}
    BY <1>1 DEF Numbered
  <2> QED
    BY <1>1, <2>1 DEF LinksTo, LastHash
<1>2. CASE n > 0
  <2>1. PICK r \in rows : r.seq = n
    BY <1>2 DEF Numbered
  <2>2. IsLast(r, rows)
    BY <2>1 DEF Numbered, IsLast
  <2> DEFINE m == CHOOSE x \in rows : IsLast(x, rows)
  <2>3. m \in rows /\ IsLast(m, rows)
    BY <2>1, <2>2
  <2>4. m.seq = n
    BY <2>1, <2>3 DEF Numbered, IsLast
  <2>5. LastHash(rows) = m.hash
    BY <2>1 DEF LastHash
  <2> HIDE DEF m
  <2>6. (n + 1) - 1 = n /\ n + 1 # 1
    BY <1>2
  <2> QED
    BY <2>3, <2>4, <2>5, <2>6 DEF LinksTo
<1> QED
  BY <1>1, <1>2

\* Appending the next number with the right link keeps rows numbered and linked.
LEMMA AppendRow ==
    ASSUME NEW rows, NEW n \in Nat, GoodRows(rows, n),
           NEW c, NEW p, LinksTo(p, n + 1, rows)
    PROVE  GoodRows(rows \cup {Row(n + 1, c, p)}, n + 1)
<1> DEFINE new == Row(n + 1, c, p)
           all == rows \cup {new}
<1>1. new.seq = n + 1 /\ new.prev = p /\ new.hash = HashAuditEvent(new.content, new.prev)
  BY DEF Row
<1> HIDE DEF new
<1>2. Numbered(all, n + 1)
  <2>1. \A r \in all : r.seq \in 1 .. (n + 1)
    BY <1>1 DEF GoodRows, Numbered
  <2>2. ASSUME NEW i \in 1 .. (n + 1) PROVE \E r \in all : r.seq = i
    <3>1. CASE i = n + 1
      BY <3>1, <1>1
    <3>2. CASE i # n + 1
      <4>1. i \in 1 .. n
        BY <3>2
      <4> QED
        BY <4>1 DEF GoodRows, Numbered
    <3> QED
      BY <3>1, <3>2
  <2>3. \A r, q \in all : r.seq = q.seq => r = q
    BY <1>1 DEF GoodRows, Numbered
  <2> QED
    BY <2>1, <2>2, <2>3 DEF Numbered
<1>3. Linked(all)
  <2> SUFFICES ASSUME NEW r \in all
               PROVE  /\ r.hash = HashAuditEvent(r.content, r.prev)
                      /\ LinksTo(r.prev, r.seq, all)
    BY DEF Linked
  <2>1. CASE r = new
    BY <2>1, <1>1 DEF LinksTo
  <2>2. CASE r \in rows
    BY <2>2 DEF GoodRows, Linked, LinksTo
  <2> QED
    BY <2>1, <2>2
<1> QED
  BY <1>2, <1>3 DEF GoodRows, new

\* Numbered and linked rows pass validate_chain.
LEMMA GoodRowsValid ==
    ASSUME NEW rows, NEW n \in Nat, GoodRows(rows, n)
    PROVE  ValidateChain(rows)
<1> SUFFICES ASSUME NEW r \in rows
             PROVE  r.prev = LastHash({q \in rows : q.seq < r.seq})
  BY DEF GoodRows, Linked, ValidateChain
<1> DEFINE below == {q \in rows : q.seq < r.seq}
           k == r.seq - 1
<1>1. r.seq \in 1 .. n /\ k \in Nat
  BY DEF GoodRows, Numbered
<1>2. Numbered(below, k)
  <2>1. \A q \in below : q.seq \in 1 .. k
    BY <1>1 DEF GoodRows, Numbered
  <2>2. \A i \in 1 .. k : \E q \in below : q.seq = i
    BY <1>1 DEF GoodRows, Numbered
  <2>3. \A q, x \in below : q.seq = x.seq => q = x
    BY DEF GoodRows, Numbered
  <2> HIDE DEF below, k
  <2> QED
    BY <2>1, <2>2, <2>3 DEF Numbered
<1>3. LinksTo(LastHash(below), k + 1, below)
  <2> HIDE DEF below, k
  <2> QED
    BY <1>1, <1>2, LastHashNumbered
<1>4. k + 1 = r.seq
  BY <1>1
<1>5. LinksTo(r.prev, r.seq, rows)
  BY DEF GoodRows, Linked
<1>6. CASE r.seq = 1
  BY <1>3, <1>4, <1>5, <1>6 DEF LinksTo
<1>7. CASE r.seq > 1
  <2>1. PICK q \in rows : q.seq = k /\ r.prev = q.hash
    BY <1>5, <1>7 DEF LinksTo
  <2>2. PICK x \in below : x.seq = k /\ LastHash(below) = x.hash
    BY <1>1, <1>3, <1>4, <1>7 DEF LinksTo
  <2>3. q = x
    BY <2>1, <2>2 DEF GoodRows, Numbered
  <2> QED
    BY <2>1, <2>2, <2>3
<1> QED
  BY <1>1, <1>6, <1>7
-----------------------------------------------------------------------------
(* The inductive invariant. *)

LEMMA GoodEmpty == GoodRows({}, 0)
  BY DEF GoodRows, Numbered, Linked

LEMMA InitIInv == Init => IInv
<1> SUFFICES ASSUME Init PROVE IInv
  OBVIOUS
<1>1. TypeOK
  BY SessionAssumption DEF Init, TypeOK, Steps
<1>2. LogInv
  BY GoodEmpty DEF Init, LogInv
<1>3. LockInv
  BY DEF Init, LockInv
<1>4. ViewInv
  BY SessionAssumption DEF Init, ViewInv
<1>5. SaveInv
  BY DEF Init, SaveInv
<1> QED
  BY <1>1, <1>2, <1>3, <1>4, <1>5 DEF IInv

\* Steps that only move the program counter of a session among the statements
\* before the counter row is held, or from "idle" to "lock".
LEMMA MoveIInv ==
    ASSUME IInv, NEW s \in Session, NEW a \in {"idle", "lock", "create"},
           NEW b \in {"idle", "lock", "create"},
           pc[s] = a, pc' = [pc EXCEPT ![s] = b], b = "create" => owner # s,
           UNCHANGED <<dbVars, val, pend, spVars, prev>>
    PROVE  IInv'
<1> USE DEF IInv, dbVars, spVars
<1>1. TypeOK'
  BY DEF TypeOK, Steps, IsRow
<1>2. LogInv'
  BY DEF LogInv, GoodRows, Numbered, Linked, LinksTo
<1>3. LockInv'
  BY DEF LockInv, TypeOK
<1>4. ViewInv'
  <2> SUFFICES ASSUME NEW t \in Session, owner' = t
               PROVE  ViewOK(t)'
    BY DEF ViewInv
  <2>1. View(t)' = View(t)
    BY DEF View
  <2>2. Filled(t)' = Filled(t)
    BY DEF Filled, TypeOK
  <2>3. pc'[t] \in {"read", "insert"} => pc'[t] = pc[t]
    BY DEF TypeOK
  <2>4. pc'[t] \in {"idle", "lock", "increment", "read", "insert"}
    BY DEF ViewInv, ViewOK, TypeOK
  <2> QED
    BY <2>1, <2>2, <2>3, <2>4 DEF ViewInv, ViewOK
<1>5. SaveInv'
  BY DEF SaveInv, GoodRows, Numbered, Linked, LinksTo
<1> QED
  BY <1>1, <1>2, <1>3, <1>4, <1>5
LEMMA LockIInv ==
    ASSUME IInv, NEW s \in Session, LockCounter(s)
    PROVE  IInv'
<1> USE DEF IInv, LockCounter, dbVars, spVars
<1>0. owner = s \/ (owner = NoSession /\ pend[s] = {})
  BY SessionAssumption DEF LockInv
<1>1. TypeOK'
  BY DEF TypeOK, Steps, IsRow
<1>2. LogInv'
  BY DEF LogInv
<1>3. LockInv'
  BY SessionAssumption DEF LockInv, TypeOK
<1>4. ViewInv'
  <2> SUFFICES ViewOK(s)'
    BY DEF ViewInv
  <2>1. View(s)' = View(s) /\ pc'[s] = "increment"
    BY DEF View, TypeOK
  <2>2. CASE owner = s
    <3>1. Filled(s)' = Filled(s)
      BY <2>1, <2>2 DEF Filled
    <3> QED
      BY <2>1, <2>2, <3>1 DEF ViewInv, ViewOK
  <2>3. CASE owner # s
    <3>1. Filled(s)' = counter /\ View(s) = log
      BY <1>0, <2>1, <2>3 DEF Filled, TypeOK, View
    <3> QED
      BY <2>1, <3>1 DEF ViewOK, LogInv, TypeOK
  <2> QED
    BY <2>2, <2>3
<1>5. SaveInv'
  BY DEF SaveInv
<1> QED
  BY <1>1, <1>2, <1>3, <1>4, <1>5

LEMMA CreateIInv ==
    ASSUME IInv, NEW s \in Session, CreateCounter(s)
    PROVE  IInv'
<1> USE DEF IInv, CreateCounter, dbVars, spVars
<1>0. pend[s] = {} /\ counter = 0
  BY SessionAssumption DEF LockInv, LogInv
<1>1. TypeOK'
  BY DEF TypeOK, Steps, IsRow
<1>2. LogInv'
  BY DEF LogInv
<1>3. LockInv'
  BY SessionAssumption DEF LockInv, TypeOK
<1>4. ViewInv'
  <2> SUFFICES ViewOK(s)'
    BY DEF ViewInv
  <2>1. View(s)' = log /\ pc'[s] = "read" /\ val'[s] = 1
    BY <1>0 DEF View, TypeOK
  <2>2. Filled(s)' = 0
    BY <2>1 DEF Filled
  <2> QED
    BY <1>0, <2>1, <2>2 DEF ViewOK, LogInv
<1>5. SaveInv'
  BY DEF SaveInv
<1> QED
  BY <1>1, <1>2, <1>3, <1>4, <1>5

LEMMA IncrementIInv ==
    ASSUME IInv, NEW s \in Session, Increment(s)
    PROVE  IInv'
<1> USE DEF IInv, Increment, dbVars, spVars
<1>0. owner = s
  BY DEF LockInv
<1>1. TypeOK'
  BY DEF TypeOK, Steps, IsRow
<1>2. LogInv'
  BY DEF LogInv
<1>3. LockInv'
  BY <1>0 DEF LockInv, TypeOK
<1>4. ViewInv'
  <2> SUFFICES ViewOK(s)'
    BY <1>0 DEF ViewInv
  <2>1. View(s)' = View(s) /\ pc'[s] = "read" /\ val'[s] = val[s] + 1 /\ val[s] \in Nat
    BY DEF View, TypeOK
  <2>2. Filled(s)' = Filled(s)
    BY <2>1 DEF Filled
  <2> QED
    BY <1>0, <2>1, <2>2 DEF ViewOK, ViewInv
<1>5. SaveInv'
  BY DEF SaveInv
<1> QED
  BY <1>1, <1>2, <1>3, <1>4, <1>5

LEMMA GetLastHashIInv ==
    ASSUME IInv, NEW s \in Session, GetLastHash(s)
    PROVE  IInv'
<1> USE DEF IInv, GetLastHash, dbVars, spVars
<1>0. owner = s /\ ViewOK(s)
  BY DEF LockInv, ViewInv
<1>1. TypeOK'
  BY DEF TypeOK, Steps, IsRow
<1>2. LogInv'
  BY DEF LogInv
<1>3. LockInv'
  BY <1>0 DEF LockInv, TypeOK
<1>4. ViewInv'
  <2> SUFFICES ViewOK(s)'
    BY <1>0 DEF ViewInv
  <2>1. View(s)' = View(s) /\ pc'[s] = "insert" /\ prev'[s] = LastHash(View(s))
    BY DEF View, TypeOK
  <2>2. Filled(s)' = Filled(s) /\ Filled(s) = val[s] - 1 /\ val[s] \in Nat /\ val[s] > 0
    BY <1>0, <2>1 DEF Filled, TypeOK, ViewOK
  <2>3. LinksTo(prev'[s], Filled(s) + 1, View(s))
    BY <1>0, <2>1, <2>2, LastHashNumbered DEF ViewOK, GoodRows
  <2>4. Filled(s) + 1 = val[s]
    BY <2>2
  <2> QED
    BY <1>0, <2>1, <2>2, <2>3, <2>4 DEF ViewOK
<1>5. SaveInv'
  BY DEF SaveInv
<1> QED
  BY <1>1, <1>2, <1>3, <1>4, <1>5

LEMMA InsertRowIInv ==
    ASSUME IInv, NEW s \in Session, NEW c \in Content, InsertRow(s, c)
    PROVE  IInv'
<1> USE DEF IInv, InsertRow, dbVars, spVars
<1> DEFINE new == Row(val[s], c, prev[s])
<1>0. owner = s /\ ViewOK(s)
  BY DEF LockInv, ViewInv
<1>1. TypeOK'
  <2>1. IsRow(new)
    BY DEF IsRow, Row, TypeOK
  <2> HIDE DEF new
  <2>2. pend' = [pend EXCEPT ![s] = @ \cup {new}]
    BY DEF new
  <2> QED
    BY <2>1, <2>2 DEF TypeOK, Steps, IsRow
<1>2. LogInv'
  BY DEF LogInv
<1>3. LockInv'
  BY <1>0 DEF LockInv, TypeOK
<1>4. ViewInv'
  <2> SUFFICES ViewOK(s)'
    BY <1>0 DEF ViewInv
  <2>1. View(s)' = View(s) \cup {new} /\ pc'[s] = "idle"
    BY DEF View, TypeOK
  <2>2. Filled(s) = val[s] - 1 /\ Filled(s) \in Nat /\ Filled(s) + 1 = val[s]
    BY <1>0 DEF Filled, TypeOK, ViewOK
  <2>3. Filled(s)' = val[s]
    BY <2>1 DEF Filled
  <2>4. GoodRows(View(s) \cup {Row(Filled(s) + 1, c, prev[s])}, Filled(s) + 1)
    BY <1>0, <2>2, AppendRow DEF ViewOK
  <2>5. GoodRows(View(s)', Filled(s)')
    BY <2>1, <2>2, <2>3, <2>4
  <2>6. Filled(s)' >= counter
    BY <1>0, <2>2, <2>3 DEF ViewOK, TypeOK
  <2> QED
    BY <1>0, <2>1, <2>5, <2>6 DEF ViewOK
<1>5. SaveInv'
  BY DEF SaveInv
<1> QED
  BY <1>1, <1>2, <1>3, <1>4, <1>5
LEMMA BeginSavepointIInv ==
    ASSUME IInv, NEW s \in Session, BeginSavepoint(s)
    PROVE  IInv'
<1> USE DEF IInv, BeginSavepoint, dbVars
<1>1. TypeOK'
  BY DEF TypeOK, Steps, IsRow
<1>2. LogInv'
  BY DEF LogInv
<1>3. LockInv'
  BY DEF LockInv, TypeOK
<1>4. ViewInv'
  <2>1. \A t \in Session : View(t)' = View(t) /\ Filled(t)' = Filled(t)
    BY DEF View, Filled
  <2> QED
    BY <2>1 DEF ViewInv, ViewOK
<1>5. SaveInv'
  <2> SUFFICES ASSUME NEW t \in Session
               PROVE  /\ sp'[t] # "held" => savedPend'[t] = {}
                      /\ sp'[t] = "held" => /\ savedVal'[t] >= counter
                                            /\ GoodRows(log \cup savedPend'[t], savedVal'[t])
    BY DEF SaveInv
  <2>1. CASE t = s /\ owner = s
    <3>1. Filled(s) = val[s] /\ View(s) = log \cup pend[s]
      BY DEF Filled, View
    <3> QED
      BY <2>1, <3>1 DEF ViewInv, ViewOK, TypeOK
  <2>2. CASE t = s /\ owner # s
    BY <2>2 DEF LockInv, TypeOK
  <2>3. CASE t # s
    BY <2>3 DEF SaveInv, TypeOK
  <2> QED
    BY <2>1, <2>2, <2>3
<1> QED
  BY <1>1, <1>2, <1>3, <1>4, <1>5

LEMMA ReleaseSavepointIInv ==
    ASSUME IInv, NEW s \in Session, ReleaseSavepoint(s)
    PROVE  IInv'
<1> USE DEF IInv, ReleaseSavepoint, dbVars
<1>1. TypeOK'
  BY DEF TypeOK, Steps, IsRow
<1>2. LogInv'
  BY DEF LogInv
<1>3. LockInv'
  BY DEF LockInv, TypeOK
<1>4. ViewInv'
  <2>1. \A t \in Session : View(t)' = View(t) /\ Filled(t)' = Filled(t)
    BY DEF View, Filled
  <2> QED
    BY <2>1 DEF ViewInv, ViewOK
<1>5. SaveInv'
  BY DEF SaveInv, TypeOK
<1> QED
  BY <1>1, <1>2, <1>3, <1>4, <1>5

LEMMA RollbackSavepointIInv ==
    ASSUME IInv, NEW s \in Session, RollbackSavepoint(s)
    PROVE  IInv'
<1> USE DEF IInv, RollbackSavepoint
<1>1. TypeOK'
  BY DEF TypeOK, Steps, IsRow
<1>2. LogInv'
  BY DEF LogInv
<1>3. LockInv'
  BY SessionAssumption DEF LockInv, SaveInv, TypeOK
<1>4. ViewInv'
  <2> SUFFICES ASSUME NEW t \in Session, owner' = t
               PROVE  ViewOK(t)'
    BY DEF ViewInv
  <2>1. CASE t # s
    <3>1. owner = t /\ View(t)' = View(t) /\ Filled(t)' = Filled(t)
      BY <2>1, SessionAssumption DEF View, Filled, TypeOK
    <3> QED
      BY <2>1, <3>1 DEF ViewInv, ViewOK, TypeOK
  <2>2. CASE t = s
    <3>1. sp[s] = "held"
      BY <2>2, SessionAssumption DEF LockInv, TypeOK
    <3>2. View(s)' = log \cup savedPend[s] /\ Filled(s)' = savedVal[s] /\ pc'[s] = "idle"
      BY DEF View, Filled, TypeOK
    <3> QED
      BY <2>2, <3>1, <3>2 DEF SaveInv, ViewOK
  <2> QED
    BY <2>1, <2>2
<1>5. SaveInv'
  BY DEF SaveInv, TypeOK
<1> QED
  BY <1>1, <1>2, <1>3, <1>4, <1>5

LEMMA CommitIInv ==
    ASSUME IInv, NEW s \in Session, Commit(s)
    PROVE  IInv'
<1> USE DEF IInv, Commit, spVars
<1>0. ViewOK(s) /\ Filled(s) = val[s]
  BY DEF ViewInv, Filled
<1>1. TypeOK'
  <2>1. \A t \in Session : savedPend[t] \subseteq pend'[t]
    BY DEF TypeOK, SaveInv
  <2>2. \A r \in log' : IsRow(r)
    BY DEF TypeOK, View
  <2> QED
    BY <2>1, <2>2 DEF TypeOK, IsRow
<1>2. LogInv'
  BY <1>0 DEF LogInv, ViewOK
<1>3. LockInv'
  <2>1. pc[s] = "idle" /\ sp[s] = "none" /\ owner = s
    OBVIOUS
  <2> QED
    BY <2>1 DEF LockInv, TypeOK
<1>4. ViewInv'
  BY SessionAssumption DEF ViewInv
<1>5. SaveInv'
  BY DEF SaveInv, LockInv
<1> QED
  BY <1>1, <1>2, <1>3, <1>4, <1>5

LEMMA RollbackIInv ==
    ASSUME IInv, NEW s \in Session, Rollback(s)
    PROVE  IInv'
<1> USE DEF IInv, Rollback
<1>1. TypeOK'
  BY DEF TypeOK, Steps, IsRow
<1>2. LogInv'
  BY DEF LogInv
<1>3. LockInv'
  BY SessionAssumption DEF LockInv, TypeOK
<1>4. ViewInv'
  <2> SUFFICES ASSUME NEW t \in Session, owner' = t
               PROVE  ViewOK(t)'
    BY DEF ViewInv
  <2>1. t # s /\ owner = t
    BY SessionAssumption
  <2>2. View(t)' = View(t) /\ Filled(t)' = Filled(t)
    BY <2>1 DEF View, Filled, TypeOK
  <2> QED
    BY <2>1, <2>2 DEF ViewInv, ViewOK, TypeOK
<1>5. SaveInv'
  BY DEF SaveInv, TypeOK
<1> QED
  BY <1>1, <1>2, <1>3, <1>4, <1>5

LEMMA StutterIInv == IInv /\ UNCHANGED vars => IInv'
<1> SUFFICES ASSUME IInv, UNCHANGED vars PROVE IInv'
  OBVIOUS
<1> USE DEF IInv, vars, dbVars, spVars
<1>1. TypeOK'
  BY DEF TypeOK, IsRow
<1>2. LogInv' /\ LockInv' /\ SaveInv'
  BY DEF LogInv, LockInv, SaveInv
<1>3. ViewInv'
  BY DEF ViewInv, ViewOK, View, Filled
<1> QED
  BY <1>1, <1>2, <1>3

LEMMA StepIInv ==
    ASSUME IInv, NEW s \in Session, Step(s)
    PROVE  IInv'
<1>1. CASE RecordEvent(s)
  BY <1>1, MoveIInv DEF RecordEvent
<1>2. CASE CounterAbsent(s)
  BY <1>2, MoveIInv DEF CounterAbsent
<1>3. CASE CreateConflict(s)
  BY <1>3, MoveIInv DEF CreateConflict
<1>4. CASE \E c \in Content : InsertRow(s, c)
  BY <1>4, InsertRowIInv
<1> QED
  BY <1>1, <1>2, <1>3, <1>4, LockIInv, CreateIInv, IncrementIInv,
     GetLastHashIInv, BeginSavepointIInv, ReleaseSavepointIInv,
     RollbackSavepointIInv, CommitIInv, RollbackIInv DEF Step

\* The inductive invariant holds in every behaviour of SequenceService and
\* AuditorService under any interleaving of sessions.
THEOREM Inductive == Spec => []IInv
<1>1. IInv /\ [Next]_vars => IInv'
  BY StepIInv, StutterIInv DEF Next
<1> QED
  BY InitIInv, <1>1, PTL DEF Spec

\* Type correctness of the sequence and audit services.
THEOREM TypeCorrect == Spec => []TypeOK
<1>1. IInv => TypeOK
  BY DEF IInv
<1> QED
  BY Inductive, <1>1, PTL

\* R11, for any number of sessions: validate_chain succeeds on every view any
\* session can have of the audit table.
THEOREM ChainAlwaysValid == Spec => []ChainValid
<1>1. IInv => ChainValid
  <2> SUFFICES ASSUME IInv, NEW s \in Session PROVE ValidateChain(View(s))
    BY DEF ChainValid
  <2>1. CASE owner = s
    <3>1. Filled(s) \in Nat /\ GoodRows(View(s), Filled(s))
      BY <2>1 DEF IInv, ViewInv, ViewOK, Filled, TypeOK
    <3> QED
      BY <3>1, GoodRowsValid
  <2>2. CASE owner # s
    <3>1. View(s) = log
      BY <2>2 DEF IInv, LockInv, View
    <3> QED
      BY <3>1, GoodRowsValid DEF IInv, LogInv, TypeOK
  <2> QED
    BY <2>1, <2>2
<1> QED
  BY Inductive, <1>1, PTL

\* R9, for any number of sessions: committed audit rows are numbered up to the
\* counter and others past it, and no session sees two rows with one number.
THEOREM SequenceMonotonic == Spec => []SeqMonotonic
<1>1. IInv => SeqMonotonic
  <2> SUFFICES ASSUME IInv PROVE SeqMonotonic
    OBVIOUS
  <2>1. GoodRows(log, counter) /\ counter \in Nat
    BY DEF IInv, LogInv, TypeOK
  <2>2. ASSUME NEW s \in Session
        PROVE  /\ \A r, q \in View(s) : r.seq = q.seq => r = q
               /\ \A r \in View(s) : r.seq \in Nat \ {0}
    <3>1. CASE owner = s
      BY <3>1 DEF IInv, ViewInv, ViewOK, GoodRows, Numbered
    <3>2. CASE owner # s
      BY <3>2, <2>1 DEF IInv, LockInv, View, GoodRows, Numbered
    <3> QED
      BY <3>1, <3>2
  <2>3. ASSUME NEW s \in Session, NEW r \in View(s) \ log
        PROVE  r.seq > counter
    BY <2>1, <2>2, <2>3 DEF View, GoodRows, Numbered
  <2> QED
    BY <2>1, <2>2, <2>3 DEF SeqMonotonic, GoodRows, Numbered
<1> QED
  BY Inductive, <1>1, PTL
-----------------------------------------------------------------------------
(* Refinement. *)

\* The row CHOOSE picks for a number does not change when rows are added.
LEMMA ChosenRow ==
    ASSUME NEW rows, NEW n, Numbered(rows, n), NEW i \in 1 .. n
    PROVE  /\ (CHOOSE r \in rows : r.seq = i) \in rows
           /\ (CHOOSE r \in rows : r.seq = i).seq = i
  BY DEF Numbered

LEMMA CommitPublishes ==
    ASSUME IInv, NEW s \in Session, Commit(s)
    PROVE  Abstract!Next \/ Published' = Published
<1> DEFINE old == [i \in 1 .. counter |-> (CHOOSE r \in log : r.seq = i).content]
           all == View(s)
           new == [i \in 1 .. val[s] |-> (CHOOSE r \in all : r.seq = i).content]
<1>1. Published = old /\ Published' = new
  BY DEF Published, Commit
<1>2. /\ Numbered(log, counter) /\ Numbered(all, val[s]) /\ log \subseteq all
      /\ val[s] \in Nat /\ counter \in Nat /\ val[s] >= counter
      /\ \A r \in all : r.content \in Content
  <2>1. Filled(s) = val[s] /\ owner = s
    BY DEF Commit, Filled
  <2> QED
    BY <2>1 DEF IInv, TypeOK, LogInv, ViewInv, ViewOK, GoodRows, View, IsRow
<1> HIDE DEF all
<1>3. ASSUME NEW i \in 1 .. counter PROVE old[i] = new[i]
  <2> DEFINE a == CHOOSE r \in log : r.seq = i
             b == CHOOSE r \in all : r.seq = i
  <2>1. a \in log /\ a.seq = i
    BY <1>2, ChosenRow
  <2>2. i \in 1 .. val[s]
    BY <1>2
  <2>3. b \in all /\ b.seq = i
    BY <1>2, <2>2, ChosenRow
  <2>4. old[i] = a.content /\ new[i] = b.content
    BY <2>2
  <2> HIDE DEF a, b, old, new
  <2>5. a = b
    BY <1>2, <2>1, <2>3 DEF Numbered
  <2> QED
    BY <2>4, <2>5
<1>4. ASSUME NEW i \in 1 .. val[s] PROVE new[i] \in Content
  <2> DEFINE b == CHOOSE r \in all : r.seq = i
  <2>1. b \in all
    BY <1>2, ChosenRow
  <2>2. new[i] = b.content
    OBVIOUS
  <2> HIDE DEF b, new
  <2> QED
    BY <1>2, <2>1, <2>2
<1>5. /\ DOMAIN old = 1 .. counter /\ DOMAIN new = 1 .. val[s]
      /\ old = [i \in 1 .. counter |-> old[i]] /\ new = [i \in 1 .. val[s] |-> new[i]]
  OBVIOUS
<1> HIDE DEF old, new
<1>6. new \in Seq(Content) /\ Len(new) = val[s]
  <2> DEFINE v == val[s]
  <2>1. v \in Nat /\ new = [i \in 1 .. v |-> new[i]] /\ \A i \in 1 .. v : new[i] \in Content
    BY <1>2, <1>4, <1>5
  <2> HIDE DEF v
  <2>2. new \in Seq(Content) /\ Len(new) = v
    BY <2>1
  <2> QED
    BY <2>2 DEF v
<1>7. old \in Seq(Content) /\ Len(old) = counter
  <2>1. \A i \in 1 .. counter : old[i] \in Content
    BY <1>2, <1>3, <1>4
  <2> QED
    BY <1>2, <1>5, <2>1
<1>8. CASE val[s] = counter
  BY <1>1, <1>3, <1>5, <1>8
<1>9. CASE val[s] > counter
  <2>1. SubSeq(new, 1, counter) = [i \in 1 .. counter |-> new[i]]
    BY <1>2, <1>6
  <2>2. SubSeq(new, 1, counter) = old
    BY <1>3, <1>5, <2>1
  <2> QED
    BY <1>1, <1>6, <1>7, <1>9, <2>2 DEF Abstract!Next, Abstract!Publish
<1> QED
  BY <1>2, <1>8, <1>9

\* R1, for any number of sessions: the sequence and audit services implement
\* the append-only log.
THEOREM Refinement == Spec => ImplementsAuditLog
<1>1. Init => Abstract!Init
  <2> SUFFICES ASSUME Init PROVE Published = <<>>
    BY DEF Abstract!Init
  <2> QED
    BY DEF Init, Published
<1>2. IInv /\ [Next]_vars => [Abstract!Next]_Published
  <2> SUFFICES ASSUME IInv, [Next]_vars PROVE Abstract!Next \/ Published' = Published
    OBVIOUS
  <2>1. CASE \E s \in Session : Commit(s)
    BY <2>1, CommitPublishes
  <2>2. CASE counter' = counter /\ log' = log
    BY <2>2 DEF Published
  <2>3. (\E s \in Session : Commit(s)) \/ (counter' = counter /\ log' = log)
    BY DEF Next, Step, RecordEvent, LockCounter, CounterAbsent, CreateCounter,
           CreateConflict, Increment, GetLastHash, InsertRow, BeginSavepoint,
           ReleaseSavepoint, RollbackSavepoint, Rollback, vars, dbVars
  <2> QED
    BY <2>1, <2>2, <2>3
<1> QED
  BY Inductive, <1>1, <1>2, PTL DEF Spec, ImplementsAuditLog, Abstract!Spec

-----------------------------------------------------------------------------
(* The engines: sums of sequences.                                         *)

\* Induction over the natural numbers: a set without a least number outside it.
LEMMA Induction ==
  ASSUME NEW S, 0 \in S, \A n \in Nat : n \in S => n + 1 \in S
  PROVE  Nat \subseteq S
<1> DEFINE R == OpToRel(<, Nat)
           M == Nat \ S
<1>1. IsWellFoundedOn(R, Nat)
  BY NatLessThanWellFounded
<1>2. \A x, y \in Nat : <<y, x>> \in R <=> y < x
  BY DEF OpToRel
<1>a. M \subseteq Nat
  OBVIOUS
<1> HIDE DEF R
<1> SUFFICES ASSUME M # {} PROVE FALSE
  OBVIOUS
<1>3. PICK x \in M : \A y \in M : ~ (<<y, x>> \in R)
  BY <1>1, <1>a, WFMin, Zenon
<1>4. x \in Nat /\ x # 0
  OBVIOUS
<1>5. x - 1 \in Nat /\ x - 1 < x
  BY <1>4
<1>6. x - 1 \notin M
  BY <1>2, <1>3, <1>4, <1>5
<1>7. x - 1 \in S /\ (x - 1) + 1 = x
  BY <1>4, <1>5, <1>6
<1> QED BY <1>5, <1>7

Sums(s) == CHOOSE sum : sum = [k \in 0 .. Len(s) |-> IF k = 0 THEN 0 ELSE sum[k - 1] + s[k]]
\* Running totals of a sequence exist: the function they are chosen as is one.
LEMMA Totals ==
  ASSUME NEW s \in Seq(Int)
  PROVE \E f \in [0 .. Len(s) -> Int] : f[0] = 0 /\ \A k \in 1 .. Len(s) : f[k] = f[k - 1] + s[k]
<1> DEFINE Good(n, f) == f \in [0 .. n -> Int] /\ f[0] = 0 /\ \A k \in 1 .. n : f[k] = f[k - 1] + s[k]
           Upto(n) == n <= Len(s) => \E f : Good(n, f)
           S == {n \in Nat : Upto(n)}
<1>0. Len(s) \in Nat /\ \A k \in 1 .. Len(s) : s[k] \in Int
  OBVIOUS
<1>1. Upto(0)
  <2>1. Good(0, [k \in 0..0 |-> 0])
    OBVIOUS
  <2> QED BY <2>1
<1>2. ASSUME NEW n \in Nat, Upto(n) PROVE Upto(n + 1)
  <2> SUFFICES ASSUME n + 1 <= Len(s) PROVE \E f : Good(n + 1, f)
    OBVIOUS
  <2>0. n <= Len(s)
    BY <1>0
  <2>1. PICK f : Good(n, f)
    BY <1>2, <2>0, Zenon
  <2> DEFINE g == [k \in 0 .. n + 1 |-> IF k = n + 1 THEN f[n] + s[n + 1] ELSE f[k]]
  <2>2. g \in [0 .. n + 1 -> Int]
    BY <1>0, <2>1
  <2>3. g[0] = 0
    BY <2>1
  <2>4. \A k \in 1 .. n + 1 : g[k] = g[k - 1] + s[k]
    BY <2>1, <1>0
  <2>5. Good(n + 1, g)
    BY <2>2, <2>3, <2>4
  <2> QED BY <2>5
<1> HIDE DEF Upto
<1>3. 0 \in S /\ \A n \in Nat : n \in S => n + 1 \in S
  BY <1>1, <1>2
<1>4. Nat \subseteq S
  <2> HIDE DEF S
  <2> QED BY <1>3, Induction
<1>5. Upto(Len(s))
  BY <1>0, <1>4
<1>6. Len(s) <= Len(s)
  BY <1>0
<1> QED BY <1>5, <1>6, Zenon DEF Upto

\* The running totals of a sequence of integers, and its sum as the last of them.
LEMMA RunningTotals ==
  ASSUME NEW s \in Seq(Int)
  PROVE  /\ Sums(s) \in [0 .. Len(s) -> Int]
         /\ Sums(s)[0] = 0
         /\ \A k \in 1 .. Len(s) : Sums(s)[k] = Sums(s)[k - 1] + s[k]
         /\ SumOfSeq(s) = Sums(s)[Len(s)]
         /\ SumOfSeq(s) \in Int
<1> DEFINE f == Sums(s)
<1>0. Len(s) \in Nat /\ \A k \in 1 .. Len(s) : s[k] \in Int
  OBVIOUS
<1>1. f = [k \in 0 .. Len(s) |-> IF k = 0 THEN 0 ELSE f[k - 1] + s[k]]
  <2>1. PICK g \in [0 .. Len(s) -> Int] : g[0] = 0 /\ \A k \in 1 .. Len(s) : g[k] = g[k - 1] + s[k]
    BY Totals
  <2>2. g = [k \in 0 .. Len(s) |-> IF k = 0 THEN 0 ELSE g[k - 1] + s[k]]
    BY <2>1
  <2> QED BY <2>2 DEF Sums
<1>2. SumOfSeq(s) = f[Len(s)]
  BY DEF SumOfSeq, Sums
<1> HIDE DEF f
<1>3. f[0] = 0 /\ \A k \in 1 .. Len(s) : f[k] = f[k - 1] + s[k]
  BY <1>0, <1>1
<1> DEFINE S == {n \in Nat : n <= Len(s) => f[n] \in Int}
<1>4. 0 \in S
  BY <1>3
<1>5. ASSUME NEW n \in Nat, n \in S PROVE n + 1 \in S
  <2> SUFFICES ASSUME n + 1 <= Len(s) PROVE f[n + 1] \in Int
    OBVIOUS
  <2>1. n + 1 \in 1 .. Len(s) /\ n <= Len(s)
    BY <1>0
  <2>2. f[n] \in Int
    BY <1>5, <2>1
  <2>3. f[n + 1] = f[n] + s[n + 1]
    BY <1>3, <2>1
  <2> QED BY <1>0, <2>1, <2>2, <2>3
<1>6. Nat \subseteq S
  <2> HIDE DEF S
  <2> QED BY <1>4, <1>5, Induction
<1>7. \A n \in 0 .. Len(s) : f[n] \in Int
  BY <1>0, <1>6
<1>8. f \in [0 .. Len(s) -> Int]
  BY <1>1, <1>7
<1> QED BY <1>0, <1>2, <1>3, <1>7, <1>8 DEF f

\* Whatever starts at zero and grows by the elements is the running total.
LEMMA SumIs ==
  ASSUME NEW s \in Seq(Int), NEW f, f[0] = 0,
         \A k \in 1 .. Len(s) : f[k] = f[k - 1] + s[k]
  PROVE  SumOfSeq(s) = f[Len(s)]
<1> DEFINE S == {n \in Nat : n <= Len(s) => f[n] = Sums(s)[n]}
<1>0. Len(s) \in Nat
  OBVIOUS
<1>4. 0 \in S
  BY RunningTotals
<1>5. ASSUME NEW n \in Nat, n \in S PROVE n + 1 \in S
  <2> SUFFICES ASSUME n + 1 <= Len(s) PROVE f[n + 1] = Sums(s)[n + 1]
    OBVIOUS
  <2>1. n + 1 \in 1 .. Len(s) /\ n <= Len(s) /\ (n + 1) - 1 = n
    BY <1>0
  <2>2. f[n] = Sums(s)[n]
    BY <1>5, <2>1
  <2>3. f[n + 1] = f[n] + s[n + 1] /\ Sums(s)[n + 1] = Sums(s)[n] + s[n + 1]
    BY RunningTotals, <2>1
  <2> QED BY <2>2, <2>3
<1>6. Nat \subseteq S
  <2> HIDE DEF S
  <2> QED BY <1>4, <1>5, Induction
<1>7. f[Len(s)] = Sums(s)[Len(s)]
  BY <1>0, <1>6
<1> QED BY <1>7, RunningTotals

\* Sums of two and of three amounts.
LEMMA SumOfTwo ==
  ASSUME NEW a \in Int, NEW b \in Int
  PROVE  SumOfSeq(<<a, b>>) = a + b
<1> DEFINE s == <<a, b>>
           f == [k \in 0 .. 2 |-> IF k = 0 THEN 0 ELSE IF k = 1 THEN a ELSE a + b]
<1>1. s \in Seq(Int) /\ Len(s) = 2 /\ s[1] = a /\ s[2] = b
  OBVIOUS
<1>2. f[0] = 0 /\ f[1] = f[0] + s[1] /\ f[2] = f[1] + s[2] /\ f[2] = a + b
  OBVIOUS
<1> HIDE DEF f, s
<1>3. \A k \in 1 .. Len(s) : f[k] = f[k - 1] + s[k]
  BY <1>1, <1>2
<1>4. SumOfSeq(s) = f[Len(s)]
  BY <1>1, <1>2, <1>3, SumIs
<1> QED BY <1>1, <1>2, <1>4 DEF s

LEMMA SumOfThree ==
  ASSUME NEW a \in Int, NEW b \in Int, NEW c \in Int
  PROVE  SumOfSeq(<<a, b, c>>) = a + b + c
<1> DEFINE s == <<a, b, c>>
           f == [k \in 0 .. 3 |-> IF k = 0 THEN 0 ELSE IF k = 1 THEN a ELSE IF k = 2 THEN a + b ELSE a + b + c]
<1>1. s \in Seq(Int) /\ Len(s) = 3 /\ s[1] = a /\ s[2] = b /\ s[3] = c
  OBVIOUS
<1>2. f[0] = 0 /\ f[1] = f[0] + s[1] /\ f[2] = f[1] + s[2] /\ f[3] = f[2] + s[3] /\ f[3] = a + b + c
  OBVIOUS
<1> HIDE DEF f, s
<1>3. \A k \in 1 .. Len(s) : f[k] = f[k - 1] + s[k]
  BY <1>1, <1>2
<1>4. SumOfSeq(s) = f[Len(s)]
  BY <1>1, <1>2, <1>3, SumIs
<1> QED BY <1>1, <1>2, <1>4 DEF s

\* The sum of what two sequences add up to element by element.
LEMMA SumAdds ==
  ASSUME NEW s \in Seq(Int), NEW t \in Seq(Int), Len(t) = Len(s), NEW u \in Seq(Int), Len(u) = Len(s),
         \A k \in 1 .. Len(s) : u[k] = s[k] + t[k]
  PROVE  SumOfSeq(u) = SumOfSeq(s) + SumOfSeq(t)
<1> DEFINE f == [k \in 0 .. Len(s) |-> Sums(s)[k] + Sums(t)[k]]
<1>0. Len(s) \in Nat /\ \A k \in 1 .. Len(s) : s[k] \in Int /\ t[k] \in Int
  OBVIOUS
<1>1. f[0] = 0
  BY <1>0, RunningTotals
<1>2. \A k \in 1 .. Len(u) : f[k] = f[k - 1] + u[k]
  <2> SUFFICES ASSUME NEW k \in 1 .. Len(s) PROVE f[k] = f[k - 1] + u[k]
    OBVIOUS
  <2>1. k \in 0 .. Len(s) /\ k - 1 \in 0 .. Len(s)
    BY <1>0
  <2>2. Sums(s)[k - 1] \in Int /\ Sums(t)[k - 1] \in Int
    BY <2>1, RunningTotals
  <2>3. Sums(s)[k] = Sums(s)[k - 1] + s[k] /\ Sums(t)[k] = Sums(t)[k - 1] + t[k]
    BY RunningTotals
  <2>4. f[k] = Sums(s)[k] + Sums(t)[k] /\ f[k - 1] = Sums(s)[k - 1] + Sums(t)[k - 1]
    BY <2>1
  <2>5. u[k] = s[k] + t[k] /\ s[k] \in Int /\ t[k] \in Int
    BY <1>0
  <2> HIDE DEF f
  <2> QED BY <2>2, <2>3, <2>4, <2>5
<1>3. f[Len(s)] = SumOfSeq(s) + SumOfSeq(t)
  BY <1>0, RunningTotals
<1> HIDE DEF f
<1>4. SumOfSeq(u) = f[Len(u)]
  BY <1>1, <1>2, SumIs
<1> QED BY <1>3, <1>4

\* A sequence with one element that is not zero, or with none.
LEMMA SumOfOne ==
  ASSUME NEW s \in Seq(Int), NEW j \in 1 .. Len(s), \A k \in 1 .. Len(s) : k # j => s[k] = 0
  PROVE  SumOfSeq(s) = s[j]
<1> DEFINE f == [k \in 0 .. Len(s) |-> IF k < j THEN 0 ELSE s[j]]
<1>0. Len(s) \in Nat /\ j \in Nat /\ s[j] \in Int
  OBVIOUS
<1>1. f[0] = 0 /\ f[Len(s)] = s[j]
  BY <1>0
<1>2. \A k \in 1 .. Len(s) : f[k] = f[k - 1] + s[k]
  BY <1>0
<1> HIDE DEF f
<1> QED BY <1>1, <1>2, SumIs

LEMMA SumOfNone ==
  ASSUME NEW s \in Seq(Int), \A k \in 1 .. Len(s) : s[k] = 0
  PROVE  SumOfSeq(s) = 0
<1> DEFINE f == [k \in 0 .. Len(s) |-> 0]
<1>1. f[0] = 0 /\ f[Len(s)] = 0 /\ \A k \in 1 .. Len(s) : f[k] = f[k - 1] + s[k]
  OBVIOUS
<1> HIDE DEF f
<1> QED BY <1>1, SumIs

-----------------------------------------------------------------------------
(* The engines: billing.                                                   *)

\* Rounded amounts are whole cents.
LEMMA RoundType ==
  ASSUME NEW n \in Int, NEW d \in Nat, d > 0
  PROVE  BI!RoundHalfUp(n, d) \in Int
BY DEF BI!RoundHalfUp

LEMMA PercentType ==
  ASSUME NEW base \in Int, NEW rate \in Int
  PROVE  BI!PercentOf(base, rate) \in Int
<1>1. base * rate \in Int
  OBVIOUS
<1> QED BY <1>1, RoundType DEF BI!PercentOf

\* The sum that billing takes is the one above.
LEMMA BillingSums ==
  ASSUME NEW s \in Seq(Int)
  PROVE  BI!SumOfSeq(s) = SumOfSeq(s) /\ BI!SumOfSeq(s) \in Int
<1>1. BI!SumOfSeq(s) = SumOfSeq(s)
  BY DEF BI!SumOfSeq, SumOfSeq
<1> QED BY <1>1, RunningTotals

\* An amount held to a limit stays within what the limit leaves.
LEMMA HeldWithin ==
  ASSUME NEW amount \in Int, NEW cumulative \in Int, NEW limit \in Nat \cup {NoAmount}
  PROVE  /\ BI!Held(amount, cumulative, limit) \in Int
         /\ BI!Held(amount, cumulative, limit) <= amount
         /\ limit # NoAmount /\ cumulative <= limit =>
              cumulative + BI!Held(amount, cumulative, limit) <= limit
BY DEF BI!Held, BI!Lesser, BI!Remaining, BI!AtLeast0, BI!NoAmount, NoAmount

\* Held to the funding and then to the ceiling, an amount stays within both.
LEMMA LimitedWithin ==
  ASSUME NEW terms \in BillingJobs, NEW amount \in Int, NEW cumulative \in Int
  PROVE  LET gross == BI!Limited(amount, terms, cumulative)
         IN /\ gross \in Int
            /\ terms.funding_limit # NoAmount /\ cumulative <= terms.funding_limit =>
                 cumulative + gross <= terms.funding_limit
            /\ terms.ceiling_amount # NoAmount /\ cumulative <= terms.ceiling_amount =>
                 cumulative + gross <= terms.ceiling_amount
<1> DEFINE first == BI!Held(amount, cumulative, terms.funding_limit)
           gross == BI!Held(first, cumulative, terms.ceiling_amount)
<1>1. terms.funding_limit \in Nat \cup {NoAmount} /\ terms.ceiling_amount \in Nat \cup {NoAmount}
  BY BillingAssumption
<1>2. BI!Limited(amount, terms, cumulative) = gross
  BY DEF BI!Limited, BI!apply_funding_limit
<1>3. /\ first \in Int
      /\ terms.funding_limit # NoAmount /\ cumulative <= terms.funding_limit =>
           cumulative + first <= terms.funding_limit
  BY <1>1, HeldWithin
<1> HIDE DEF first
<1>4. /\ gross \in Int /\ gross <= first
      /\ terms.ceiling_amount # NoAmount /\ cumulative <= terms.ceiling_amount =>
           cumulative + gross <= terms.ceiling_amount
  BY <1>1, <1>3, HeldWithin
<1> HIDE DEF gross
<1>5. terms.funding_limit # NoAmount => terms.funding_limit \in Int
  BY <1>1
<1> QED BY <1>2, <1>3, <1>4, <1>5

\* The elements of a sequence.
LEMMA Element ==
  ASSUME NEW S, NEW s \in Seq(S)
  PROVE  Len(s) \in Nat /\ DOMAIN s = 1 .. Len(s) /\ \A i \in 1 .. Len(s) : s[i] \in S
OBVIOUS

\* What is billed before the limits, for each kind of contract.
LEMMA LaborTotal ==
  ASSUME NEW work \in Works
  PROVE  BI!SumOfSeq(BI!LaborAmounts(work)) \in Int
<1>1. work.labor_entries \in Seq([hours : Int, billing_rate : Int])
  BY BillingAssumption
<1>2. ASSUME NEW i \in 1 .. Len(work.labor_entries) PROVE BI!LaborAmount(work.labor_entries[i]) \in Int
  <2>1. work.labor_entries[i] \in [hours : Int, billing_rate : Int]
    BY <1>1, Element
  <2> DEFINE h == work.labor_entries[i].hours
             b == work.labor_entries[i].billing_rate
  <2>2. h \in Int /\ b \in Int
    BY <2>1
  <2> HIDE DEF h, b
  <2>3. h * b \in Int
    BY <2>2
  <2>4. BI!RoundHalfUp(h * b, 10) \in Int
    BY <2>3, RoundType
  <2> QED BY <2>4 DEF BI!LaborAmount, h, b
<1>3. BI!LaborAmounts(work) \in Seq(Int)
  BY <1>1, <1>2 DEF BI!LaborAmounts
<1> QED BY <1>3, BillingSums

\* Costs, indirect costs and fee of a cost-plus contract add up to an amount.
LEMMA CostPlusTotal ==
  ASSUME NEW terms \in BillingJobs, NEW work \in Works
  PROVE  LET ind == BI!calculate_indirect_costs(work, terms)
             total_cost == BI!total_direct(work) + ind.fringe + ind.overhead + ind.ga + ind.material_handling
         IN total_cost + BI!calculate_fee(total_cost, terms.fee_rate, terms.fee_ceiling, 0) \in Int
<1> DEFINE fringe == BI!PercentOf(work.direct_labor, terms.fringe)
           overhead == BI!PercentOf(work.direct_labor + fringe, terms.overhead)
           direct == work.direct_labor + work.direct_material + work.other
           ga == BI!PercentOf(direct + fringe + overhead, terms.ga)
           handling == BI!PercentOf(work.direct_material, terms.material_handling)
           ind == BI!calculate_indirect_costs(work, terms)
           total_cost == BI!total_direct(work) + ind.fringe + ind.overhead + ind.ga + ind.material_handling
           fee == BI!calculate_fee(total_cost, terms.fee_rate, terms.fee_ceiling, 0)
<1>1. /\ work.direct_labor \in Int /\ work.direct_material \in Int /\ work.other \in Int
      /\ terms.fringe \in Int /\ terms.overhead \in Int /\ terms.ga \in Int
      /\ terms.material_handling \in Int /\ terms.fee_rate \in Int
      /\ terms.fee_ceiling \in Nat \cup {NoAmount}
  BY BillingAssumption DEF IndirectRates
<1>2. ind = [fringe |-> fringe, overhead |-> overhead, ga |-> ga, material_handling |-> handling]
  BY DEF BI!calculate_indirect_costs, BI!_apply_rate, BI!total_direct
<1>3. BI!total_direct(work) = direct /\ direct \in Int
  BY <1>1 DEF BI!total_direct
<1>4. fringe \in Int
  BY <1>1, PercentType
<1>5. overhead \in Int
  <2> HIDE DEF fringe
  <2>1. work.direct_labor + fringe \in Int
    BY <1>1, <1>4
  <2> QED BY <1>1, <2>1, PercentType, Zenon
<1>6. ga \in Int
  <2> HIDE DEF fringe, overhead, direct
  <2>1. direct + fringe + overhead \in Int
    BY <1>3, <1>4, <1>5
  <2> QED BY <1>1, <2>1, PercentType, Zenon
<1>7. handling \in Int
  BY <1>1, PercentType
<1>8. total_cost \in Int
  <2> HIDE DEF fringe, overhead, direct, ga, handling, ind
  <2>1. ind.fringe = fringe /\ ind.overhead = overhead /\ ind.ga = ga /\ ind.material_handling = handling
    BY <1>2
  <2> QED BY <1>3, <1>4, <1>5, <1>6, <1>7, <2>1
<1> HIDE DEF total_cost
<1>9. BI!PercentOf(total_cost, terms.fee_rate) \in Int
  BY <1>1, <1>8, PercentType
<1>10. fee \in Int
  <2>1. BI!Held(BI!PercentOf(total_cost, terms.fee_rate), 0, terms.fee_ceiling) \in Int
    <3> DEFINE amount == BI!PercentOf(total_cost, terms.fee_rate)
    <3> HIDE DEF amount
    <3>1. amount \in Int /\ 0 \in Int /\ terms.fee_ceiling \in Nat \cup {NoAmount}
      BY <1>1, <1>9 DEF amount
    <3>2. BI!Held(amount, 0, terms.fee_ceiling) \in Int
      BY <3>1, HeldWithin
    <3> QED BY <3>2 DEF amount
  <2> QED BY <2>1 DEF BI!calculate_fee
<1>11. total_cost + fee \in Int
  BY <1>8, <1>10
<1> QED BY <1>11 DEF total_cost

\* So do the completed milestones of a fixed-price contract.
LEMMA MilestoneTotal ==
  ASSUME NEW work \in Works
  PROVE  BI!SumOfSeq([i \in 1 .. Len(work.milestones) |->
           IF work.milestones[i].completion_pct >= 100 THEN work.milestones[i].amount ELSE 0]) \in Int
<1> DEFINE done == [i \in 1 .. Len(work.milestones) |->
                     IF work.milestones[i].completion_pct >= 100 THEN work.milestones[i].amount ELSE 0]
<1>1. work.milestones \in Seq([amount : Int, completion_pct : Int])
  BY BillingAssumption
<1>2. \A i \in 1 .. Len(work.milestones) : work.milestones[i] \in [amount : Int, completion_pct : Int]
  BY <1>1, Element
<1>3. \A i \in 1 .. Len(work.milestones) : work.milestones[i].amount \in Int
  BY <1>2
<1>4. done \in Seq(Int)
  BY <1>1, <1>3, Element
<1> HIDE DEF done
<1>5. BI!SumOfSeq(done) \in Int
  BY <1>4, BillingSums
<1> QED BY <1>5 DEF done

\* One billing keeps what is billed within the limits, for every kind of contract.
Within(terms, total) ==
  /\ terms.funding_limit # NoAmount => total <= terms.funding_limit
  /\ (terms.ceiling_amount # NoAmount /\ terms.contract_type \notin {"FFP", "FPI"}) =>
       total <= terms.ceiling_amount
LEMMA GrossWithin ==
  ASSUME NEW terms \in BillingJobs, NEW work \in Works, NEW cumulative \in Int, Within(terms, cumulative)
  PROVE  LET gross == BI!calculate_billing(terms, work, cumulative).gross
         IN gross \in Int /\ Within(terms, cumulative + gross)
<1> DEFINE Result(amount) == BI!calculate_billing(terms, work, cumulative).gross
                               = BI!Limited(amount, terms, cumulative)
<1>1. ASSUME NEW amount \in Int, Result(amount)
      PROVE  LET gross == BI!calculate_billing(terms, work, cumulative).gross
             IN gross \in Int /\ Within(terms, cumulative + gross)
  <2>1. LET gross == BI!Limited(amount, terms, cumulative)
        IN /\ gross \in Int
           /\ terms.funding_limit # NoAmount /\ cumulative <= terms.funding_limit =>
                cumulative + gross <= terms.funding_limit
           /\ terms.ceiling_amount # NoAmount /\ cumulative <= terms.ceiling_amount =>
                cumulative + gross <= terms.ceiling_amount
    BY LimitedWithin
  <2> QED BY <1>1, <2>1 DEF Within
<1>2. CASE terms.contract_type \in BI!CostPlus
  <2> DEFINE ind == BI!calculate_indirect_costs(work, terms)
             total_cost == BI!total_direct(work) + ind.fringe + ind.overhead + ind.ga + ind.material_handling
             fee == BI!calculate_fee(total_cost, terms.fee_rate, terms.fee_ceiling, 0)
             amount == total_cost + fee
  <2>1. BI!calculate_billing(terms, work, cumulative) = BI!_calculate_cost_plus_billing(terms, work, cumulative)
    BY <1>2 DEF BI!calculate_billing, BI!CostPlus
  <2>2. BI!_calculate_cost_plus_billing(terms, work, cumulative).gross = BI!Limited(amount, terms, cumulative)
    BY DEF BI!_calculate_cost_plus_billing, BI!BillingResult
  <2>3. amount \in Int
    BY CostPlusTotal
  <2> HIDE DEF amount
  <2> QED BY <1>1, <2>1, <2>2, <2>3
<1>3. CASE terms.contract_type = "TM"
  <2> DEFINE amount == BI!SumOfSeq(BI!LaborAmounts(work)) + BI!AtLeast0(work.direct_material)
  <2>1. BI!calculate_billing(terms, work, cumulative) = BI!_calculate_tm_billing(terms, work, cumulative)
    BY <1>3 DEF BI!calculate_billing, BI!CostPlus
  <2>2. BI!_calculate_tm_billing(terms, work, cumulative).gross = BI!Limited(amount, terms, cumulative)
    BY DEF BI!_calculate_tm_billing, BI!BillingResult
  <2>3. amount \in Int
    BY LaborTotal, BillingAssumption DEF BI!AtLeast0
  <2> HIDE DEF amount
  <2> QED BY <1>1, <2>1, <2>2, <2>3
<1>4. CASE terms.contract_type = "LH"
  <2> DEFINE amount == BI!SumOfSeq(BI!LaborAmounts(work))
  <2>1. BI!calculate_billing(terms, work, cumulative) = BI!_calculate_lh_billing(terms, work, cumulative)
    BY <1>4 DEF BI!calculate_billing, BI!CostPlus
  <2>2. BI!_calculate_lh_billing(terms, work, cumulative).gross = BI!Limited(amount, terms, cumulative)
    BY DEF BI!_calculate_lh_billing, BI!BillingResult
  <2>3. amount \in Int
    BY LaborTotal
  <2> HIDE DEF amount
  <2> QED BY <1>1, <2>1, <2>2, <2>3
<1>5. CASE terms.contract_type \in {"FFP", "FPI"}
  <2> DEFINE done == [i \in 1 .. Len(work.milestones) |->
                       IF work.milestones[i].completion_pct >= 100 THEN work.milestones[i].amount ELSE 0]
             amount == BI!SumOfSeq(done)
             gross == BI!Held(amount, cumulative, terms.funding_limit)
  <2>1. BI!calculate_billing(terms, work, cumulative) = BI!_calculate_ffp_billing(terms, work, cumulative)
    BY <1>5 DEF BI!calculate_billing, BI!CostPlus, BI!_calculate_fpi_billing
  <2>2. BI!_calculate_ffp_billing(terms, work, cumulative).gross = gross
    BY DEF BI!_calculate_ffp_billing, BI!BillingResult, BI!apply_funding_limit
  <2>3. amount \in Int /\ terms.funding_limit \in Nat \cup {NoAmount}
    BY MilestoneTotal, BillingAssumption
  <2> HIDE DEF amount
  <2>4. /\ gross \in Int
        /\ terms.funding_limit # NoAmount /\ cumulative <= terms.funding_limit =>
             cumulative + gross <= terms.funding_limit
    BY <2>3, HeldWithin
  <2> HIDE DEF gross
  <2> QED BY <1>5, <2>1, <2>2, <2>4 DEF Within
<1>6. terms.contract_type \in BI!BillingContractType
  BY BillingAssumption
<1> QED BY <1>2, <1>3, <1>4, <1>5, <1>6 DEF BI!BillingContractType, BI!CostPlus

-----------------------------------------------------------------------------
(* The engines: the cascade.                                               *)

\* One step of the cascade: what it leaves in the pools and has accumulated.
LEMMA StepOfCascade ==
  ASSUME NEW balances, NEW cumulative, NEW step, NEW rates, NEW source, NEW allocated,
         source = BI!Balance(balances, step.pool_from),
         allocated = BI!PercentOf(IF step.base = "pool_balance" THEN source ELSE cumulative,
                       IF step.rate_type \in DOMAIN rates THEN rates[step.rate_type] ELSE 0)
  PROVE  BI!CascadeStep([balances |-> balances, cumulative |-> cumulative], step, rates) =
           [balances |-> [p \in DOMAIN balances \cup {step.pool_to} |->
                            BI!Balance(balances, p) + IF p = step.pool_to THEN allocated ELSE 0],
            cumulative |-> cumulative + source + allocated]
BY DEF BI!CascadeStep

\* The cascade runs its three steps one after the other.
LEMMA ThreeSteps ==
  ASSUME NEW pools, NEW rates, NEW a1, NEW a2, NEW a3,
         a1 = BI!CascadeStep([balances |-> pools, cumulative |-> 0], BI!build_dcaa_cascade[1], rates),
         a2 = BI!CascadeStep(a1, BI!build_dcaa_cascade[2], rates),
         a3 = BI!CascadeStep(a2, BI!build_dcaa_cascade[3], rates)
  PROVE  BI!execute_cascade(BI!build_dcaa_cascade, pools, rates) = a3.balances
<1> DEFINE steps == BI!build_dcaa_cascade
           a0 == [balances |-> pools, cumulative |-> 0]
           Runs(f) == f = [k \in 0 .. Len(steps) |-> IF k = 0 THEN a0
                             ELSE BI!CascadeStep(f[k - 1], steps[k], rates)]
           after == CHOOSE f : Runs(f)
           g == [k \in 0 .. Len(steps) |-> IF k = 0 THEN a0 ELSE IF k = 1 THEN a1
                   ELSE IF k = 2 THEN a2 ELSE a3]
<1>1. Len(steps) = 3
  BY DEF BI!build_dcaa_cascade
<1>2. BI!execute_cascade(steps, pools, rates) = after[Len(steps)].balances
  BY DEF BI!execute_cascade
<1> HIDE DEF steps, a0
<1>3. Runs(g)
  <2>1. g[0] = a0 /\ g[1] = a1 /\ g[2] = a2 /\ g[3] = a3
    BY <1>1
  <2>2. \A k \in 0 .. Len(steps) : g[k] = IF k = 0 THEN a0 ELSE BI!CascadeStep(g[k - 1], steps[k], rates)
    <3>1. g[1] = BI!CascadeStep(g[0], steps[1], rates)
      BY <2>1 DEF a0, steps
    <3>2. g[2] = BI!CascadeStep(g[1], steps[2], rates)
      BY <2>1 DEF steps
    <3>3. g[3] = BI!CascadeStep(g[2], steps[3], rates)
      BY <2>1 DEF steps
    <3>4. 0 .. Len(steps) = {0, 1, 2, 3}
      BY <1>1
    <3> HIDE DEF g
    <3> QED BY <2>1, <3>1, <3>2, <3>3, <3>4
  <2> QED BY <2>2
<1>4. Runs(after)
  <2> HIDE DEF Runs, g
  <2> QED BY <1>3
<1> HIDE DEF after
<1>5. after[0] = a0
  BY <1>1, <1>4
<1>6. after[1] = a1
  <2>1. after[1] = BI!CascadeStep(after[0], steps[1], rates)
    BY <1>1, <1>4
  <2> QED BY <2>1, <1>5 DEF a0, steps
<1>7. after[2] = a2
  <2>1. after[2] = BI!CascadeStep(after[1], steps[2], rates)
    BY <1>1, <1>4
  <2> QED BY <2>1, <1>6 DEF steps
<1>8. after[3] = a3
  <2>1. after[3] = BI!CascadeStep(after[2], steps[3], rates)
    BY <1>1, <1>4
  <2> QED BY <2>1, <1>7 DEF steps
<1> QED BY <1>1, <1>2, <1>8 DEF steps

\* The pools after the cascade hold what billing computes from the same costs.
LEMMA CascadePools ==
  ASSUME NEW j \in CascadeJobs
  PROVE  LET out == BI!execute_cascade(BI!build_dcaa_cascade, j.pools, j.rates)
             costs == [direct_labor |-> j.pools["DIRECT_LABOR"], direct_material |-> 0,
                       other |-> j.pools["DIRECT_COST"]]
             ind == BI!calculate_indirect_costs(costs, BillingRates(j.rates))
         IN /\ DOMAIN out = {"DIRECT_LABOR", "DIRECT_COST", "FRINGE", "OVERHEAD", "G&A"}
            /\ out["DIRECT_LABOR"] = j.pools["DIRECT_LABOR"]
            /\ out["DIRECT_COST"] = j.pools["DIRECT_COST"]
            /\ out["FRINGE"] = ind.fringe /\ out["OVERHEAD"] = ind.overhead /\ out["G&A"] = ind.ga
            /\ out["OVERHEAD"] = BI!PercentOf(j.pools["DIRECT_LABOR"] + out["FRINGE"], j.rates["overhead"])
            /\ ind.fringe \in Int /\ ind.overhead \in Int /\ ind.ga \in Int
            /\ BI!total_direct(costs) = j.pools["DIRECT_LABOR"] + j.pools["DIRECT_COST"]
<1> DEFINE L == j.pools["DIRECT_LABOR"]
           C == j.pools["DIRECT_COST"]
           F == BI!PercentOf(L, j.rates["fringe"])
           O == BI!PercentOf(L + F, j.rates["overhead"])
           G == BI!PercentOf(L + F + C + O, j.rates["g&a"])
           steps == BI!build_dcaa_cascade
           costs == [direct_labor |-> L, direct_material |-> 0, other |-> C]
           ind == BI!calculate_indirect_costs(costs, BillingRates(j.rates))
           out == BI!execute_cascade(steps, j.pools, j.rates)
           D0 == {"DIRECT_LABOR", "DIRECT_COST"}
           b1 == [p \in D0 \cup {"FRINGE"} |-> IF p = "FRINGE" THEN F ELSE j.pools[p]]
           b2 == [p \in (D0 \cup {"FRINGE"}) \cup {"OVERHEAD"} |-> IF p = "OVERHEAD" THEN O ELSE b1[p]]
           b3 == [p \in ((D0 \cup {"FRINGE"}) \cup {"OVERHEAD"}) \cup {"G&A"} |-> IF p = "G&A" THEN G ELSE b2[p]]
           a1 == [balances |-> b1, cumulative |-> 0 + L + F]
           a2 == [balances |-> b2, cumulative |-> (0 + L + F) + C + O]
           a3 == [balances |-> b3, cumulative |-> ((0 + L + F) + C + O) + 0 + G]
<1>1. /\ j.pools \in [D0 -> Int] /\ L \in Int /\ C \in Int
      /\ j.rates \in [{"fringe", "overhead", "g&a"} -> Int]
  BY CascadeAssumption
<1>2. /\ DOMAIN j.rates = {"fringe", "overhead", "g&a"}
      /\ j.rates["fringe"] \in Int /\ j.rates["overhead"] \in Int /\ j.rates["g&a"] \in Int
  BY <1>1
<1>3. F \in Int
  BY <1>1, <1>2, PercentType
<1>4. O \in Int
  <2>1. L + F \in Int
    BY <1>1, <1>3
  <2> QED BY <1>2, <2>1, PercentType, Zenon
<1>5. G \in Int
  <2>1. L + F + C + O \in Int
    BY <1>1, <1>3, <1>4
  <2> QED BY <1>2, <2>1, PercentType, Zenon
<1>6. /\ steps[1] = [pool_from |-> "DIRECT_LABOR", pool_to |-> "FRINGE", rate_type |-> "fringe", base |-> "pool_balance"]
      /\ steps[2] = [pool_from |-> "DIRECT_COST", pool_to |-> "OVERHEAD", rate_type |-> "overhead", base |-> "cumulative"]
      /\ steps[3] = [pool_from |-> "TOTAL_DIRECT", pool_to |-> "G&A", rate_type |-> "g&a", base |-> "cumulative"]
  BY DEF BI!build_dcaa_cascade
<1>7. /\ ind.fringe = F /\ ind.overhead = O
      /\ BI!total_direct(costs) = L + C
      /\ ind.ga = BI!PercentOf(BI!total_direct(costs) + F + O, j.rates["g&a"])
  BY <1>1 DEF BI!calculate_indirect_costs, BI!_apply_rate, BI!total_direct, BillingRates
<1> HIDE DEF F, O, G, L, C, steps, ind
<1>8. ind.ga = G
  <2>1. BI!total_direct(costs) + F + O = L + F + C + O
    BY <1>1, <1>3, <1>4, <1>7
  <2> QED BY <1>7, <2>1 DEF G
<1>9. BI!CascadeStep([balances |-> j.pools, cumulative |-> 0], steps[1], j.rates) = a1
  <2>1. BI!Balance(j.pools, steps[1].pool_from) = L
    BY <1>1, <1>6 DEF BI!Balance, L
  <2>2. F = BI!PercentOf(IF steps[1].base = "pool_balance" THEN L ELSE 0,
              IF steps[1].rate_type \in DOMAIN j.rates THEN j.rates[steps[1].rate_type] ELSE 0)
    BY <1>2, <1>6 DEF F
  <2>3. b1 = [p \in DOMAIN j.pools \cup {steps[1].pool_to} |->
                BI!Balance(j.pools, p) + IF p = steps[1].pool_to THEN F ELSE 0]
    BY <1>1, <1>3, <1>6 DEF BI!Balance
  <2> QED BY <2>1, <2>2, <2>3, StepOfCascade
<1>10. BI!CascadeStep(a1, steps[2], j.rates) = a2
  <2>1. BI!Balance(b1, steps[2].pool_from) = C
    BY <1>1, <1>6 DEF BI!Balance, C
  <2>2. O = BI!PercentOf(IF steps[2].base = "pool_balance" THEN C ELSE 0 + L + F,
              IF steps[2].rate_type \in DOMAIN j.rates THEN j.rates[steps[2].rate_type] ELSE 0)
    <3>1. 0 + L + F = L + F
      BY <1>1, <1>3
    <3> QED BY <1>2, <1>6, <3>1 DEF O
  <2>3. b2 = [p \in DOMAIN b1 \cup {steps[2].pool_to} |->
                BI!Balance(b1, p) + IF p = steps[2].pool_to THEN O ELSE 0]
    BY <1>1, <1>3, <1>4, <1>6 DEF BI!Balance
  <2> HIDE DEF b1, b2
  <2> QED BY <2>1, <2>2, <2>3, StepOfCascade
<1>11. BI!CascadeStep(a2, steps[3], j.rates) = a3
  <2>1. BI!Balance(b2, steps[3].pool_from) = 0
    BY <1>1, <1>6 DEF BI!Balance
  <2>2. G = BI!PercentOf(IF steps[3].base = "pool_balance" THEN 0 ELSE (0 + L + F) + C + O,
              IF steps[3].rate_type \in DOMAIN j.rates THEN j.rates[steps[3].rate_type] ELSE 0)
    <3>1. (0 + L + F) + C + O = L + F + C + O
      BY <1>1, <1>3, <1>4
    <3> QED BY <1>2, <1>6, <3>1 DEF G
  <2>3. b3 = [p \in DOMAIN b2 \cup {steps[3].pool_to} |->
                BI!Balance(b2, p) + IF p = steps[3].pool_to THEN G ELSE 0]
    BY <1>1, <1>3, <1>4, <1>5, <1>6 DEF BI!Balance
  <2> HIDE DEF b1, b2, b3
  <2> QED BY <2>1, <2>2, <2>3, StepOfCascade
<1>12. out = b3
  <2>1. out = a3.balances
    <3> HIDE DEF a1, a2, a3
    <3> QED BY <1>9, <1>10, <1>11, ThreeSteps DEF steps
  <2> QED BY <2>1
<1>13. /\ DOMAIN b3 = {"DIRECT_LABOR", "DIRECT_COST", "FRINGE", "OVERHEAD", "G&A"}
       /\ b3["DIRECT_LABOR"] = L /\ b3["DIRECT_COST"] = C
       /\ b3["FRINGE"] = F /\ b3["OVERHEAD"] = O /\ b3["G&A"] = G
  BY <1>1 DEF L, C
<1>14. b3["OVERHEAD"] = BI!PercentOf(L + b3["FRINGE"], j.rates["overhead"])
  BY <1>13 DEF O
<1> HIDE DEF b3
<1> QED BY <1>3, <1>4, <1>5, <1>7, <1>8, <1>12, <1>13, <1>14 DEF L, C, ind, steps

\* The cascade and billing agree, on the pools and on the total of the contract.
CascadeAnswer(j, out) ==
  LET costs == [direct_labor |-> j.pools["DIRECT_LABOR"], direct_material |-> 0,
                other |-> j.pools["DIRECT_COST"]]
      ind == BI!calculate_indirect_costs(costs, BillingRates(j.rates))
  IN /\ out["FRINGE"] = ind.fringe /\ out["OVERHEAD"] = ind.overhead /\ out["G&A"] = ind.ga
     /\ out["OVERHEAD"] = BI!PercentOf(j.pools["DIRECT_LABOR"] + out["FRINGE"], j.rates["overhead"])
     /\ BI!calculate_contract_total(out, <<"DIRECT_LABOR", "DIRECT_COST">>, <<"FRINGE", "OVERHEAD", "G&A">>)
          = BI!total_direct(costs) + ind.fringe + ind.overhead + ind.ga
LEMMA CascadeAgreement ==
  ASSUME NEW j \in CascadeJobs
  PROVE  CascadeAnswer(j, BI!execute_cascade(BI!build_dcaa_cascade, j.pools, j.rates))
<1> DEFINE out == BI!execute_cascade(BI!build_dcaa_cascade, j.pools, j.rates)
           costs == [direct_labor |-> j.pools["DIRECT_LABOR"], direct_material |-> 0,
                     other |-> j.pools["DIRECT_COST"]]
           ind == BI!calculate_indirect_costs(costs, BillingRates(j.rates))
           L == j.pools["DIRECT_LABOR"]
           C == j.pools["DIRECT_COST"]
           d == <<"DIRECT_LABOR", "DIRECT_COST">>
           i == <<"FRINGE", "OVERHEAD", "G&A">>
<1>1. /\ DOMAIN out = {"DIRECT_LABOR", "DIRECT_COST", "FRINGE", "OVERHEAD", "G&A"}
      /\ out["DIRECT_LABOR"] = L /\ out["DIRECT_COST"] = C
      /\ out["FRINGE"] = ind.fringe /\ out["OVERHEAD"] = ind.overhead /\ out["G&A"] = ind.ga
      /\ out["OVERHEAD"] = BI!PercentOf(L + out["FRINGE"], j.rates["overhead"])
      /\ ind.fringe \in Int /\ ind.overhead \in Int /\ ind.ga \in Int
      /\ BI!total_direct(costs) = L + C
  BY CascadePools
<1>2. L \in Int /\ C \in Int
  BY CascadeAssumption
<1> HIDE DEF out, ind, L, C
<1>3. BI!SumOfSeq([k \in 1 .. Len(d) |-> BI!Balance(out, d[k])]) = L + C
  <2>1. [k \in 1 .. Len(d) |-> BI!Balance(out, d[k])] = <<L, C>>
    BY <1>1 DEF BI!Balance
  <2>2. <<L, C>> \in Seq(Int)
    BY <1>2
  <2> QED BY <1>2, <2>1, <2>2, SumOfTwo, BillingSums
<1>4. BI!SumOfSeq([k \in 1 .. Len(i) |-> BI!Balance(out, i[k])]) = ind.fringe + ind.overhead + ind.ga
  <2>1. [k \in 1 .. Len(i) |-> BI!Balance(out, i[k])] = <<ind.fringe, ind.overhead, ind.ga>>
    BY <1>1 DEF BI!Balance
  <2>2. <<ind.fringe, ind.overhead, ind.ga>> \in Seq(Int)
    BY <1>1
  <2> QED BY <1>1, <2>1, <2>2, SumOfThree, BillingSums
<1>5. BI!calculate_contract_total(out, d, i) = L + C + (ind.fringe + ind.overhead + ind.ga)
  BY <1>3, <1>4 DEF BI!calculate_contract_total
<1>6. BI!calculate_contract_total(out, d, i) = BI!total_direct(costs) + ind.fringe + ind.overhead + ind.ga
  BY <1>1, <1>2, <1>5
<1> QED BY <1>1, <1>6 DEF CascadeAnswer, out, ind, L, C

-----------------------------------------------------------------------------
(* The engines: matching.                                                  *)

\* A set of natural numbers has a least one, and a set of indices a last one.
LEMMA Least ==
  ASSUME NEW M \in SUBSET Nat, M # {}
  PROVE  \E m \in M : \A n \in M : m <= n
<1> DEFINE R == OpToRel(<, Nat)
<1>1. IsWellFoundedOn(R, Nat)
  BY NatLessThanWellFounded
<1>2. \A x, y \in Nat : <<y, x>> \in R <=> y < x
  BY DEF OpToRel
<1> HIDE DEF R
<1>3. \E x \in M : \A y \in M : ~ (<<y, x>> \in R)
  BY <1>1, WFMin, Zenon
<1>4. \E x \in M : \A y \in M : ~ (y < x)
  BY <1>2, <1>3, Zenon
<1> QED BY <1>4

LEMMA Last ==
  ASSUME NEW n \in Nat, NEW M \in SUBSET (1 .. n), M # {}
  PROVE  \E m \in M : \A k \in M : k <= m
<1> DEFINE N == {n - k : k \in M}
<1>0. PICK k \in M : TRUE
  OBVIOUS
<1>1. N \in SUBSET Nat /\ n - k \in N
  OBVIOUS
<1> HIDE DEF N
<1>2. PICK x \in N : \A y \in N : x <= y
  BY <1>1, Least
<1>3. PICK m \in M : x = n - m
  BY DEF N
<1>4. \A l \in M : n - m <= n - l
  BY <1>2, <1>3 DEF N
<1> QED BY <1>4

\* An order of m of the indices up to n that takes each one once.
Arranges(order, m, n) ==
  /\ order \in [1 .. m -> 1 .. n]
  /\ \A i \in 1 .. n : \E k \in 1 .. m : order[k] = i
  /\ \A k, l \in 1 .. m : order[k] = order[l] => k = l

\* Sorting puts any set of indices in order: keys decide, then position.
LEMMA KeyOrder ==
  ASSUME NEW n \in Nat, NEW key \in [1 .. n -> Int \X Int]
  PROVE  \A i, j, k \in 1 .. n :
           /\ ~Precedes(key, i, i)
           /\ i # j => Precedes(key, i, j) \/ Precedes(key, j, i)
           /\ Precedes(key, i, j) /\ Precedes(key, j, k) => Precedes(key, i, k)
<1>1. \A i \in 1 .. n : key[i][1] \in Int /\ key[i][2] \in Int /\ key[i] = <<key[i][1], key[i][2]>>
  OBVIOUS
<1>2. \A i, j \in 1 .. n : key[i] = key[j] <=> key[i][1] = key[j][1] /\ key[i][2] = key[j][2]
  BY <1>1
<1> QED BY <1>1, <1>2 DEF Precedes

LEMMA LastInOrder ==
  ASSUME NEW n \in Nat, NEW key \in [1 .. n -> Int \X Int], NEW S \in SUBSET (1 .. n), S # {}
  PROVE  \E x \in S : \A y \in S : y # x => Precedes(key, y, x)
<1> DEFINE T(m) == S \cap (1 .. m)
           P(m) == m <= n => T(m) = {} \/ \E x \in T(m) : \A y \in T(m) : y # x => Precedes(key, y, x)
           Q == {m \in Nat : P(m)}
<1>1. P(0)
  OBVIOUS
<1>2. ASSUME NEW m \in Nat, P(m) PROVE P(m + 1)
  <2> SUFFICES ASSUME m + 1 <= n
               PROVE  T(m + 1) = {} \/ \E x \in T(m + 1) : \A y \in T(m + 1) : y # x => Precedes(key, y, x)
    OBVIOUS
  <2>1. T(m + 1) = IF m + 1 \in S THEN T(m) \cup {m + 1} ELSE T(m)
    OBVIOUS
  <2>2. CASE m + 1 \notin S
    <3>1. T(m + 1) = T(m) /\ m <= n
      BY <2>1, <2>2
    <3> HIDE DEF T
    <3> QED BY <1>2, <3>1
  <2>3. CASE m + 1 \in S /\ T(m) = {}
    BY <2>1, <2>3
  <2>4. CASE m + 1 \in S /\ T(m) # {}
    <3>1. PICK x \in T(m) : \A y \in T(m) : y # x => Precedes(key, y, x)
      BY <1>2, <2>4
    <3>2. x \in 1 .. n /\ m + 1 \in 1 .. n /\ x # m + 1
      BY <2>4
    <3>3. T(m + 1) = T(m) \cup {m + 1} /\ T(m) \subseteq 1 .. n
      BY <2>1, <2>4
    <3> HIDE DEF T
    <3>4. CASE Precedes(key, m + 1, x)
      <4>1. \A y \in T(m + 1) : y # x => Precedes(key, y, x)
        BY <3>1, <3>3, <3>4
      <4> QED BY <3>3, <4>1
    <3>5. CASE Precedes(key, x, m + 1)
      <4>1. \A y \in T(m) : Precedes(key, y, m + 1)
        BY <3>1, <3>2, <3>3, <3>5, KeyOrder
      <4>2. \A y \in T(m + 1) : y # m + 1 => Precedes(key, y, m + 1)
        BY <3>3, <4>1
      <4> QED BY <3>3, <4>2
    <3> QED BY <3>2, <3>4, <3>5, KeyOrder
  <2> QED BY <2>2, <2>3, <2>4
<1>3. n \in Q
  <2>1. 0 \in Q /\ \A m \in Nat : m \in Q => m + 1 \in Q
    <3> HIDE DEF P
    <3> QED BY <1>1, <1>2
  <2> HIDE DEF Q
  <2> QED BY <2>1, Induction
<1>4. T(n) = S
  OBVIOUS
<1>5. T(n) = {} \/ \E x \in T(n) : \A y \in T(n) : y # x => Precedes(key, y, x)
  <2> HIDE DEF T
  <2> QED BY <1>3
<1> HIDE DEF T
<1> QED BY <1>4, <1>5

\* Any set of indices can be put in order.
Arranged(S, key, order) ==
  /\ \A x \in S : \E k \in DOMAIN order : order[k] = x
  /\ \A k, l \in DOMAIN order : k < l => Precedes(key, order[k], order[l])
LEMMA CanArrange ==
  ASSUME NEW n \in Nat, NEW key \in [1 .. n -> Int \X Int]
  PROVE  \A S \in SUBSET (1 .. n) : \E order \in [1 .. Cardinality(S) -> S] : Arranged(S, key, order)
<1> DEFINE P(c) == \A S \in SUBSET (1 .. n) : Cardinality(S) = c =>
                     \E order \in [1 .. c -> S] : Arranged(S, key, order)
           Q == {c \in Nat : P(c)}
<1>0. \A S \in SUBSET (1 .. n) : IsFiniteSet(S) /\ Cardinality(S) \in Nat
  <2>1. IsFiniteSet(1 .. n)
    BY FS_Interval
  <2> QED BY <2>1, FS_Subset, FS_CardinalityType
<1>1. P(0)
  <2> SUFFICES ASSUME NEW S \in SUBSET (1 .. n), Cardinality(S) = 0
               PROVE  \E order \in [1 .. 0 -> S] : Arranged(S, key, order)
    OBVIOUS
  <2>1. S = {}
    BY <1>0, FS_EmptySet
  <2>2. Arranged(S, key, [k \in 1 .. 0 |-> 1])
    BY <2>1 DEF Arranged
  <2>3. [k \in 1 .. 0 |-> 1] \in [1 .. 0 -> S]
    OBVIOUS
  <2> QED BY <2>2, <2>3
<1>2. ASSUME NEW c \in Nat, P(c) PROVE P(c + 1)
  <2> SUFFICES ASSUME NEW S \in SUBSET (1 .. n), Cardinality(S) = c + 1
               PROVE  \E order \in [1 .. c + 1 -> S] : Arranged(S, key, order)
    OBVIOUS
  <2>1. S # {}
    <3>1. Cardinality(S) # 0
      OBVIOUS
    <3> QED BY <3>1, FS_EmptySet
  <2>2. PICK x \in S : \A y \in S : y # x => Precedes(key, y, x)
    BY <2>1, LastInOrder
  <2> DEFINE R == S \ {x}
  <2>3. R \in SUBSET (1 .. n) /\ Cardinality(R) = c
    <3>1. Cardinality(R) = Cardinality(S) - 1
      BY <1>0, FS_RemoveElement, Zenon
    <3> QED BY <3>1
  <2>4. PICK before \in [1 .. c -> R] : Arranged(R, key, before)
    <3> HIDE DEF R
    <3> QED BY <1>2, <2>3
  <2> DEFINE order == [k \in 1 .. c + 1 |-> IF k = c + 1 THEN x ELSE before[k]]
  <2>5. before \in [1 .. c -> R] /\ (\A y \in R : \E k \in 1 .. c : before[k] = y)
        /\ \A k, l \in 1 .. c : k < l => Precedes(key, before[k], before[l])
    BY <2>4 DEF Arranged
  <2>6. order \in [1 .. c + 1 -> S] /\ order[c + 1] = x /\ \A k \in 1 .. c : order[k] = before[k]
    BY <2>5
  <2> HIDE DEF order
  <2>7. \A y \in S : \E k \in 1 .. c + 1 : order[k] = y
    <3> SUFFICES ASSUME NEW y \in S PROVE \E k \in 1 .. c + 1 : order[k] = y
      OBVIOUS
    <3>1. CASE y = x
      BY <2>6, <3>1
    <3>2. CASE y # x
      BY <2>5, <2>6, <3>2
    <3> QED BY <3>1, <3>2
  <2>8. ASSUME NEW k \in 1 .. c + 1, NEW l \in 1 .. c + 1, k < l PROVE Precedes(key, order[k], order[l])
    <3>1. k \in 1 .. c
      BY <2>8
    <3>2. CASE l = c + 1
      BY <2>2, <2>5, <2>6, <3>1, <3>2
    <3>3. CASE l \in 1 .. c
      BY <2>5, <2>6, <2>8, <3>1, <3>3
    <3> QED BY <3>2, <3>3
  <2>9. DOMAIN order = 1 .. c + 1
    BY <2>6
  <2>10. Arranged(S, key, order)
    BY <2>7, <2>8, <2>9 DEF Arranged
  <2> QED BY <2>6, <2>10
<1> HIDE DEF P
<1>3. Nat \subseteq Q
  <2>1. 0 \in Q /\ \A c \in Nat : c \in Q => c + 1 \in Q
    BY <1>1, <1>2
  <2> HIDE DEF Q
  <2> QED BY <2>1, Induction
<1>4. \A c \in Nat : P(c)
  BY <1>3
<1> QED BY <1>0, <1>4 DEF P

\* The order that Sorted chooses is one.
LEMMA SortedOrder ==
  ASSUME NEW n \in Nat, NEW key \in [1 .. n -> Int \X Int], NEW S \in SUBSET (1 .. n)
  PROVE  \E m \in 0 .. n :
           /\ Sorted(S, n, key) \in [1 .. m -> S] /\ Arranged(S, key, Sorted(S, n, key))
           /\ Len(Sorted(S, n, key)) = m
           /\ S = 1 .. n => Arranges(Sorted(S, n, key), m, n)
<1> DEFINE order == Sorted(S, n, key)
           U == UNION {[1 .. m -> S] : m \in 0 .. n}
<1>1. Cardinality(S) \in 0 .. n
  <2>1. IsFiniteSet(1 .. n) /\ Cardinality(1 .. n) = n
    BY FS_Interval
  <2>2. IsFiniteSet(S) /\ Cardinality(S) <= Cardinality(1 .. n)
    BY <2>1, FS_Subset, Zenon
  <2>3. Cardinality(S) \in Nat
    BY <2>2, FS_CardinalityType, Zenon
  <2> QED BY <2>1, <2>2, <2>3
<1>2. PICK o \in [1 .. Cardinality(S) -> S] : Arranged(S, key, o)
  BY CanArrange
<1>3. o \in U
  BY <1>1
<1>4. order \in U /\ Arranged(S, key, order)
  <2>1. order = CHOOSE p \in U : Arranged(S, key, p)
    BY DEF Sorted, Arranged
  <2> HIDE DEF U, order
  <2> QED BY <1>2, <1>3, <2>1
<1> HIDE DEF order
<1>5. PICK m \in 0 .. n : order \in [1 .. m -> S]
  BY <1>4
<1>6. Len(order) = m
  BY <1>5
<1>7. ASSUME S = 1 .. n PROVE Arranges(order, m, n)
  <2>1. \A k, l \in 1 .. m : order[k] = order[l] => k = l
    <3> SUFFICES ASSUME NEW k \in 1 .. m, NEW l \in 1 .. m, k < l, order[k] = order[l] PROVE FALSE
      OBVIOUS
    <3>1. Precedes(key, order[k], order[l]) /\ order[k] \in 1 .. n
      BY <1>4, <1>5 DEF Arranged
    <3> QED BY <3>1, KeyOrder
  <2> QED BY <1>4, <1>5, <1>7, <2>1 DEF Arranged, Arranges
<1> QED BY <1>4, <1>5, <1>6, <1>7 DEF order

\* What one evaluation says: full marks are for candidates within tolerance, who get
\* them when the dates agree and never less than 90 points.
Judged(j, e) ==
  /\ e.score \in Nat /\ e.score <= 100
  /\ e.is_within_tolerance => e.score >= 90
  /\ e.is_within_tolerance /\ j.tolerance.require_same_vendor => e.candidate.vendor = j.target.vendor
  /\ e.is_within_tolerance /\ AbsOf(j.target.date - e.candidate.date) <= j.tolerance.date_tolerance_days =>
       e.score = 100
  /\ e.score = 100 => e.is_within_tolerance
LEMMA Evaluation ==
  ASSUME NEW j \in MatchJobs, j.engine = "find", NEW i \in 1 .. Len(j.candidates)
  PROVE  /\ Judged(j, MT!_evaluate_match(j.target, j.candidates[i], j.tolerance))
         /\ MT!_evaluate_match(j.target, j.candidates[i], j.tolerance).candidate = j.candidates[i]
<1> DEFINE target == j.target
           c == j.candidates[i]
           tol == j.tolerance
           vendor == tol.require_same_vendor /\ target.vendor # c.vendor
           item == tol.require_same_item /\ target.item # c.item
           amounts == target.amount # MT!NoAmount /\ c.amount # MT!NoAmount /\ tol.require_same_currency
           currency == amounts /\ target.currency # c.currency
           amount == /\ amounts /\ ~currency
                     /\ MT!Exceeds(target.amount, c.amount, tol.amount_tolerance, tol.amount_tolerance_type)
           quantity == /\ target.quantity # MT!NoAmount /\ c.quantity # MT!NoAmount
                       /\ MT!Exceeds(target.quantity, c.quantity, tol.quantity_tolerance,
                                     tol.quantity_tolerance_type)
           dates == /\ target.date # MT!NoDay /\ c.date # MT!NoDay
                    /\ MT!AbsOf(target.date - c.date) > tol.date_tolerance_days
           reference == target.reference # MT!NoReference /\ target.reference = c.reference
           score == (IF ~(vendor \/ item \/ currency) THEN 100 ELSE 0) - (IF amount THEN 30 ELSE 0)
                      - (IF quantity THEN 20 ELSE 0) - (IF dates THEN 10 ELSE 0) + (IF reference THEN 10 ELSE 0)
           within == ~(vendor \/ item \/ currency \/ amount \/ quantity)
           e == MT!_evaluate_match(target, c, tol)
<1>1. e = [candidate |-> c, score |-> MT!AtLeast0(MT!Lesser(100, score)), is_within_tolerance |-> within]
  BY DEF MT!_evaluate_match, MT!OtherVendor
<1>2. AbsOf(target.date - c.date) <= tol.date_tolerance_days => ~dates
  <2>1. target.date \in Int /\ c.date \in Int /\ tol.date_tolerance_days \in Int
    BY FindAssumption DEF MatchDocument
  <2> QED BY <2>1 DEF AbsOf, MT!AbsOf
<1>3. within /\ tol.require_same_vendor => c.vendor = target.vendor
  OBVIOUS
<1>4. within => ~vendor /\ ~item /\ ~currency /\ ~amount /\ ~quantity
  OBVIOUS
<1>5. ~within => vendor \/ item \/ currency \/ amount \/ quantity
  OBVIOUS
<1> HIDE DEF vendor, item, currency, amount, quantity, dates, reference, within, e, c, target, tol
<1>6. score \in Int /\ (within => score >= 90) /\ (within /\ ~dates => score >= 100)
      /\ (~within => score < 100)
  BY <1>4, <1>5
<1> HIDE DEF score
<1>7. /\ MT!AtLeast0(MT!Lesser(100, score)) \in Nat
      /\ MT!AtLeast0(MT!Lesser(100, score)) <= 100
      /\ (within => MT!AtLeast0(MT!Lesser(100, score)) >= 90)
      /\ (within /\ ~dates => MT!AtLeast0(MT!Lesser(100, score)) = 100)
      /\ (MT!AtLeast0(MT!Lesser(100, score)) = 100 => within)
  BY <1>6 DEF MT!AtLeast0, MT!Lesser
<1>8. e.candidate = c /\ e.score = MT!AtLeast0(MT!Lesser(100, score)) /\ e.is_within_tolerance = within
  BY <1>1
<1>9. Judged(j, e)
  BY <1>2, <1>3, <1>7, <1>8 DEF Judged, target, tol
<1> QED BY <1>8, <1>9 DEF e, c, target, tol

Suggested(j, s) ==
  LET ranked(c) == \E k \in 1 .. Len(s) : s[k].candidate = c
      within(c) == MT!_evaluate_match(j.target, c, j.tolerance).is_within_tolerance
      dated(c) == AbsOf(j.target.date - c.date) <= j.tolerance.date_tolerance_days
  IN /\ \A i, k \in 1 .. Len(s) : i < k => s[i].score >= s[k].score
     /\ \A i \in 1 .. Len(j.candidates) : within(j.candidates[i]) => ranked(j.candidates[i])
     /\ \A i \in 1 .. Len(s) : s[i].is_within_tolerance /\ j.tolerance.require_same_vendor =>
          s[i].candidate.vendor = j.target.vendor
     /\ \A i, k \in 1 .. Len(s) :
          i < k /\ s[k].is_within_tolerance /\ dated(s[k].candidate) => s[i].is_within_tolerance

\* The suggestions of a search are as SuggestionsSound says.
LEMMA Suggestions ==
  ASSUME NEW j \in MatchJobs, j.engine = "find"
  PROVE  Suggested(j, MT!find_matches(j.target, j.candidates, j.tolerance))
<1> DEFINE n == Len(j.candidates)
           evaluated == [i \in 1 .. n |-> MT!_evaluate_match(j.target, j.candidates[i], j.tolerance)]
           scored == {i \in 1 .. n : evaluated[i].score > 0}
           key == [i \in 1 .. n |-> <<-evaluated[i].score, 0>>]
           order == Sorted(scored, n, key)
           s == MT!find_matches(j.target, j.candidates, j.tolerance)
<1>1. n \in Nat
  BY FindAssumption
<1>2. s = [k \in 1 .. Len(order) |-> evaluated[order[k]]]
  <2> DEFINE chosen == MT!Sorted(scored, n, key)
  <2>1. s = [k \in 1 .. Len(chosen) |-> evaluated[chosen[k]]]
    BY DEF MT!find_matches
  <2> HIDE DEF scored, key, evaluated, s, n
  <2>2. chosen = order
    BY DEF MT!Sorted, MT!Precedes, Sorted, Precedes
  <2> QED BY <2>1, <2>2
<1>3. \A i \in 1 .. n : Judged(j, evaluated[i]) /\ evaluated[i].candidate = j.candidates[i]
  <2> SUFFICES ASSUME NEW i \in 1 .. n
               PROVE  Judged(j, evaluated[i]) /\ evaluated[i].candidate = j.candidates[i]
    OBVIOUS
  <2>1. evaluated[i] = MT!_evaluate_match(j.target, j.candidates[i], j.tolerance)
    OBVIOUS
  <2> HIDE DEF evaluated
  <2> QED BY <2>1, Evaluation, Zenon
<1>4. \A i \in 1 .. n :
        MT!_evaluate_match(j.target, j.candidates[i], j.tolerance) = evaluated[i]
  OBVIOUS
<1> HIDE DEF evaluated, s, n
<1>5. key \in [1 .. n -> Int \X Int] /\ scored \in SUBSET (1 .. n)
  <2>1. \A i \in 1 .. n : -evaluated[i].score \in Int
    BY <1>3 DEF Judged
  <2> QED BY <2>1
<1>6. \A i \in 1 .. n : key[i][1] = -evaluated[i].score /\ key[i][2] = 0
  OBVIOUS
<1> HIDE DEF key
<1>7. PICK m \in 0 .. n : order \in [1 .. m -> scored] /\ Arranged(scored, key, order) /\ Len(order) = m
  <2> HIDE DEF scored
  <2> QED BY <1>1, <1>5, SortedOrder
<1> HIDE DEF order
<1>8. /\ order \in [1 .. m -> scored] /\ DOMAIN order = 1 .. m /\ m \in Nat /\ Len(order) = m
      /\ \A x \in scored : \E k \in 1 .. m : order[k] = x
      /\ \A k, l \in 1 .. m : k < l => evaluated[order[k]].score >= evaluated[order[l]].score
  <2>1. order \in [1 .. m -> scored] /\ DOMAIN order = 1 .. m /\ m \in Nat /\ Len(order) = m
    BY <1>1, <1>7
  <2>2. \A x \in scored : \E k \in 1 .. m : order[k] = x
    BY <1>7, <2>1 DEF Arranged
  <2>3. \A k \in 1 .. m : order[k] \in 1 .. n /\ evaluated[order[k]].score \in Nat
    BY <1>3, <1>5, <2>1 DEF Judged
  <2>4. \A k, l \in 1 .. m : k < l => Precedes(key, order[k], order[l])
    BY <1>7, <2>1 DEF Arranged
  <2>5. ASSUME NEW k \in 1 .. m, NEW l \in 1 .. m, k < l
        PROVE  evaluated[order[k]].score >= evaluated[order[l]].score
    <3>1. key[order[k]][1] <= key[order[l]][1]
      <4>1. Precedes(key, order[k], order[l]) /\ key[order[k]][1] \in Int /\ key[order[l]][1] \in Int
        BY <1>6, <2>3, <2>4, <2>5
      <4> QED BY <4>1 DEF Precedes
    <3> QED BY <1>6, <2>3, <3>1
  <2> QED BY <2>1, <2>2, <2>5
<1>9. \A k \in 1 .. m : order[k] \in 1 .. n
  BY <1>5, <1>8
<1>10. s \in [1 .. m -> {evaluated[i] : i \in 1 .. n}] /\ \A k \in 1 .. m : s[k] = evaluated[order[k]]
  BY <1>2, <1>8, <1>9
<1>11. Len(s) = m
  BY <1>2, <1>8
<1>12. \A i, k \in 1 .. Len(s) : i < k => s[i].score >= s[k].score
  <2>1. \A k \in 1 .. m : s[k] = evaluated[order[k]]
    BY <1>10
  <2>2. \A i, k \in 1 .. m : i < k => evaluated[order[i]].score >= evaluated[order[k]].score
    BY <1>8
  <2>3. \A i, k \in 1 .. m : i < k => s[i].score >= s[k].score
    BY <2>1, <2>2, Zenon
  <2> QED BY <1>11, <2>3
<1>13. ASSUME NEW i \in 1 .. n, evaluated[i].is_within_tolerance
       PROVE  \E k \in 1 .. Len(s) : s[k].candidate = j.candidates[i]
  <2>1. i \in scored
    BY <1>3, <1>13 DEF Judged
  <2>2. PICK k \in 1 .. m : order[k] = i
    BY <1>8, <2>1
  <2> QED BY <1>3, <1>10, <1>11, <2>2
<1>14. \A k \in 1 .. Len(s) : Judged(j, s[k])
  BY <1>3, <1>9, <1>10, <1>11
<1>15. \A k \in 1 .. Len(s) : s[k].is_within_tolerance /\ j.tolerance.require_same_vendor =>
          s[k].candidate.vendor = j.target.vendor
  BY <1>14 DEF Judged
<1>16. ASSUME NEW i \in 1 .. Len(s), NEW k \in 1 .. Len(s), i < k, s[k].is_within_tolerance,
              AbsOf(j.target.date - s[k].candidate.date) <= j.tolerance.date_tolerance_days
       PROVE  s[i].is_within_tolerance
  <2>1. s[k].score = 100
    BY <1>14, <1>16 DEF Judged
  <2>2. s[i].score \in Nat /\ s[i].score <= 100 /\ s[i].score >= 100
    BY <1>12, <1>14, <1>16, <2>1 DEF Judged
  <2>3. s[i].score = 100
    BY <2>2
  <2> QED BY <1>14, <2>3 DEF Judged
<1> QED BY <1>4, <1>12, <1>13, <1>15, <1>16 DEF Suggested, s, n

-----------------------------------------------------------------------------
(* The engines: aging.                                                     *)

\* Amounts entered in one column each add up to the same over columns and rows.
Entered(v, w, at, n, m) ==
  /\ v \in [1 .. n -> Int] /\ w \in [1 .. m -> [1 .. n -> Int]] /\ at \in [1 .. n -> 1 .. m]
  /\ \A b \in 1 .. m : \A i \in 1 .. n : w[b][i] = IF b = at[i] THEN v[i] ELSE 0
ColumnTotals(w, m) == [b \in 1 .. m |-> SumOfSeq(w[b])]
LEMMA SumByColumn ==
  ASSUME NEW n \in Nat, NEW m \in Nat, NEW v, NEW w, NEW at, Entered(v, w, at, n, m)
  PROVE  SumOfSeq(ColumnTotals(w, m)) = SumOfSeq(v)
<1> DEFINE Upto(k) == [b \in 1 .. m |-> Sums(w[b])[k]]
           f == [k \in 0 .. n |-> SumOfSeq(Upto(k))]
<1>0. /\ v \in [1 .. n -> Int] /\ w \in [1 .. m -> [1 .. n -> Int]] /\ at \in [1 .. n -> 1 .. m]
      /\ \A b \in 1 .. m : \A i \in 1 .. n : w[b][i] = IF b = at[i] THEN v[i] ELSE 0
  BY DEF Entered
<1>1. v \in Seq(Int) /\ Len(v) = n
  BY <1>0
<1>2. \A b \in 1 .. m : w[b] \in Seq(Int) /\ Len(w[b]) = n
  <2> SUFFICES ASSUME NEW b \in 1 .. m PROVE w[b] \in Seq(Int) /\ Len(w[b]) = n
    OBVIOUS
  <2>1. w[b] \in [1 .. n -> Int]
    BY <1>0
  <2> QED BY <2>1
<1>3. \A b \in 1 .. m :
        /\ \A k \in 0 .. n : Sums(w[b])[k] \in Int
        /\ Sums(w[b])[0] = 0
        /\ \A k \in 1 .. n : Sums(w[b])[k] = Sums(w[b])[k - 1] + w[b][k]
        /\ SumOfSeq(w[b]) = Sums(w[b])[n]
  <2> SUFFICES ASSUME NEW b \in 1 .. m
               PROVE  /\ \A k \in 0 .. n : Sums(w[b])[k] \in Int
                      /\ Sums(w[b])[0] = 0
                      /\ \A k \in 1 .. n : Sums(w[b])[k] = Sums(w[b])[k - 1] + w[b][k]
                      /\ SumOfSeq(w[b]) = Sums(w[b])[n]
    OBVIOUS
  <2> DEFINE row == w[b]
  <2>1. row \in Seq(Int) /\ Len(row) = n
    BY <1>2
  <2> HIDE DEF row
  <2>2. /\ Sums(row) \in [0 .. n -> Int] /\ Sums(row)[0] = 0
        /\ \A k \in 1 .. n : Sums(row)[k] = Sums(row)[k - 1] + row[k]
        /\ SumOfSeq(row) = Sums(row)[n]
    BY <2>1, RunningTotals
  <2> QED BY <2>2 DEF row
<1>4. \A k \in 0 .. n : Upto(k) \in [1 .. m -> Int]
  BY <1>3
<1>5. \A k \in 0 .. n : Upto(k) \in Seq(Int) /\ Len(Upto(k)) = m
  <2> SUFFICES ASSUME NEW k \in 0 .. n PROVE Upto(k) \in Seq(Int) /\ Len(Upto(k)) = m
    OBVIOUS
  <2>1. Upto(k) \in [1 .. m -> Int]
    BY <1>4
  <2> HIDE DEF Upto
  <2> QED BY <2>1
<1>6. f[0] = 0
  <2> DEFINE none == Upto(0)
  <2>1. none \in Seq(Int) /\ Len(none) = m
    BY <1>5
  <2>2. \A b \in 1 .. m : none[b] = 0
    BY <1>3
  <2>3. SumOfSeq(none) = 0
    <3> HIDE DEF none
    <3> QED BY <2>1, <2>2, SumOfNone
  <2> QED BY <2>3
<1>7. \A k \in 1 .. n : f[k] = f[k - 1] + v[k]
  <2> SUFFICES ASSUME NEW k \in 1 .. n PROVE f[k] = f[k - 1] + v[k]
    OBVIOUS
  <2> DEFINE before == Upto(k - 1)
             after == Upto(k)
             entered == [b \in 1 .. m |-> w[b][k]]
  <2>1. k \in 0 .. n /\ k - 1 \in 0 .. n
    OBVIOUS
  <2>2. \A b \in 1 .. m : before[b] = Sums(w[b])[k - 1] /\ after[b] = Sums(w[b])[k] /\ entered[b] = w[b][k]
    OBVIOUS
  <2>3. before \in Seq(Int) /\ Len(before) = m /\ after \in Seq(Int) /\ Len(after) = m
    BY <1>5, <2>1
  <2>4. entered \in [1 .. m -> Int]
    BY <1>0
  <2>5. f[k] = SumOfSeq(after) /\ f[k - 1] = SumOfSeq(before)
    BY <2>1
  <2> HIDE DEF before, after, entered, Upto, f
  <2>6. entered \in Seq(Int) /\ Len(entered) = m
    BY <2>4
  <2>7. \A b \in 1 .. m : after[b] = before[b] + entered[b]
    BY <1>3, <2>2
  <2>8. SumOfSeq(after) = SumOfSeq(before) + SumOfSeq(entered)
    <3>1. /\ Len(entered) = Len(before) /\ Len(after) = Len(before)
          /\ \A b \in 1 .. Len(before) : after[b] = before[b] + entered[b]
      BY <2>3, <2>6, <2>7
    <3> QED BY <2>3, <2>6, <3>1, SumAdds, Zenon
  <2>9. at[k] \in 1 .. m /\ entered[at[k]] = v[k] /\ \A b \in 1 .. m : b # at[k] => entered[b] = 0
    BY <1>0, <2>2
  <2>10. SumOfSeq(entered) = v[k]
    <3> DEFINE a == at[k]
    <3>1. a \in 1 .. Len(entered) /\ entered[a] = v[k]
          /\ \A b \in 1 .. Len(entered) : b # a => entered[b] = 0
      BY <2>6, <2>9
    <3> HIDE DEF a
    <3>2. SumOfSeq(entered) = entered[a]
      BY <2>6, <3>1, SumOfOne
    <3> QED BY <3>1, <3>2
  <2> QED BY <2>5, <2>8, <2>10
<1>8. f[n] = SumOfSeq(ColumnTotals(w, m))
  <2>1. ColumnTotals(w, m) = Upto(n)
    BY <1>3 DEF ColumnTotals
  <2>2. f[n] = SumOfSeq(Upto(n))
    OBVIOUS
  <2> QED BY <2>1, <2>2
<1> HIDE DEF f
<1>9. SumOfSeq(v) = f[n]
  BY <1>1, <1>6, <1>7, SumIs
<1> QED BY <1>8, <1>9

\* The sum that aging takes is the one above.
LEMMA AgingSums ==
  ASSUME NEW s
  PROVE  AG!SumOfSeq(s) = SumOfSeq(s)
BY DEF AG!SumOfSeq, SumOfSeq

\* Buckets that follow on each other begin after every one before them has ended.
LEMMA BucketsFollow ==
  ASSUME NEW B, Contiguous(B)
  PROVE  /\ Len(B) \in Nat \ {0}
         /\ \A k \in 1 .. Len(B) : B[k].min_days \in Nat /\ B[k].max_days \in Int
         /\ \A k \in 1 .. Len(B) - 1 : B[k].max_days >= B[k].min_days
         /\ \A k \in 1 .. Len(B) - 1 : B[k + 1].min_days = B[k].max_days + 1
         /\ \A k, l \in 1 .. Len(B) : k < l => B[k].max_days < B[l].min_days
<1> DEFINE n == Len(B)
           Later(l) == l \in 1 .. n => /\ B[l].min_days \in Nat
                                       /\ \A k \in 1 .. n : k < l => B[k].max_days < B[l].min_days
           S == {l \in Nat : Later(l)}
<1>1. B \in Seq([name : STRING, min_days : Int, max_days : Int]) /\ B # <<>>
  BY DEF Contiguous
<1>2. n \in Nat \ {0}
  BY <1>1
<1>3. \A k \in 1 .. n : B[k].min_days \in Int /\ B[k].max_days \in Int
  <2>1. \A k \in 1 .. n : B[k] \in [name : STRING, min_days : Int, max_days : Int]
    BY <1>1, Element
  <2> QED BY <2>1
<1>4. \A k \in 1 .. n - 1 : B[k].max_days >= B[k].min_days /\ B[k + 1].min_days = B[k].max_days + 1
  BY <1>3 DEF Contiguous
<1>5. B[1].min_days = 0
  BY DEF Contiguous
<1> HIDE DEF n
<1>6. Later(1)
  BY <1>5
<1>7. ASSUME NEW l \in Nat, Later(l), l # 0 PROVE Later(l + 1)
  <2> SUFFICES ASSUME l + 1 \in 1 .. n
               PROVE  /\ B[l + 1].min_days \in Nat
                      /\ \A k \in 1 .. n : k < l + 1 => B[k].max_days < B[l + 1].min_days
    OBVIOUS
  <2>1. l \in 1 .. n - 1 /\ l \in 1 .. n
    BY <1>2, <1>7
  <2>2. B[l].min_days \in Nat /\ B[l].max_days >= B[l].min_days /\ B[l + 1].min_days = B[l].max_days + 1
        /\ B[l].max_days \in Int
    BY <1>3, <1>4, <1>7, <2>1
  <2>3. ASSUME NEW k \in 1 .. n, k < l + 1 PROVE B[k].max_days < B[l + 1].min_days
    <3>1. CASE k = l
      BY <2>2, <3>1
    <3>2. CASE k < l
      <4>1. B[k].max_days < B[l].min_days /\ B[k].max_days \in Int
        BY <1>3, <1>7, <2>1, <3>2
      <4> QED BY <2>2, <4>1
    <3> QED BY <2>3, <3>1, <3>2
  <2> QED BY <2>2, <2>3
<1>8. Later(0)
  OBVIOUS
<1> HIDE DEF Later
<1>9. 0 \in S /\ \A l \in Nat : l \in S => l + 1 \in S
  BY <1>6, <1>7, <1>8
<1>10. Nat \subseteq S
  <2> HIDE DEF S
  <2> QED BY <1>9, Induction
<1>11. \A l \in 1 .. n : Later(l)
  BY <1>2, <1>10
<1>12. \A l \in 1 .. n : B[l].min_days \in Nat /\ \A k \in 1 .. n : k < l => B[k].max_days < B[l].min_days
  BY <1>11 DEF Later
<1> QED BY <1>2, <1>3, <1>4, <1>12 DEF n

\* The bucket of an age: the first one before the due date, then the only one that
\* contains it.
InSlot(B, age, k) ==
  /\ k \in 1 .. Len(B)
  /\ age < 0 => k = 1
  /\ age >= 0 => AG!contains(B[k], age)
LEMMA SlotOfAge ==
  ASSUME NEW B, Contiguous(B), NEW age \in Int
  PROVE  \E k : InSlot(B, age, k) /\ AG!classify(age, B) = B[k]
<1> DEFINE n == Len(B)
<1>1. /\ n \in Nat \ {0}
      /\ \A k \in 1 .. n : B[k].min_days \in Nat /\ B[k].max_days \in Int
      /\ \A k \in 1 .. n - 1 : B[k + 1].min_days = B[k].max_days + 1
      /\ \A k, l \in 1 .. n : k < l => B[k].max_days < B[l].min_days
  BY BucketsFollow
<1>2. B[1].min_days = 0 /\ B[n].max_days = AG!Unbounded
  BY DEF Contiguous
<1>3. CASE age < 0
  <2> DEFINE starting == {k \in 1 .. n : B[k].min_days = 0}
             first == CHOOSE k \in starting : \A l \in starting : k <= l
  <2>1. 1 \in starting /\ \A l \in starting : 1 <= l
    BY <1>1, <1>2
  <2>2. first \in starting /\ first <= 1
    <3> HIDE DEF starting
    <3> QED BY <2>1
  <2>3. first = 1
    BY <2>1, <2>2, <1>1
  <2>4. AG!FirstBucket(B, LAMBDA b : b.min_days = 0) = B[1]
    <3>1. AG!FirstBucket(B, LAMBDA b : b.min_days = 0) =
            IF starting = {} THEN AG!NoBucket ELSE B[first]
      BY DEF AG!FirstBucket
    <3> HIDE DEF starting, first
    <3> QED BY <2>1, <2>3, <3>1
  <2>5. AG!classify(age, B) = B[1]
    BY <1>3, <2>4 DEF AG!classify
  <2>6. InSlot(B, age, 1)
    BY <1>1, <1>3 DEF InSlot
  <2> QED BY <2>5, <2>6
<1>4. CASE age >= 0
  <2> DEFINE reached == {k \in 1 .. n : B[k].min_days <= age}
             fitting == {k \in 1 .. n : AG!contains(B[k], age)}
             first == CHOOSE k \in fitting : \A l \in fitting : k <= l
  <2>1. reached \in SUBSET (1 .. n) /\ reached # {}
    BY <1>1, <1>2, <1>4
  <2>2. PICK k \in reached : \A l \in reached : l <= k
    BY <1>1, <2>1, Last
  <2>3. AG!contains(B[k], age)
    <3>1. k \in 1 .. n /\ age >= B[k].min_days
      OBVIOUS
    <3>2. CASE k = n
      BY <1>2, <3>1, <3>2 DEF AG!contains
    <3>3. CASE k # n
      <4>1. k \in 1 .. n - 1 /\ k + 1 \in 1 .. n
        BY <1>1, <3>1, <3>3
      <4>2. k + 1 \notin reached
        BY <1>1, <2>2, <4>1
      <4>3. ~(B[k + 1].min_days <= age) /\ B[k + 1].min_days = B[k].max_days + 1 /\ B[k].max_days \in Int
        BY <1>1, <4>1, <4>2
      <4> QED BY <3>1, <4>3 DEF AG!contains
    <3> QED BY <3>2, <3>3
  <2>4. fitting \in SUBSET Nat /\ k \in fitting
    BY <2>3
  <2>5. first \in fitting
    <3> HIDE DEF fitting
    <3> QED BY <2>4, Least
  <2>6. AG!classify(age, B) = B[first]
    <3>1. AG!FirstBucket(B, LAMBDA b : AG!contains(b, age)) =
            IF fitting = {} THEN AG!NoBucket ELSE B[first]
      BY DEF AG!FirstBucket
    <3>2. AG!classify(age, B) = AG!FirstBucket(B, LAMBDA b : AG!contains(b, age))
      BY <1>4 DEF AG!classify
    <3> HIDE DEF fitting, first
    <3> QED BY <2>4, <3>1, <3>2
  <2>7. InSlot(B, age, first)
    BY <1>4, <2>5 DEF InSlot
  <2> QED BY <2>6, <2>7
<1> QED BY <1>3, <1>4

\* An older age is in no earlier bucket.
LEMMA SlotsForward ==
  ASSUME NEW B, Contiguous(B), NEW young \in Int, NEW old \in Int, young <= old,
         NEW k, InSlot(B, young, k), NEW l, InSlot(B, old, l)
  PROVE  k <= l
<1>1. /\ k \in 1 .. Len(B) /\ l \in 1 .. Len(B) /\ Len(B) \in Nat
      /\ B[k].min_days \in Nat /\ B[l].max_days \in Int /\ B[l].min_days \in Nat
      /\ l < k => B[l].max_days < B[k].min_days
      /\ l < k => B[l].max_days >= B[l].min_days
  <2>1. k \in 1 .. Len(B) /\ l \in 1 .. Len(B)
    BY DEF InSlot
  <2>2. Len(B) \in Nat
    BY BucketsFollow
  <2>3. l < k => l \in 1 .. Len(B) - 1
    BY <2>1, <2>2
  <2> QED BY <2>1, <2>2, <2>3, BucketsFollow
<1>2. SUFFICES ASSUME l < k PROVE FALSE
  BY <1>1
<1>3. young >= 0 /\ old >= 0
  BY <1>1, <1>2 DEF InSlot
<1>4. young >= B[k].min_days
  BY <1>3 DEF InSlot, AG!contains
<1>5. old <= B[l].max_days
  BY <1>1, <1>2, <1>3 DEF InSlot, AG!contains, AG!Unbounded
<1> QED BY <1>1, <1>2, <1>4, <1>5

\* What a report says of each document, and the slot of its bucket.
ReportOf(j, day) == AG!generate_report_from_documents(j.documents, day, j.buckets, j.use_due_date)
AgeOf(j, day, i) ==
  AG!calculate_age(j.documents[i].document_date, day, j.documents[i].due_date, j.use_due_date)
LEMMA DocumentTypes ==
  ASSUME NEW j \in AgingJobs
  PROVE  /\ Contiguous(j.buckets) /\ Len(j.documents) \in Nat
         /\ \A i \in 1 .. Len(j.documents) :
              j.documents[i] \in [document_date : Int, due_date : Int, amount : Int, counterparty : STRING]
BY AgingAssumption, Element

\* The items of a report: the documents with their ages and buckets.
LEMMA ReportItems ==
  ASSUME NEW j \in AgingJobs, NEW day \in Int, NEW r, r = ReportOf(j, day)
  PROVE  /\ r.as_of_date = day /\ r.buckets = j.buckets
         /\ Len(r.items) = Len(j.documents) /\ DOMAIN r.items = 1 .. Len(j.documents)
         /\ \A i \in 1 .. Len(j.documents) :
              /\ AgeOf(j, day, i) \in Int
              /\ r.items[i] = [doc |-> j.documents[i], age_days |-> AgeOf(j, day, i),
                               bucket |-> AG!classify(AgeOf(j, day, i), j.buckets).name]
<1> DEFINE n == Len(j.documents)
           items == [i \in 1 .. n |-> AG!age_item(j.documents[i], day, j.buckets, j.use_due_date)]
<1>1. n \in Nat /\ \A i \in 1 .. n :
        j.documents[i] \in [document_date : Int, due_date : Int, amount : Int, counterparty : STRING]
  BY DocumentTypes
<1>2. r = [as_of_date |-> day, buckets |-> j.buckets, items |-> items]
  BY DEF ReportOf, AG!generate_report_from_documents, AG!generate_report
<1>3. r.as_of_date = day /\ r.buckets = j.buckets /\ r.items = items
  BY <1>2
<1>4. Len(items) = n /\ DOMAIN items = 1 .. n
  BY <1>1
<1>5. ASSUME NEW i \in 1 .. n
      PROVE  /\ AgeOf(j, day, i) \in Int
             /\ items[i] = [doc |-> j.documents[i], age_days |-> AgeOf(j, day, i),
                            bucket |-> AG!classify(AgeOf(j, day, i), j.buckets).name]
  <2>1. j.documents[i].document_date \in Int /\ j.documents[i].due_date \in Int
    BY <1>1
  <2>2. AgeOf(j, day, i) \in Int
    BY <2>1 DEF AgeOf, AG!calculate_age
  <2>3. items[i] = AG!age_item(j.documents[i], day, j.buckets, j.use_due_date)
    OBVIOUS
  <2> QED BY <2>2, <2>3 DEF AG!age_item, AgeOf
<1> QED BY <1>3, <1>4, <1>5

\* at gives the bucket of each document of a report.
Slots(j, day, r, at) ==
  /\ at \in [1 .. Len(j.documents) -> 1 .. Len(j.buckets)]
  /\ \A i \in 1 .. Len(j.documents) :
       InSlot(j.buckets, AgeOf(j, day, i), at[i]) /\ r.items[i].bucket = j.buckets[at[i]].name
LEMMA ReportSlots ==
  ASSUME NEW j \in AgingJobs, NEW day \in Int, NEW r, r = ReportOf(j, day)
  PROVE  \E at : Slots(j, day, r, at)
<1> DEFINE B == j.buckets
           Slot(i, k) == InSlot(B, AgeOf(j, day, i), k) /\ r.items[i].bucket = B[k].name
           at == [i \in 1 .. Len(j.documents) |-> CHOOSE k : Slot(i, k)]
<1>1. ASSUME NEW i \in 1 .. Len(j.documents) PROVE \E k : Slot(i, k)
  <2>1. AgeOf(j, day, i) \in Int /\ r.items[i].bucket = AG!classify(AgeOf(j, day, i), B).name
    <3>1. /\ AgeOf(j, day, i) \in Int
          /\ r.items[i] = [doc |-> j.documents[i], age_days |-> AgeOf(j, day, i),
                           bucket |-> AG!classify(AgeOf(j, day, i), j.buckets).name]
      <4> HIDE DEF Slot, at, B
      <4> QED BY ReportItems
    <3> QED BY <3>1
  <2>2. Contiguous(B)
    BY DocumentTypes
  <2> DEFINE age == AgeOf(j, day, i)
  <2> HIDE DEF age, B
  <2>3. PICK k : InSlot(B, age, k) /\ AG!classify(age, B) = B[k]
    BY <2>1, <2>2, SlotOfAge DEF age
  <2> QED BY <2>1, <2>3 DEF age, B
<1>2. ASSUME NEW i \in 1 .. Len(j.documents) PROVE Slot(i, at[i])
  <2>1. at[i] = CHOOSE k : Slot(i, k)
    OBVIOUS
  <2> HIDE DEF Slot, at
  <2> QED BY <1>1, <2>1
<1> HIDE DEF at
<1>3. \A i \in 1 .. Len(j.documents) : at[i] \in 1 .. Len(B)
  BY <1>2 DEF InSlot
<1>4. at \in [1 .. Len(j.documents) -> 1 .. Len(B)]
  BY <1>3 DEF at
<1> QED BY <1>2, <1>4 DEF Slots

\* The bucket a report files a document under is the one its name says.
LEMMA BucketIsSlot ==
  ASSUME NEW j \in AgingJobs, NEW r, r.buckets = j.buckets, NEW i,
         NEW k \in 1 .. Len(j.buckets), r.items[i].bucket = j.buckets[k].name
  PROVE  BucketOf(r, i) = k
<1>1. \A b, l \in 1 .. Len(j.buckets) : j.buckets[b].name = j.buckets[l].name => b = l
  BY DocumentTypes DEF Contiguous
<1>2. BucketOf(r, i) = CHOOSE b \in 1 .. Len(j.buckets) : j.buckets[b].name = j.buckets[k].name
  BY DEF BucketOf
<1> QED BY <1>1, <1>2

\* From a report to a later one no document moves to a younger bucket.
LEMMA Forward ==
  ASSUME NEW j \in AgingJobs, NEW day \in Int, NEW later \in Int, day <= later,
         NEW i \in 1 .. Len(j.documents)
  PROVE  BucketOf(ReportOf(j, day), i) <= BucketOf(ReportOf(j, later), i)
<1> DEFINE r == ReportOf(j, day)
           t == ReportOf(j, later)
<1>0. r = ReportOf(j, day) /\ t = ReportOf(j, later)
  OBVIOUS
<1> HIDE DEF r, t
<1>1. PICK at : Slots(j, day, r, at)
  BY <1>0, ReportSlots
<1>2. PICK to : Slots(j, later, t, to)
  BY <1>0, ReportSlots
<1>3. r.buckets = j.buckets /\ t.buckets = j.buckets
      /\ AgeOf(j, day, i) \in Int /\ AgeOf(j, later, i) \in Int
  BY <1>0, ReportItems
<1>4. AgeOf(j, day, i) <= AgeOf(j, later, i)
  <2>1. j.documents[i] \in [document_date : Int, due_date : Int, amount : Int, counterparty : STRING]
    BY DocumentTypes
  <2>2. j.documents[i].document_date \in Int /\ j.documents[i].due_date \in Int
    BY <2>1
  <2> QED BY <2>2 DEF AgeOf, AG!calculate_age
<1>5. BucketOf(r, i) = at[i] /\ BucketOf(t, i) = to[i]
  <2>1. /\ at[i] \in 1 .. Len(j.buckets) /\ to[i] \in 1 .. Len(j.buckets)
        /\ r.items[i].bucket = j.buckets[at[i]].name /\ t.items[i].bucket = j.buckets[to[i]].name
    BY <1>1, <1>2 DEF Slots
  <2> QED BY <1>3, <2>1, BucketIsSlot
<1>6. at[i] <= to[i]
  <2>1. Contiguous(j.buckets)
    BY DocumentTypes
  <2>2. InSlot(j.buckets, AgeOf(j, day, i), at[i]) /\ InSlot(j.buckets, AgeOf(j, later, i), to[i])
    BY <1>1, <1>2 DEF Slots
  <2> QED BY <1>3, <1>4, <2>1, <2>2, SlotsForward, Zenon
<1> QED BY <1>0, <1>5, <1>6

\* The total of the documents chosen, and that its parts in the buckets add up to it.
Part(j, chosen) == [i \in 1 .. Len(j.documents) |-> IF i \in chosen THEN j.documents[i].amount ELSE 0]
LEMMA AmountIsPart ==
  ASSUME NEW j \in AgingJobs, NEW day \in Int, NEW r, r = ReportOf(j, day), NEW chosen
  PROVE  /\ AG!AmountOf(r, chosen) = SumOfSeq(Part(j, chosen))
         /\ Part(j, chosen) \in [1 .. Len(j.documents) -> Int]
         /\ Part(j, chosen) \in Seq(Int) /\ Len(Part(j, chosen)) = Len(j.documents)
         /\ SumOfSeq(Part(j, chosen)) \in Int
<1> DEFINE n == Len(j.documents)
           s == Part(j, chosen)
<1>1. n \in Nat /\ \A i \in 1 .. n : j.documents[i].amount \in Int
  <2>1. n \in Nat /\ \A i \in 1 .. n :
          j.documents[i] \in [document_date : Int, due_date : Int, amount : Int, counterparty : STRING]
    BY DocumentTypes
  <2> QED BY <2>1
<1>2. Len(r.items) = n /\ \A i \in 1 .. n : r.items[i].doc = j.documents[i]
  <2>1. Len(r.items) = n
    BY ReportItems
  <2>2. ASSUME NEW i \in 1 .. n PROVE r.items[i].doc = j.documents[i]
    <3>1. r.items[i] = [doc |-> j.documents[i], age_days |-> AgeOf(j, day, i),
                        bucket |-> AG!classify(AgeOf(j, day, i), j.buckets).name]
      BY ReportItems
    <3> QED BY <3>1
  <2> QED BY <2>1, <2>2
<1>3. [i \in AG!Items(r) |-> IF i \in chosen THEN r.items[i].doc.amount ELSE 0] = s
  BY <1>2 DEF Part, AG!Items
<1>4. AG!AmountOf(r, chosen) = SumOfSeq(s)
  BY <1>3, AgingSums DEF AG!AmountOf
<1>5. s \in [1 .. n -> Int]
  BY <1>1 DEF Part
<1> HIDE DEF s
<1>6. s \in Seq(Int) /\ Len(s) = n
  BY <1>1, <1>5
<1>7. SumOfSeq(s) \in Int
  BY <1>6, RunningTotals
<1> QED BY <1>4, <1>5, <1>6, <1>7 DEF s

InBuckets(j, r, chosen) ==
  [b \in 1 .. Len(j.buckets) |-> AG!AmountOf(r, chosen \cap AG!items_in_bucket(r, j.buckets[b].name))]
LEMMA PartsAddUp ==
  ASSUME NEW j \in AgingJobs, NEW day \in Int, NEW r, r = ReportOf(j, day),
         NEW chosen
  PROVE  SumOfSeq(InBuckets(j, r, chosen)) = AG!AmountOf(r, chosen)
<1> DEFINE n == Len(j.documents)
           m == Len(j.buckets)
           inside(b) == chosen \cap AG!items_in_bucket(r, j.buckets[b].name)
           w == [b \in 1 .. m |-> Part(j, inside(b))]
           v == Part(j, chosen)
<1>0. PICK at : Slots(j, day, r, at)
  BY ReportSlots
<1>1. at \in [1 .. n -> 1 .. m] /\ \A i \in 1 .. n : r.items[i].bucket = j.buckets[at[i]].name
  BY <1>0 DEF Slots
<1>2. /\ n \in Nat /\ m \in Nat
      /\ \A b, l \in 1 .. m : j.buckets[b].name = j.buckets[l].name => b = l
  BY DocumentTypes DEF Contiguous
<1>3. Len(r.items) = n
  BY ReportItems
<1>4. v \in [1 .. n -> Int] /\ w \in [1 .. m -> [1 .. n -> Int]]
  BY AmountIsPart
<1>5. ASSUME NEW b \in 1 .. m, NEW i \in 1 .. n PROVE w[b][i] = IF b = at[i] THEN v[i] ELSE 0
  <2>1. i \in AG!items_in_bucket(r, j.buckets[b].name) <=> b = at[i]
    <3>1. i \in AG!items_in_bucket(r, j.buckets[b].name) <=> r.items[i].bucket = j.buckets[b].name
      BY <1>3 DEF AG!items_in_bucket, AG!Items
    <3>2. at[i] \in 1 .. m /\ r.items[i].bucket = j.buckets[at[i]].name
      BY <1>1
    <3> QED BY <1>2, <3>1, <3>2
  <2>2. w[b][i] = IF i \in inside(b) THEN j.documents[i].amount ELSE 0
    BY DEF Part
  <2>3. v[i] = IF i \in chosen THEN j.documents[i].amount ELSE 0
    BY DEF Part
  <2> HIDE DEF w, v
  <2> QED BY <2>1, <2>2, <2>3
<1>6. \A b \in 1 .. m : AG!AmountOf(r, inside(b)) = SumOfSeq(w[b])
  <2> SUFFICES ASSUME NEW b \in 1 .. m PROVE AG!AmountOf(r, inside(b)) = SumOfSeq(w[b])
    OBVIOUS
  <2>1. w[b] = Part(j, inside(b))
    OBVIOUS
  <2> HIDE DEF w, inside
  <2> QED BY <2>1, AmountIsPart
<1> HIDE DEF w, v, inside
<1>7. SumOfSeq(ColumnTotals(w, m)) = SumOfSeq(v)
  <2> HIDE DEF n, m
  <2>1. Entered(v, w, at, n, m)
    BY <1>1, <1>4, <1>5 DEF Entered
  <2> QED BY <1>2, <2>1, SumByColumn
<1>8. AG!AmountOf(r, chosen) = SumOfSeq(v)
  BY AmountIsPart DEF v
<1>9. InBuckets(j, r, chosen) = ColumnTotals(w, m)
  BY <1>6 DEF InBuckets, ColumnTotals, inside
<1> QED BY <1>7, <1>8, <1>9

\* A report loses no document, over all of them and for each counterparty.
LEMMA LosesNothing ==
  ASSUME NEW j \in AgingJobs, NEW day \in Int, NEW r, r = ReportOf(j, day)
  PROVE  NothingLost(r)
<1> DEFINE n == Len(j.documents)
           m == Len(j.buckets)
           B == j.buckets
           In(name) == AG!items_in_bucket(r, name)
<1>1. r.buckets = B /\ Len(r.items) = n /\ DOMAIN r.items = 1 .. n
  BY ReportItems
<1>2. n \in Nat
  BY DocumentTypes
<1>3. \A b \in 1 .. m : B[b].name \in AG!BucketNames(r)
  BY <1>1 DEF AG!BucketNames
<1>4. OverBuckets(r, AG!total_by_bucket(r)) = AG!total_amount(r)
  <2> DEFINE all == AG!Items(r)
  <2>0. AG!total_amount(r) = AG!AmountOf(r, all)
    BY DEF AG!total_amount
  <2>1. SumOfSeq(InBuckets(j, r, all)) = AG!AmountOf(r, all)
    BY PartsAddUp
  <2>2. \A name : all \cap In(name) = In(name)
    BY DEF AG!items_in_bucket
  <2>3. CASE r.items # <<>>
    <3>1. \A b \in 1 .. m : TotalOf(AG!total_by_bucket(r), B[b].name) = AG!AmountOf(r, all \cap In(B[b].name))
      BY <1>3, <2>2, <2>3 DEF TotalOf, AG!total_by_bucket
    <3> HIDE DEF all, In
    <3>2. [b \in 1 .. m |-> TotalOf(AG!total_by_bucket(r), B[b].name)] = InBuckets(j, r, all)
      BY <3>1 DEF InBuckets, In
    <3> QED BY <1>1, <2>0, <2>1, <3>2 DEF OverBuckets
  <2>4. CASE r.items = <<>>
    <3>1. n = 0
      BY <1>1, <1>2, <2>4
    <3>2. AG!AmountOf(r, all) = 0
      <4> DEFINE none == Part(j, all)
      <4>1. none \in Seq(Int) /\ Len(none) = n /\ AG!AmountOf(r, all) = SumOfSeq(none)
        BY AmountIsPart
      <4> HIDE DEF none
      <4>2. \A k \in 1 .. Len(none) : none[k] = 0
        BY <3>1, <4>1
      <4>3. SumOfSeq(none) = 0
        BY <4>1, <4>2, SumOfNone
      <4> QED BY <4>1, <4>3
    <3> DEFINE zeros == [b \in 1 .. m |-> TotalOf(AG!total_by_bucket(r), B[b].name)]
    <3>3. zeros = [b \in 1 .. m |-> 0]
      BY <2>4 DEF TotalOf, AG!total_by_bucket
    <3>4. m \in Nat /\ zeros \in [1 .. m -> Int]
      <4>1. m \in Nat
        BY DocumentTypes, BucketsFollow
      <4> HIDE DEF zeros, m
      <4> QED BY <3>3, <4>1
    <3>5. OverBuckets(r, AG!total_by_bucket(r)) = SumOfSeq(zeros)
      BY <1>1 DEF OverBuckets
    <3> HIDE DEF zeros
    <3>6. zeros \in Seq(Int) /\ Len(zeros) = m
      BY <3>4
    <3>7. SumOfSeq(zeros) = 0
      BY <3>3, <3>6, SumOfNone
    <3> QED BY <2>0, <3>2, <3>5, <3>7
  <2> QED BY <2>3, <2>4
<1>5. ASSUME NEW cp \in DOMAIN AG!total_by_counterparty(r)
      PROVE  OverBuckets(r, AG!total_by_counterparty(r)[cp]) = AG!AmountOf(r, AG!items_for_counterparty(r, cp))
  <2> DEFINE his == AG!items_for_counterparty(r, cp)
  <2>1. SumOfSeq(InBuckets(j, r, his)) = AG!AmountOf(r, his)
    BY PartsAddUp, Zenon
  <2>2. AG!total_by_counterparty(r)[cp] =
          [name \in AG!BucketNames(r) |-> AG!AmountOf(r, his \cap In(name))]
    BY <1>5 DEF AG!total_by_counterparty
  <2> HIDE DEF his, In
  <2>3. \A b \in 1 .. m : TotalOf(AG!total_by_counterparty(r)[cp], B[b].name) = AG!AmountOf(r, his \cap In(B[b].name))
    BY <1>3, <2>2 DEF TotalOf
  <2>4. [b \in 1 .. m |-> TotalOf(AG!total_by_counterparty(r)[cp], B[b].name)] = InBuckets(j, r, his)
    BY <2>3 DEF InBuckets, In
  <2> QED BY <1>1, <2>1, <2>4 DEF OverBuckets, his
<1> QED BY <1>4, <1>5 DEF NothingLost

\* Where the first bucket is the day a document is due, the rest is what is overdue.
LEMMA RestIsOverdue ==
  ASSUME NEW j \in AgingJobs, NEW day \in Int, NEW r, r = ReportOf(j, day),
         j.buckets[1].max_days = 0,
         \A i \in 1 .. Len(j.documents) : j.documents[i].due_date # AG!NoDate
  PROVE  OverdueIsNotCurrent(r)
<1> DEFINE n == Len(j.documents)
           B == j.buckets
           all == AG!Items(r)
           late == AG!overdue_items(r)
           current == AG!items_in_bucket(r, B[1].name)
<1>0. PICK at : Slots(j, day, r, at)
  BY ReportSlots
<1>1. /\ at \in [1 .. n -> 1 .. Len(B)]
      /\ \A i \in 1 .. n : InSlot(B, AgeOf(j, day, i), at[i]) /\ r.items[i].bucket = B[at[i]].name
  BY <1>0 DEF Slots
<1>2. /\ r.buckets = B /\ Len(r.items) = n /\ DOMAIN r.items = 1 .. n
      /\ \A i \in 1 .. n :
           /\ AgeOf(j, day, i) \in Int
           /\ r.items[i] = [doc |-> j.documents[i], age_days |-> AgeOf(j, day, i),
                            bucket |-> AG!classify(AgeOf(j, day, i), j.buckets).name]
  BY ReportItems
<1>3. /\ n \in Nat /\ Contiguous(B)
      /\ \A b, l \in 1 .. Len(B) : B[b].name = B[l].name => b = l
  BY DocumentTypes DEF Contiguous
<1>4. Len(B) \in Nat \ {0} /\ 1 \in 1 .. Len(B)
  BY <1>3, BucketsFollow
<1>5. ASSUME NEW i \in 1 .. n PROVE i \in late <=> i \notin current
  <2> DEFINE age == AgeOf(j, day, i)
  <2>1. i \in late <=> age > 0
    <3>0. r.items[i] = [doc |-> j.documents[i], age_days |-> age,
                        bucket |-> AG!classify(age, j.buckets).name]
      BY <1>2
    <3>1. r.items[i].doc = j.documents[i] /\ r.items[i].age_days = age
      BY <3>0
    <3> QED BY <1>2, <3>1 DEF AG!overdue_items, AG!is_overdue, AG!Items
  <2>2. i \in current <=> at[i] = 1
    <3>1. i \in current <=> r.items[i].bucket = B[1].name
      BY <1>2 DEF AG!items_in_bucket, AG!Items
    <3> QED BY <1>1, <1>3, <1>4, <3>1
  <2>3. age \in Int /\ InSlot(B, age, at[i])
    BY <1>1, <1>2
  <2> HIDE DEF age, late, current
  <2>4. CASE age < 0
    BY <2>1, <2>2, <2>3, <2>4 DEF InSlot
  <2>5. CASE age >= 0
    <3>1. at[i] \in 1 .. Len(B) /\ AG!contains(B[at[i]], age)
      BY <2>3, <2>5 DEF InSlot
    <3>2. B[1].min_days = 0
      BY <1>3 DEF Contiguous
    <3>3. CASE at[i] = 1
      BY <2>1, <2>2, <2>3, <2>5, <3>1, <3>3 DEF AG!contains, AG!Unbounded
    <3>4. CASE at[i] # 1
      <4>1. B[at[i]].min_days \in Nat /\ B[1].max_days < B[at[i]].min_days
        <5>1. 1 < at[i]
          BY <1>4, <3>1, <3>4
        <5> QED BY <1>3, <1>4, <3>1, <5>1, BucketsFollow
      <4>2. age >= B[at[i]].min_days
        BY <3>1 DEF AG!contains
      <4>3. age > 0
        BY <2>3, <4>1, <4>2
      <4> QED BY <2>1, <2>2, <3>4, <4>3
    <3> QED BY <3>3, <3>4
  <2> QED BY <2>3, <2>4, <2>5
<1>6. all = 1 .. n
  BY <1>2 DEF AG!Items
<1> DEFINE a == Part(j, all)
           l == Part(j, late)
           c == Part(j, current)
<1> HIDE DEF late, current, all
<1>7. \A k \in 1 .. n : a[k] = l[k] + c[k]
  <2> SUFFICES ASSUME NEW k \in 1 .. n PROVE a[k] = l[k] + c[k]
    OBVIOUS
  <2>1. k \in all
    BY <1>6
  <2>2. j.documents[k].amount \in Int
    <3>1. j.documents[k] \in [document_date : Int, due_date : Int, amount : Int, counterparty : STRING]
      BY DocumentTypes
    <3> QED BY <3>1
  <2> QED BY <1>5, <2>1, <2>2 DEF Part
<1>8. /\ AG!AmountOf(r, all) = SumOfSeq(a) /\ AG!AmountOf(r, late) = SumOfSeq(l)
      /\ AG!AmountOf(r, current) = SumOfSeq(c)
      /\ a \in Seq(Int) /\ l \in Seq(Int) /\ c \in Seq(Int)
      /\ Len(a) = n /\ Len(l) = n /\ Len(c) = n
      /\ SumOfSeq(a) \in Int /\ SumOfSeq(l) \in Int /\ SumOfSeq(c) \in Int
  BY AmountIsPart
<1> HIDE DEF a, l, c
<1>9. SumOfSeq(a) = SumOfSeq(l) + SumOfSeq(c)
  <2>1. Len(c) = Len(l) /\ Len(a) = Len(l) /\ \A k \in 1 .. Len(l) : a[k] = l[k] + c[k]
    BY <1>7, <1>8
  <2> QED BY <1>8, <2>1, SumAdds, Zenon
<1>10. AG!overdue_amount(r) = SumOfSeq(l) /\ AG!total_amount(r) = SumOfSeq(a)
  BY <1>8 DEF AG!overdue_amount, AG!total_amount, late, all
<1>11. TotalOf(AG!total_by_bucket(r), B[1].name) = SumOfSeq(c)
  <2>1. CASE r.items # <<>>
    BY <1>2, <1>4, <1>8, <2>1 DEF TotalOf, AG!total_by_bucket, AG!BucketNames, current
  <2>2. CASE r.items = <<>>
    <3>1. TotalOf(AG!total_by_bucket(r), B[1].name) = 0
      BY <2>2 DEF TotalOf, AG!total_by_bucket
    <3>2. n = 0
      BY <1>2, <1>3, <2>2
    <3>3. \A k \in 1 .. Len(c) : c[k] = 0
      BY <1>8, <3>2
    <3>4. SumOfSeq(c) = 0
      BY <1>8, <3>3, SumOfNone
    <3> QED BY <3>1, <3>4
  <2> QED BY <2>1, <2>2
<1> QED BY <1>2, <1>8, <1>9, <1>10, <1>11 DEF OverdueIsNotCurrent

-----------------------------------------------------------------------------
(* The engines: running values and sums.                                   *)

\* Two functions that start alike and go on alike are equal.
Alike(f, g, n) == f[0] = g[0] /\ \A k \in 1 .. n : f[k - 1] = g[k - 1] => f[k] = g[k]
LEMMA GoAlike ==
  ASSUME NEW n \in Nat, NEW f, NEW g, Alike(f, g, n)
  PROVE  \A k \in 0 .. n : f[k] = g[k]
<1> DEFINE S == {m \in Nat : m <= n => f[m] = g[m]}
<1>1. 0 \in S
  BY DEF Alike
<1>2. ASSUME NEW m \in Nat, m \in S PROVE m + 1 \in S
  <2> SUFFICES ASSUME m + 1 <= n PROVE f[m + 1] = g[m + 1]
    OBVIOUS
  <2>1. m + 1 \in 1 .. n /\ (m + 1) - 1 = m /\ f[m] = g[m]
    BY <1>2
  <2> QED BY <2>1 DEF Alike
<1>3. Nat \subseteq S
  <2> HIDE DEF S
  <2> QED BY <1>1, <1>2, Induction
<1> QED BY <1>3

\* A value that every step takes on to the next one exists for all steps.
CanStep(n, S, a, step) == a \in S /\ step \in [1 .. n -> [S -> S]]
Stepwise(n, S, a, step, f) == f \in [0 .. n -> S] /\ f[0] = a /\ \A k \in 1 .. n : f[k] = step[k][f[k - 1]]
LEMMA Recursion ==
  ASSUME NEW n \in Nat, NEW S, NEW a, NEW step, CanStep(n, S, a, step)
  PROVE  \E f : Stepwise(n, S, a, step, f)
<1>0. a \in S /\ step \in [1 .. n -> [S -> S]]
  BY DEF CanStep
<1> DEFINE Good(m, f) == f \in [0 .. m -> S] /\ f[0] = a /\ \A k \in 1 .. m : f[k] = step[k][f[k - 1]]
           Upto(m) == m <= n => \E f : Good(m, f)
           T == {m \in Nat : Upto(m)}
<1>1. Upto(0)
  <2>1. Good(0, [k \in 0 .. 0 |-> a])
    BY <1>0
  <2> QED BY <2>1
<1>2. ASSUME NEW m \in Nat, Upto(m) PROVE Upto(m + 1)
  <2> SUFFICES ASSUME m + 1 <= n PROVE \E f : Good(m + 1, f)
    OBVIOUS
  <2>1. PICK f : Good(m, f)
    BY <1>2
  <2> DEFINE g == [k \in 0 .. m + 1 |-> IF k = m + 1 THEN step[m + 1][f[m]] ELSE f[k]]
  <2>2. m + 1 \in 1 .. n /\ step[m + 1] \in [S -> S] /\ f[m] \in S
    BY <1>0, <2>1
  <2>3. g \in [0 .. m + 1 -> S]
    BY <2>1, <2>2
  <2>4. g[0] = a /\ g[m + 1] = step[m + 1][f[m]] /\ \A k \in 0 .. m : g[k] = f[k]
    BY <2>1
  <2> HIDE DEF g
  <2>5. ASSUME NEW k \in 1 .. m + 1 PROVE g[k] = step[k][g[k - 1]]
    <3>1. CASE k = m + 1
      <4>1. g[m] = f[m] /\ k - 1 = m
        BY <2>4, <3>1
      <4> QED BY <2>4, <3>1, <4>1
    <3>2. CASE k \in 1 .. m
      <4>1. g[k] = f[k] /\ g[k - 1] = f[k - 1]
        BY <2>4, <3>2
      <4> QED BY <2>1, <3>2, <4>1
    <3> QED BY <3>1, <3>2
  <2>6. Good(m + 1, g)
    BY <2>3, <2>4, <2>5
  <2> QED BY <2>6
<1>3. n \in T
  <2>1. 0 \in T /\ \A m \in Nat : m \in T => m + 1 \in T
    <3> HIDE DEF Upto
    <3> QED BY <1>1, <1>2
  <2> HIDE DEF T
  <2> QED BY <2>1, Induction
<1> QED BY <1>3 DEF Stepwise

\* Sums of amounts that are not negative grow.
LEMMA SumsGrow ==
  ASSUME NEW s \in Seq(Nat)
  PROVE  /\ s \in Seq(Int)
         /\ \A k \in 0 .. Len(s) : Sums(s)[k] \in Nat
         /\ \A k \in 0 .. Len(s) : \A j \in 1 .. k : s[j] <= Sums(s)[k]
         /\ SumOfSeq(s) \in Nat
<1>0. Len(s) \in Nat /\ \A k \in 1 .. Len(s) : s[k] \in Nat
  OBVIOUS
<1>1. s \in Seq(Int)
  OBVIOUS
<1> DEFINE f == Sums(s)
<1>2. f \in [0 .. Len(s) -> Int] /\ f[0] = 0 /\ (\A k \in 1 .. Len(s) : f[k] = f[k - 1] + s[k])
      /\ SumOfSeq(s) = f[Len(s)]
  BY <1>1, RunningTotals
<1> HIDE DEF f
<1> DEFINE P(m) == m <= Len(s) => f[m] \in Nat /\ \A j \in 1 .. m : s[j] <= f[m]
           S == {m \in Nat : P(m)}
<1>3. P(0)
  BY <1>2
<1>4. ASSUME NEW m \in Nat, P(m) PROVE P(m + 1)
  <2> SUFFICES ASSUME m + 1 <= Len(s) PROVE f[m + 1] \in Nat /\ \A j \in 1 .. m + 1 : s[j] <= f[m + 1]
    OBVIOUS
  <2>1. m + 1 \in 1 .. Len(s) /\ (m + 1) - 1 = m /\ f[m] \in Nat /\ \A j \in 1 .. m : s[j] <= f[m]
    BY <1>0, <1>4
  <2>2. f[m + 1] = f[m] + s[m + 1] /\ s[m + 1] \in Nat
    BY <1>0, <1>2, <2>1
  <2>3. ASSUME NEW j \in 1 .. m + 1 PROVE s[j] <= f[m + 1]
    <3>1. j \in 1 .. Len(s) /\ s[j] \in Nat
      BY <1>0
    <3>2. CASE j = m + 1
      BY <2>1, <2>2, <3>2
    <3>3. CASE j \in 1 .. m
      BY <2>1, <2>2, <3>1, <3>3
    <3> QED BY <3>2, <3>3
  <2> QED BY <2>1, <2>2, <2>3
<1>5. Nat \subseteq S
  <2>1. 0 \in S /\ \A m \in Nat : m \in S => m + 1 \in S
    <3> HIDE DEF P
    <3> QED BY <1>3, <1>4
  <2> HIDE DEF S
  <2> QED BY <2>1, Induction
<1>6. \A k \in 0 .. Len(s) : f[k] \in Nat /\ \A j \in 1 .. k : s[j] <= f[k]
  BY <1>0, <1>5
<1> QED BY <1>0, <1>1, <1>2, <1>6 DEF f

\* Amounts taken one by one in any order add up to the same, and an order of all
\* indices is as long as the sequence.
Taken(v, order, m) == [k \in 1 .. m |-> v[order[k]]]
LEMMA SumArranged ==
  ASSUME NEW n \in Nat, NEW m \in Nat, NEW order, Arranges(order, m, n), NEW v \in [1 .. n -> Int]
  PROVE  SumOfSeq(Taken(v, order, m)) = SumOfSeq(v)
<1> DEFINE u == [k \in 1 .. m |-> v[order[k]]]
           w == [i \in 1 .. n |-> [k \in 1 .. m |-> IF i = order[k] THEN v[order[k]] ELSE 0]]
<1>1. /\ order \in [1 .. m -> 1 .. n]
      /\ \A i \in 1 .. n : \E k \in 1 .. m : order[k] = i
      /\ \A k, l \in 1 .. m : order[k] = order[l] => k = l
  BY DEF Arranges
<1>2. u \in [1 .. m -> Int] /\ \A k \in 1 .. m : u[k] = v[order[k]]
  BY <1>1
<1>3. /\ \A i \in 1 .. n : w[i] \in [1 .. m -> Int]
      /\ w \in [1 .. n -> [1 .. m -> Int]]
      /\ \A i \in 1 .. n : \A k \in 1 .. m : w[i][k] = IF i = order[k] THEN v[order[k]] ELSE 0
  BY <1>1
<1> HIDE DEF w
<1>4. Entered(u, w, order, m, n)
  BY <1>1, <1>2, <1>3 DEF Entered
<1>5. ASSUME NEW i \in 1 .. n PROVE SumOfSeq(w[i]) = v[i]
  <2> DEFINE row == w[i]
  <2>1. PICK k \in 1 .. m : order[k] = i
    BY <1>1
  <2>2. row \in Seq(Int) /\ Len(row) = m
    <3>1. row \in [1 .. m -> Int]
      BY <1>3
    <3> HIDE DEF row
    <3> QED BY <3>1
  <2>3. row[k] = v[i] /\ \A l \in 1 .. m : l # k => row[l] = 0
    BY <1>1, <1>3, <2>1
  <2> HIDE DEF row
  <2>4. SumOfSeq(row) = row[k]
    BY <2>2, <2>3, SumOfOne
  <2> QED BY <2>3, <2>4 DEF row
<1>6. ColumnTotals(w, n) = v
  BY <1>5 DEF ColumnTotals
<1> HIDE DEF u
<1>7. SumOfSeq(ColumnTotals(w, n)) = SumOfSeq(u)
  BY <1>4, SumByColumn
<1> QED BY <1>6, <1>7 DEF u, Taken

LEMMA SumOfOnes ==
  ASSUME NEW n \in Nat
  PROVE  SumOfSeq([k \in 1 .. n |-> 1]) = n
<1> DEFINE s == [k \in 1 .. n |-> 1]
           f == [k \in 0 .. n |-> k]
<1>1. s \in Seq(Int) /\ Len(s) = n /\ \A k \in 1 .. n : s[k] = 1
  OBVIOUS
<1>2. f[0] = 0 /\ f[n] = n /\ \A k \in 1 .. n : f[k] = f[k - 1] + 1
  OBVIOUS
<1> HIDE DEF s, f
<1>3. \A k \in 1 .. Len(s) : f[k] = f[k - 1] + s[k]
  BY <1>1, <1>2
<1>4. SumOfSeq(s) = f[Len(s)]
  BY <1>1, <1>2, <1>3, SumIs
<1> QED BY <1>1, <1>2, <1>4 DEF s

LEMMA ArrangedLength ==
  ASSUME NEW n \in Nat, NEW m \in Nat, NEW order, Arranges(order, m, n)
  PROVE  m = n
<1> DEFINE v == [i \in 1 .. n |-> 1]
<1>1. v \in [1 .. n -> Int]
  OBVIOUS
<1>2. Taken(v, order, m) = [k \in 1 .. m |-> 1]
  BY DEF Arranges, Taken
<1>3. SumOfSeq(Taken(v, order, m)) = SumOfSeq(v)
  <2> HIDE DEF v
  <2> QED BY <1>1, SumArranged
<1>4. SumOfSeq(v) = n /\ SumOfSeq([k \in 1 .. m |-> 1]) = m
  BY SumOfOnes
<1> QED BY <1>2, <1>3, <1>4

-----------------------------------------------------------------------------
(* The engines: allocation.                                                *)

LEMMA AllocationSums == \A s : AL!SumOfSeq(s) = SumOfSeq(s)
BY DEF AL!SumOfSeq, SumOfSeq

\* What the targets can take: an unlimited one, the whole amount.
Target == [eligible : Nat \cup {NoAmount}, weight : Nat, date : Int, priority : Int]
Takes(amount, targets) ==
  [i \in 1 .. Len(targets) |-> IF targets[i].eligible = NoAmount THEN amount ELSE targets[i].eligible]
Remaining(amount, targets, order) ==
  CHOOSE f : f = [k \in 0 .. Len(order) |->
    IF k = 0 THEN amount
    ELSE f[k - 1] - (IF targets[order[k]].eligible = AL!NoAmount THEN f[k - 1]
                     ELSE AL!Lesser(f[k - 1], targets[order[k]].eligible))]

\* What remains is what the targets so far could not take.
LEMMA RemainingIs ==
  ASSUME NEW amount \in Nat, NEW targets \in Seq(Target), NEW order, Arranges(order, Len(targets), Len(targets))
  PROVE  LET n == Len(targets)
             caps == [k \in 1 .. n |-> Takes(amount, targets)[order[k]]]
         IN  /\ caps \in Seq(Nat) /\ Len(caps) = n
             /\ \A k \in 0 .. n : Remaining(amount, targets, order)[k] = AtLeast0(amount - Sums(caps)[k])
<1> DEFINE n == Len(targets)
           caps == [k \in 1 .. n |-> Takes(amount, targets)[order[k]]]
           g == [k \in 0 .. n |-> AtLeast0(amount - Sums(caps)[k])]
           f == Remaining(amount, targets, order)
           Left(k, left) == left - (IF targets[order[k]].eligible = AL!NoAmount THEN left
                                    ELSE AL!Lesser(left, targets[order[k]].eligible))
<1>1. n \in Nat /\ order \in [1 .. n -> 1 .. n] /\ Len(order) = n
  BY DEF Arranges
<1>2. \A i \in 1 .. n : targets[i] \in Target
  OBVIOUS
<1>3. \A k \in 1 .. n : order[k] \in 1 .. n /\ targets[order[k]].eligible \in Nat \cup {NoAmount}
  BY <1>1, <1>2 DEF Target
<1>4. \A k \in 1 .. n : caps[k] = IF targets[order[k]].eligible = NoAmount THEN amount
                                   ELSE targets[order[k]].eligible
  BY <1>1, <1>3 DEF Takes
<1>5. caps \in [1 .. n -> Nat]
  BY <1>3, <1>4
<1> HIDE DEF caps
<1>6. caps \in Seq(Nat) /\ Len(caps) = n
  BY <1>1, <1>5
<1>7. /\ caps \in Seq(Int) /\ \A k \in 0 .. n : Sums(caps)[k] \in Nat
      /\ Sums(caps)[0] = 0 /\ \A k \in 1 .. n : Sums(caps)[k] = Sums(caps)[k - 1] + caps[k]
  BY <1>6, SumsGrow, RunningTotals
<1>8. ASSUME NEW k \in 1 .. n PROVE g[k] = Left(k, g[k - 1])
  <2>1. k \in 0 .. n /\ k - 1 \in 0 .. n
    BY <1>1
  <2>2. /\ Sums(caps)[k - 1] \in Nat /\ Sums(caps)[k] = Sums(caps)[k - 1] + caps[k] /\ caps[k] \in Nat
    BY <1>5, <1>7, <2>1
  <2>3. g[k] = AtLeast0(amount - Sums(caps)[k]) /\ g[k - 1] = AtLeast0(amount - Sums(caps)[k - 1])
    BY <2>1
  <2>4. CASE targets[order[k]].eligible = NoAmount
    <3>1. caps[k] = amount /\ Left(k, g[k - 1]) = g[k - 1] - g[k - 1]
      BY <1>4, <2>4 DEF AL!NoAmount, NoAmount
    <3> QED BY <2>2, <2>3, <3>1 DEF AtLeast0
  <2>5. CASE targets[order[k]].eligible # NoAmount
    <3>1. Left(k, g[k - 1]) = g[k - 1] - AL!Lesser(g[k - 1], caps[k])
      BY <1>4, <2>5 DEF AL!NoAmount, NoAmount
    <3> QED BY <2>2, <2>3, <3>1 DEF AtLeast0, AL!Lesser
  <2> QED BY <2>4, <2>5
<1>9. g[0] = amount
  BY <1>7 DEF AtLeast0
<1> DEFINE F(h) == [k \in 0 .. n |-> IF k = 0 THEN amount ELSE Left(k, h[k - 1])]
<1>10. g = F(g)
  <2>1. g = [k \in 0 .. n |-> g[k]]
    OBVIOUS
  <2>2. \A k \in 0 .. n : g[k] = IF k = 0 THEN amount ELSE Left(k, g[k - 1])
    <3> HIDE DEF g, Left
    <3> QED BY <1>1, <1>8, <1>9
  <2> HIDE DEF g, Left
  <2> QED BY <2>1, <2>2
<1>11. f = F(f)
  <2>1. f = CHOOSE h : h = F(h)
    BY <1>1 DEF Remaining
  <2> HIDE DEF F, f, g
  <2> QED BY <1>10, <2>1
<1> HIDE DEF f, g
<1>12. Alike(f, g, n)
  <2>1. f[0] = amount /\ \A k \in 1 .. n : f[k] = Left(k, f[k - 1])
    <3> HIDE DEF Left
    <3> QED BY <1>1, <1>11
  <2> HIDE DEF Left
  <2> QED BY <1>8, <1>9, <2>1 DEF Alike
<1>13. \A k \in 0 .. n : f[k] = g[k]
  <2> HIDE DEF n
  <2> QED BY <1>1, <1>12, GoAlike
<1>14. \A k \in 0 .. n : f[k] = AtLeast0(amount - Sums(caps)[k])
  BY <1>13 DEF g
<1> QED BY <1>6, <1>14 DEF f, caps

\* What serving the targets in any order gives them.
LEMMA Serving ==
  ASSUME NEW amount \in Nat, NEW targets \in Seq(Target), NEW order, Arranges(order, Len(targets), Len(targets))
  PROVE  LET n == Len(targets)
             r == AL!_allocate_sequential(amount, targets, order)
         IN  /\ r.order = order
             /\ \A i \in 1 .. n : targets[i].eligible # NoAmount => r.allocated[i] <= targets[i].eligible
             /\ r.total = IF \E i \in 1 .. n : targets[i].eligible = NoAmount THEN amount
                          ELSE Lesser(amount, SumOfSeq([i \in 1 .. n |-> targets[i].eligible]))
             /\ \A k \in 1 .. n - 1 : r.allocated[order[k + 1]] > 0 =>
                  r.allocated[order[k]] = targets[order[k]].eligible
<1> DEFINE n == Len(targets)
           r == AL!_allocate_sequential(amount, targets, order)
           f == Remaining(amount, targets, order)
           limits == Takes(amount, targets)
           caps == [k \in 1 .. n |-> limits[order[k]]]
           turn(i) == CHOOSE k \in 1 .. n : order[k] = i
           allocated == [i \in 1 .. n |-> f[turn(i) - 1] - f[turn(i)]]
<1>1. /\ n \in Nat /\ order \in [1 .. n -> 1 .. n] /\ Len(order) = n
      /\ \A i \in 1 .. n : \E k \in 1 .. n : order[k] = i
      /\ \A k, l \in 1 .. n : order[k] = order[l] => k = l
  BY DEF Arranges
<1>0. Arranges(order, n, n)
  OBVIOUS
<1>2. r = AL!AllocationResult(amount, order, allocated)
  BY <1>1 DEF AL!_allocate_sequential, AL!Targets, Remaining
<1>3. r.order = order /\ r.allocated = allocated /\ r.total = SumOfSeq(allocated)
  <2>1. AL!SumOfSeq(allocated) = SumOfSeq(allocated)
    BY AllocationSums
  <2> HIDE DEF allocated
  <2> QED BY <1>2, <2>1 DEF AL!AllocationResult
<1>4. /\ caps \in Seq(Nat) /\ Len(caps) = n
      /\ \A k \in 0 .. n : f[k] = AtLeast0(amount - Sums(caps)[k])
  BY RemainingIs
<1>5. \A i \in 1 .. n : targets[i].eligible \in Nat \cup {NoAmount}
  <2>1. \A i \in 1 .. n : targets[i] \in Target
    OBVIOUS
  <2> QED BY <2>1 DEF Target
<1>6. \A i \in 1 .. n : limits[i] = IF targets[i].eligible = NoAmount THEN amount ELSE targets[i].eligible
  BY DEF Takes
<1>7. limits \in [1 .. n -> Int]
  <2>1. DOMAIN limits = 1 .. n /\ limits = [i \in 1 .. n |-> limits[i]]
    BY DEF Takes
  <2> HIDE DEF limits
  <2> QED BY <1>5, <1>6, <2>1
<1>8. \A k \in 1 .. n : caps[k] = limits[order[k]]
  OBVIOUS
<1>9. SumOfSeq(caps) = SumOfSeq(limits)
  <2>1. caps = Taken(limits, order, n)
    BY DEF Taken
  <2> HIDE DEF limits, n, caps
  <2> QED BY <1>0, <1>1, <1>7, <2>1, SumArranged
<1> HIDE DEF caps, f, r, limits
<1>10. /\ \A k \in 0 .. n : Sums(caps)[k] \in Nat /\ f[k] \in Nat
       /\ Sums(caps)[0] = 0 /\ SumOfSeq(caps) = Sums(caps)[n]
       /\ \A k \in 1 .. n : Sums(caps)[k] = Sums(caps)[k - 1] + caps[k] /\ caps[k] \in Nat
                            /\ caps[k] <= Sums(caps)[n]
  <2>1. caps \in Seq(Int) /\ \A k \in 1 .. n : caps[k] \in Nat
    BY <1>4
  <2>2. /\ \A k \in 0 .. n : Sums(caps)[k] \in Nat
        /\ \A k \in 0 .. n : \A j \in 1 .. k : caps[j] <= Sums(caps)[k]
    BY <1>4, SumsGrow
  <2>3. /\ Sums(caps)[0] = 0 /\ SumOfSeq(caps) = Sums(caps)[n]
        /\ \A k \in 1 .. n : Sums(caps)[k] = Sums(caps)[k - 1] + caps[k]
    BY <1>4, <2>1, RunningTotals
  <2>4. ASSUME NEW k \in 0 .. n PROVE f[k] \in Nat
    <3>1. f[k] = AtLeast0(amount - Sums(caps)[k]) /\ Sums(caps)[k] \in Nat
      BY <1>4, <2>2
    <3> QED BY <3>1 DEF AtLeast0
  <2>5. \A k \in 1 .. n : caps[k] <= Sums(caps)[n]
    <3>1. n \in 0 .. n
      BY <1>1
    <3> QED BY <2>2, <3>1
  <2> QED BY <2>1, <2>2, <2>3, <2>4, <2>5
<1>11. \A i \in 1 .. n : turn(i) \in 1 .. n /\ order[turn(i)] = i
  BY <1>1
<1>12. \A k \in 1 .. n : turn(order[k]) = k
  BY <1>1, <1>11
<1>13. ASSUME NEW k \in 1 .. n
       PROVE  /\ allocated[order[k]] = f[k - 1] - f[k]
              /\ f[k - 1] - f[k] \in Nat /\ f[k - 1] - f[k] <= caps[k]
              /\ f[k - 1] \in Nat /\ f[k] \in Nat
              /\ f[k] > 0 => f[k - 1] - f[k] = caps[k] /\ caps[k] < amount
  <2>1. allocated[order[k]] = f[k - 1] - f[k]
    BY <1>1, <1>12
  <2>2. k - 1 \in 0 .. n /\ k \in 0 .. n
    BY <1>1
  <2>3. f[k] = AtLeast0(amount - Sums(caps)[k]) /\ f[k - 1] = AtLeast0(amount - Sums(caps)[k - 1])
    BY <1>4, <2>2
  <2>4. Sums(caps)[k] = Sums(caps)[k - 1] + caps[k] /\ caps[k] \in Nat /\ Sums(caps)[k - 1] \in Nat
    BY <1>10, <2>2
  <2> HIDE DEF allocated, turn
  <2> DEFINE c == caps[k]
             x == Sums(caps)[k - 1]
             before == f[k - 1]
             after == f[k]
  <2>5. /\ amount \in Nat /\ c \in Nat /\ x \in Nat
        /\ after = AtLeast0(amount - (x + c)) /\ before = AtLeast0(amount - x)
    BY <2>3, <2>4
  <2> HIDE DEF c, x, before, after
  <2>6. /\ before - after \in Nat /\ before - after <= c /\ before \in Nat /\ after \in Nat
        /\ after > 0 => before - after = c /\ c < amount
    BY <2>5 DEF AtLeast0
  <2> QED BY <2>1, <2>6 DEF c, before, after
<1>14. \A i \in 1 .. n : allocated[i] \in Nat
  BY <1>1, <1>13
<1>15. ASSUME NEW i \in 1 .. n, targets[i].eligible # NoAmount PROVE allocated[i] <= targets[i].eligible
  <2>1. PICK k \in 1 .. n : order[k] = i
    BY <1>1
  <2>2. caps[k] = targets[i].eligible
    BY <1>6, <1>8, <1>15, <2>1
  <2> HIDE DEF allocated, turn
  <2> QED BY <1>13, <2>1, <2>2
<1>16. ASSUME NEW k \in 1 .. n - 1, allocated[order[k + 1]] > 0
       PROVE  allocated[order[k]] = targets[order[k]].eligible
  <2>1. k \in 1 .. n /\ k + 1 \in 1 .. n /\ (k + 1) - 1 = k
    BY <1>1
  <2> HIDE DEF allocated, turn
  <2>2. allocated[order[k + 1]] = f[k] - f[k + 1] /\ f[k] \in Nat /\ f[k + 1] \in Nat
    BY <1>13, <2>1
  <2>3. f[k] > 0
    BY <1>16, <2>2
  <2>4. allocated[order[k]] = caps[k] /\ caps[k] < amount
    BY <1>13, <2>1, <2>3
  <2>5. order[k] \in 1 .. n /\ caps[k] = limits[order[k]]
    BY <1>1, <1>8, <2>1
  <2>6. targets[order[k]].eligible # NoAmount
    BY <1>6, <2>4, <2>5
  <2> QED BY <1>6, <2>4, <2>5, <2>6
<1>17. SumOfSeq(allocated) = amount - f[n]
  <2> DEFINE took == [k \in 1 .. n |-> allocated[order[k]]]
             g == [k \in 0 .. n |-> amount - f[k]]
  <2>1. allocated \in [1 .. n -> Int]
    <3>1. allocated = [i \in 1 .. n |-> allocated[i]]
      OBVIOUS
    <3> HIDE DEF allocated
    <3> QED BY <1>14, <3>1
  <2>2. SumOfSeq(took) = SumOfSeq(allocated)
    <3>1. took = Taken(allocated, order, n)
      BY DEF Taken
    <3> HIDE DEF allocated, turn, n, took
    <3> QED BY <1>0, <1>1, <2>1, <3>1, SumArranged
  <2>3. \A k \in 1 .. n : took[k] = f[k - 1] - f[k] /\ f[k] \in Nat /\ f[k - 1] \in Nat
    <3> HIDE DEF allocated, turn
    <3> QED BY <1>13
  <2>4. took \in [1 .. n -> Int]
    <3>1. took = [k \in 1 .. n |-> took[k]]
      OBVIOUS
    <3> HIDE DEF took
    <3> QED BY <2>3, <3>1
  <2>5. f[0] = amount
    BY <1>1, <1>4, <1>10 DEF AtLeast0
  <2>6. g[0] = 0 /\ g[n] = amount - f[n] /\ \A k \in 1 .. n : g[k] = g[k - 1] + took[k]
    <3>1. g[0] = 0 /\ g[n] = amount - f[n]
      BY <1>1, <2>5
    <3>2. ASSUME NEW k \in 1 .. n PROVE g[k] = g[k - 1] + took[k]
      <4>1. k \in 0 .. n /\ k - 1 \in 0 .. n
        BY <1>1
      <4>2. g[k] = amount - f[k] /\ g[k - 1] = amount - f[k - 1]
        BY <4>1
      <4> HIDE DEF g, took
      <4> QED BY <2>3, <4>2
    <3> QED BY <3>1, <3>2
  <2> HIDE DEF g, took
  <2>7. took \in Seq(Int) /\ Len(took) = n
    <3> HIDE DEF n
    <3> QED BY <1>1, <2>4
  <2>8. SumOfSeq(took) = g[n]
    BY <2>6, <2>7, SumIs
  <2> QED BY <2>2, <2>6, <2>8
<1>18. SumOfSeq(allocated) = Lesser(amount, SumOfSeq(limits))
  <2>1. f[n] = AtLeast0(amount - SumOfSeq(limits)) /\ SumOfSeq(limits) \in Nat
    BY <1>1, <1>4, <1>9, <1>10
  <2> HIDE DEF allocated, turn
  <2> QED BY <1>17, <2>1 DEF AtLeast0, Lesser
<1>19. SumOfSeq(allocated) = IF \E i \in 1 .. n : targets[i].eligible = NoAmount THEN amount
                          ELSE Lesser(amount, SumOfSeq([i \in 1 .. n |-> targets[i].eligible]))
  <2>1. CASE \E i \in 1 .. n : targets[i].eligible = NoAmount
    <3>1. PICK i \in 1 .. n : targets[i].eligible = NoAmount
      BY <2>1
    <3>2. PICK k \in 1 .. n : order[k] = i
      BY <1>1
    <3>3. amount <= SumOfSeq(limits) /\ SumOfSeq(limits) \in Nat
      <4>1. caps[k] = amount
        BY <1>6, <1>8, <3>1, <3>2
      <4>2. caps[k] <= Sums(caps)[n] /\ Sums(caps)[n] = SumOfSeq(limits) /\ n \in 0 .. n
        BY <1>1, <1>9, <1>10
      <4> QED BY <1>10, <4>1, <4>2
    <3> HIDE DEF allocated, turn
    <3> QED BY <1>18, <2>1, <3>3 DEF Lesser
  <2>2. CASE ~ \E i \in 1 .. n : targets[i].eligible = NoAmount
    <3>1. limits = [i \in 1 .. n |-> targets[i].eligible]
      BY <1>6, <1>7, <2>2
    <3> HIDE DEF allocated, turn
    <3> QED BY <1>18, <2>2, <3>1
  <2> QED BY <2>1, <2>2
<1> HIDE DEF allocated
<1> QED BY <1>3, <1>15, <1>16, <1>19 DEF r

\* The three orders serve every target once.
LEMMA ServedAll ==
  ASSUME NEW targets \in Seq(Target), NEW key \in [1 .. Len(targets) -> Int \X Int]
  PROVE  Arranges(AL!Sorted(AL!Targets(targets), Len(targets), key), Len(targets), Len(targets))
<1> DEFINE n == Len(targets)
           order == Sorted(1 .. n, n, key)
<1>1. n \in Nat
  OBVIOUS
<1>2. AL!Sorted(AL!Targets(targets), Len(targets), key) = order
  BY DEF AL!Sorted, AL!Precedes, AL!Targets, Sorted, Precedes
<1> HIDE DEF n, order
<1>3. PICK m \in 0 .. n : Arranges(order, m, n)
  <2>1. key \in [1 .. n -> Int \X Int]
    BY DEF n
  <2> QED BY <1>1, <2>1, SortedOrder DEF order
<1>4. m = n
  BY <1>1, <1>3, ArrangedLength
<1> QED BY <1>2, <1>3, <1>4 DEF n

LEMMA SequentialOrder ==
  ASSUME NEW amount \in Nat, NEW targets \in Seq(Target)
  PROVE  \A r \in {AL!_allocate_fifo(amount, targets), AL!_allocate_lifo(amount, targets),
                    AL!_allocate_specific(amount, targets)} :
           \E order : /\ Arranges(order, Len(targets), Len(targets))
                      /\ r = AL!_allocate_sequential(amount, targets, order)
<1> DEFINE n == Len(targets)
           latest(t) == IF t.date = 0 THEN 1000 ELSE t.date
           fifo == [i \in AL!Targets(targets) |-> <<targets[i].date, targets[i].priority>>]
           lifo == [i \in AL!Targets(targets) |-> <<-latest(targets[i]), targets[i].priority>>]
           specific == [i \in AL!Targets(targets) |-> <<targets[i].priority, 0>>]
<1>1. \A i \in 1 .. n : targets[i].date \in Int /\ targets[i].priority \in Int
  <2>1. \A i \in 1 .. n : targets[i] \in Target
    OBVIOUS
  <2> QED BY <2>1 DEF Target
<1>2. /\ fifo \in [1 .. n -> Int \X Int] /\ lifo \in [1 .. n -> Int \X Int]
      /\ specific \in [1 .. n -> Int \X Int]
  BY <1>1 DEF AL!Targets
<1>3. /\ AL!_allocate_fifo(amount, targets) =
           AL!_allocate_sequential(amount, targets, AL!Sorted(AL!Targets(targets), Len(targets), fifo))
      /\ AL!_allocate_lifo(amount, targets) =
           AL!_allocate_sequential(amount, targets, AL!Sorted(AL!Targets(targets), Len(targets), lifo))
      /\ AL!_allocate_specific(amount, targets) =
           AL!_allocate_sequential(amount, targets, AL!Sorted(AL!Targets(targets), Len(targets), specific))
  BY DEF AL!_allocate_fifo, AL!_allocate_lifo, AL!_allocate_specific
<1> HIDE DEF fifo, lifo, specific
<1> QED BY <1>2, <1>3, ServedAll

\* Division with remainder.
LEMMA Division ==
  ASSUME NEW x \in Int, NEW d \in Nat, d > 0
  PROVE  /\ x \div d \in Int /\ x % d \in Int
         /\ d * (x \div d) <= x /\ x < d * (x \div d) + d
         /\ x % d = x - d * (x \div d)
OBVIOUS

\* A share is within half a cent of its exact part.
Near(q, a, p, d, slack) == 2 * AbsOf(q * d - a * p) <= slack * d
LEMMA RoundNear ==
  ASSUME NEW n \in Nat, NEW d \in Nat, d > 0
  PROVE  /\ AL!RoundHalfUp(n, d) \in Int
         /\ 2 * (AL!RoundHalfUp(n, d) * d) <= 2 * n + d
         /\ 2 * n <= 2 * (AL!RoundHalfUp(n, d) * d) + d
<1> DEFINE q == (2 * n + d) \div (2 * d)
<1>1. AL!RoundHalfUp(n, d) = q
  BY DEF AL!RoundHalfUp
<1>2. 2 * n + d \in Int /\ 2 * d \in Nat /\ 2 * d > 0
  OBVIOUS
<1>3. q \in Int /\ (2 * d) * q <= 2 * n + d /\ 2 * n + d < (2 * d) * q + 2 * d
  BY <1>2, Division
<1> HIDE DEF q
<1>4. (2 * d) * q = 2 * (q * d) /\ q * d \in Int
  BY <1>3
<1> QED BY <1>1, <1>3, <1>4
LEMMA ShareNear ==
  ASSUME NEW a \in Nat, NEW p \in Nat, NEW d \in Nat, d > 0, NEW up
  PROVE  /\ AL!QuantizedShare(a, p, d, up) \in Int
         /\ Near(AL!QuantizedShare(a, p, d, up), a, p, d, 1)
<1> DEFINE q == AL!QuantizedShare(a, p, d, up)
           n == a * p
           half == (n \div d)
<1>1. n \in Nat
  OBVIOUS
<1>2. q = half \/ q = AL!RoundHalfUp(n, d)
  BY DEF AL!QuantizedShare
<1>3. q = half /\ q # AL!RoundHalfUp(n, d) => (2 * a * p) % d = 0 /\ ((2 * a * p) \div d) % 2 = 1
  BY DEF AL!QuantizedShare
<1> HIDE DEF q
<1>4. CASE q = AL!RoundHalfUp(n, d)
  <2> HIDE DEF n
  <2>1. q \in Int /\ 2 * (q * d) <= 2 * n + d /\ 2 * n <= 2 * (q * d) + d
    BY <1>1, <1>4, RoundNear
  <2>2. q * d \in Int
    BY <2>1
  <2>3. 2 * AbsOf(q * d - n) <= 1 * d
    BY <1>1, <2>1, <2>2 DEF AbsOf
  <2> QED BY <2>1, <2>3 DEF Near, n, q
<1>5. CASE q = half /\ q # AL!RoundHalfUp(n, d)
  <2> DEFINE t == (2 * a * p) \div d
  <2>0. 2 * a * p = 2 * n
    OBVIOUS
  <2>1. 2 * a * p \in Int /\ (2 * a * p) % d = 0
    BY <1>3, <1>5
  <2>2. t \in Int /\ 2 * n = d * t
    BY <2>0, <2>1, Division
  <2>3. t % 2 = 1
    BY <1>3, <1>5
  <2> HIDE DEF t, half, n
  <2>4. PICK h \in Int : t = 2 * h + 1
    BY <2>2, <2>3
  <2>5. d * t = 2 * (d * h) + d /\ d * h \in Int
    BY <2>4
  <2>6. q \in Int /\ d * q <= n /\ n < d * q + d
    BY <1>1, <1>5, Division DEF half
  <2>7. d * q = q * d /\ q * d \in Int
    BY <2>6
  <2>8. q = h
    BY <1>1, <2>2, <2>4, <2>5, <2>6
  <2>9. 2 * AbsOf(q * d - n) <= 1 * d
    BY <1>1, <2>2, <2>5, <2>7, <2>8 DEF AbsOf
  <2> QED BY <2>6, <2>9 DEF Near, n, q
<1> QED BY <1>2, <1>4, <1>5

LEMMA NearAdds ==
  ASSUME NEW q \in Int, NEW r \in Int, NEW u \in Int, NEW v \in Int, NEW a \in Int, NEW d \in Int,
         NEW k \in Int, NEW l \in Int, Near(q, a, u, d, k), Near(r, a, v, d, l)
  PROVE  Near(q + r, a, u + v, d, k + l)
<1> DEFINE x == q * d - a * u
           y == r * d - a * v
<1>1. x \in Int /\ y \in Int /\ k * d \in Int /\ l * d \in Int
  OBVIOUS
<1>2. (q + r) * d - a * (u + v) = x + y
  OBVIOUS
<1>3. (k + l) * d = k * d + l * d
  OBVIOUS
<1>4. 2 * AbsOf(x) <= k * d /\ 2 * AbsOf(y) <= l * d
  BY DEF Near
<1> HIDE DEF x, y
<1>5. 2 * AbsOf(x + y) <= k * d + l * d
  BY <1>1, <1>4 DEF AbsOf
<1> QED BY <1>2, <1>3, <1>5 DEF Near

\* What rounding does to the shares so far, in half cents.
LEMMA SharesNear ==
  ASSUME NEW a \in Nat, NEW p \in Seq(Nat), NEW s \in Seq(Int), Len(s) = Len(p), NEW d \in Nat, d > 0,
         NEW m \in 0 .. Len(p), \A k \in 1 .. m : Near(s[k], a, p[k], d, 1)
  PROVE  Near(Sums(s)[m], a, Sums(p)[m], d, m)
<1>0. Len(p) \in Nat /\ \A k \in 1 .. Len(p) : p[k] \in Nat /\ s[k] \in Int
  OBVIOUS
<1>1. p \in Seq(Int)
  OBVIOUS
<1> DEFINE S(k) == Sums(s)[k]
           T(k) == Sums(p)[k]
           P(k) == k <= m => Near(S(k), a, T(k), d, k)
           Q == {k \in Nat : P(k)}
<1>2. /\ \A k \in 0 .. Len(p) : S(k) \in Int /\ T(k) \in Int
      /\ S(0) = 0 /\ T(0) = 0
      /\ \A k \in 1 .. Len(p) : S(k) = S(k - 1) + s[k] /\ T(k) = T(k - 1) + p[k]
  BY <1>1, RunningTotals
<1> HIDE DEF S, T
<1>3. P(0)
  BY <1>2 DEF Near, AbsOf
<1>4. ASSUME NEW k \in Nat, P(k) PROVE P(k + 1)
  <2> SUFFICES ASSUME k + 1 <= m PROVE Near(S(k + 1), a, T(k + 1), d, k + 1)
    OBVIOUS
  <2>1. k + 1 \in 1 .. Len(p) /\ k \in 0 .. Len(p) /\ k + 1 \in 1 .. m /\ (k + 1) - 1 = k /\ k <= m
    BY <1>0
  <2>2. S(k) \in Int /\ T(k) \in Int /\ s[k + 1] \in Int /\ p[k + 1] \in Int
    BY <1>0, <1>2, <2>1
  <2>3. S(k + 1) = S(k) + s[k + 1] /\ T(k + 1) = T(k) + p[k + 1]
    BY <1>2, <2>1
  <2>4. Near(S(k), a, T(k), d, k) /\ Near(s[k + 1], a, p[k + 1], d, 1)
    BY <1>4, <2>1
  <2>5. a \in Int /\ d \in Int /\ k \in Int /\ 1 \in Int
    OBVIOUS
  <2>6. Near(S(k) + s[k + 1], a, T(k) + p[k + 1], d, k + 1)
    BY <2>2, <2>4, <2>5, NearAdds, Zenon
  <2> QED BY <2>3, <2>6, Zenon
<1>5. m \in Q
  <2>1. 0 \in Q /\ \A k \in Nat : k \in Q => k + 1 \in Q
    <3> HIDE DEF P
    <3> QED BY <1>3, <1>4
  <2>2. m \in Nat
    BY <1>0
  <2> HIDE DEF Q
  <2> QED BY <2>1, <2>2, Induction
<1> QED BY <1>5 DEF S, T

\* What allocating by ratio gives the targets, before anything is known of the shares.
Capped(target, x) == IF target.eligible = NoAmount THEN x ELSE Lesser(x, target.eligible)
Rations(amount, targets, share, round, r) ==
  LET n == Len(targets)
  IN  /\ share \in Seq(Int) /\ Len(share) = n
      /\ \A i \in 1 .. n : Sums(share)[i - 1] \in Int
      /\ r.allocated \in [1 .. n -> Int]
      /\ \A i \in 1 .. n : targets[i].eligible # NoAmount => r.allocated[i] <= targets[i].eligible
      /\ r.total = SumOfSeq(r.allocated) /\ r.unallocated = amount - r.total
      /\ \A i \in 1 .. n : r.allocated[i] =
           Capped(targets[i], IF i = round THEN amount - Sums(share)[i - 1] ELSE share[i])
LEMMA Rationed ==
  ASSUME NEW amount \in Nat, NEW targets \in Seq(Target), targets # <<>>,
         NEW share \in [1 .. Len(targets) -> Int], NEW round
  PROVE  Rations(amount, targets, share, round, AL!RatioAllocation(amount, targets, share, round))
<1> DEFINE n == Len(targets)
           r == AL!RatioAllocation(amount, targets, share, round)
           raw(i) == IF i = round THEN amount - AL!SumOfSeq(SubSeq(share, 1, i - 1)) ELSE share[i]
           capped(i) == IF targets[i].eligible = AL!NoAmount THEN raw(i)
                        ELSE AL!Lesser(raw(i), targets[i].eligible)
           allocated == [i \in 1 .. n |-> capped(i)]
<1>1. n \in Nat /\ n > 0
  OBVIOUS
<1>2. share \in Seq(Int) /\ Len(share) = n
  <2> HIDE DEF n
  <2>1. share \in [1 .. n -> Int]
    BY DEF n
  <2> QED BY <1>1, <2>1
<1>3. /\ \A k \in 0 .. n : Sums(share)[k] \in Int
      /\ Sums(share)[0] = 0 /\ \A k \in 1 .. n : Sums(share)[k] = Sums(share)[k - 1] + share[k]
  <2> HIDE DEF n
  <2> QED BY <1>2, RunningTotals
<1>4. ASSUME NEW i \in 1 .. n PROVE AL!SumOfSeq(SubSeq(share, 1, i - 1)) = Sums(share)[i - 1]
  <2> DEFINE part == SubSeq(share, 1, i - 1)
             f == Sums(share)
  <2>1. part \in Seq(Int) /\ Len(part) = i - 1 /\ \A k \in 1 .. i - 1 : part[k] = share[k]
    <3> HIDE DEF n
    <3> QED BY <1>1, <1>2
  <2>2. f[0] = 0 /\ \A k \in 1 .. Len(part) : f[k] = f[k - 1] + part[k]
    <3> HIDE DEF part, n
    <3> QED BY <1>1, <1>3, <2>1
  <2> HIDE DEF part, f
  <2>3. SumOfSeq(part) = f[i - 1]
    BY <2>1, <2>2, SumIs
  <2> QED BY <2>3, AllocationSums DEF part, f
<1>5. \A i \in 1 .. n : raw(i) \in Int
  <2> SUFFICES ASSUME NEW i \in 1 .. n PROVE raw(i) \in Int
    OBVIOUS
  <2>1. share[i] \in Int /\ Sums(share)[i - 1] \in Int
    BY <1>1, <1>3
  <2> QED BY <1>4, <2>1
<1>6. \A i \in 1 .. n : targets[i].eligible \in Nat \cup {NoAmount}
  <2>1. \A i \in 1 .. n : targets[i] \in Target
    OBVIOUS
  <2> QED BY <2>1 DEF Target
<1>7. r = AL!AllocationResult(amount, [i \in 1 .. n |-> i], allocated)
  BY DEF AL!RatioAllocation, AL!Targets
<1>8. \A i \in 1 .. n : allocated[i] = Capped(targets[i], raw(i))
  <2> HIDE DEF raw
  <2> QED BY DEF AL!Lesser, Lesser, AL!NoAmount, NoAmount, Capped
<1>9. \A i \in 1 .. n : allocated[i] \in Int /\ (targets[i].eligible # NoAmount => allocated[i] <= targets[i].eligible)
  <2> HIDE DEF raw, allocated
  <2> QED BY <1>5, <1>6, <1>8 DEF Lesser, Capped
<1>10. allocated \in [1 .. n -> Int]
  <2>1. allocated = [i \in 1 .. n |-> allocated[i]]
    OBVIOUS
  <2> HIDE DEF allocated
  <2> QED BY <1>9, <2>1
<1>11. r.allocated = allocated /\ r.total = SumOfSeq(allocated) /\ r.unallocated = amount - r.total
  <2>1. AL!SumOfSeq(allocated) = SumOfSeq(allocated)
    BY AllocationSums
  <2> HIDE DEF allocated
  <2> QED BY <1>7, <2>1 DEF AL!AllocationResult
<1>12. \A i \in 1 .. n : Sums(share)[i - 1] \in Int
  BY <1>1, <1>3
<1>13. \A i \in 1 .. n : raw(i) = IF i = round THEN amount - Sums(share)[i - 1] ELSE share[i]
  BY <1>4
<1> HIDE DEF raw, allocated, r
<1>14. \A i \in 1 .. n : r.allocated[i] =
         Capped(targets[i], IF i = round THEN amount - Sums(share)[i - 1] ELSE share[i])
  BY <1>8, <1>11, <1>13
<1> QED BY <1>1, <1>2, <1>9, <1>10, <1>11, <1>12, <1>14 DEF r, Rations

\* The shares ahead of the rounding target m, and what it gets.
LEMMA UpToRounding ==
  ASSUME NEW n \in Nat, NEW m \in 1 .. n, NEW s \in Seq(Int), Len(s) = n, NEW t \in [1 .. n -> Int],
         \A i \in 1 .. m - 1 : t[i] = s[i]
  PROVE  SumOfSeq(t) - SumOfSeq(SubSeq(t, m + 1, n)) = Sums(s)[m - 1] + t[m]
<1>1. t \in Seq(Int) /\ Len(t) = n
  OBVIOUS
<1>2. /\ Sums(t)[0] = 0 /\ \A k \in 1 .. n : Sums(t)[k] = Sums(t)[k - 1] + t[k]
      /\ SumOfSeq(t) = Sums(t)[n] /\ \A k \in 0 .. n : Sums(t)[k] \in Int
  BY <1>1, RunningTotals
<1>3. /\ Sums(s)[0] = 0 /\ \A k \in 1 .. n : Sums(s)[k] = Sums(s)[k - 1] + s[k]
      /\ \A k \in 0 .. n : Sums(s)[k] \in Int
  BY RunningTotals
<1>4. Sums(t)[m - 1] = Sums(s)[m - 1]
  <2> DEFINE part == SubSeq(t, 1, m - 1)
             f == Sums(t)
             g == Sums(s)
  <2>1. part \in Seq(Int) /\ Len(part) = m - 1 /\ \A k \in 1 .. m - 1 : part[k] = t[k] /\ part[k] = s[k]
    BY <1>1
  <2>2. /\ f[0] = 0 /\ \A k \in 1 .. Len(part) : f[k] = f[k - 1] + part[k]
        /\ g[0] = 0 /\ \A k \in 1 .. Len(part) : g[k] = g[k - 1] + part[k]
    <3>1. \A k \in 1 .. Len(part) : k \in 1 .. n /\ part[k] = t[k] /\ part[k] = s[k]
      <4> HIDE DEF part
      <4> QED BY <2>1
    <3> HIDE DEF part
    <3>2. f[0] = 0 /\ \A k \in 1 .. Len(part) : f[k] = f[k - 1] + part[k]
      BY <1>2, <3>1
    <3>3. g[0] = 0 /\ \A k \in 1 .. Len(part) : g[k] = g[k - 1] + part[k]
      BY <1>3, <3>1
    <3> QED BY <3>2, <3>3
  <2> HIDE DEF part, f, g
  <2>3. SumOfSeq(part) = f[m - 1] /\ SumOfSeq(part) = g[m - 1]
    BY <2>1, <2>2, SumIs
  <2> QED BY <2>3 DEF f, g
<1>5. SumOfSeq(SubSeq(t, m + 1, n)) = Sums(t)[n] - Sums(t)[m]
  <2> DEFINE part == SubSeq(t, m + 1, n)
             f == [k \in 0 .. n - m |-> Sums(t)[m + k] - Sums(t)[m]]
  <2>1. part \in Seq(Int) /\ Len(part) = n - m /\ \A k \in 1 .. n - m : part[k] = t[m + k]
    BY <1>1
  <2>2. f[0] = 0 /\ f[n - m] = Sums(t)[n] - Sums(t)[m]
    BY <1>2
  <2>3. ASSUME NEW k \in 1 .. n - m PROVE f[k] = f[k - 1] + part[k]
    <3>1. m + k \in 1 .. n /\ (m + k) - 1 = m + (k - 1) /\ k - 1 \in 0 .. n - m /\ m + (k - 1) \in 0 .. n
      OBVIOUS
    <3>2. Sums(t)[m + k] = Sums(t)[m + (k - 1)] + t[m + k]
      BY <1>2, <3>1
    <3>3. f[k] = Sums(t)[m + k] - Sums(t)[m] /\ f[k - 1] = Sums(t)[m + (k - 1)] - Sums(t)[m]
      BY <3>1
    <3>4. part[k] = t[m + k] /\ t[m + k] \in Int /\ Sums(t)[m + (k - 1)] \in Int /\ Sums(t)[m] \in Int
      BY <1>2, <2>1, <3>1
    <3> DEFINE x == Sums(t)[m + (k - 1)]
               y == Sums(t)[m]
               z == t[m + k]
    <3>5. f[k] = (x + z) - y /\ f[k - 1] = x - y /\ part[k] = z /\ x \in Int /\ y \in Int /\ z \in Int
      <4> HIDE DEF f, part
      <4> QED BY <3>2, <3>3, <3>4
    <3> HIDE DEF f, part, x, y, z
    <3> QED BY <3>5
  <2> HIDE DEF part, f
  <2>4. SumOfSeq(part) = f[n - m]
    BY <2>1, <2>2, <2>3, SumIs
  <2> QED BY <2>2, <2>4 DEF part
<1>6. Sums(t)[m] = Sums(t)[m - 1] + t[m] /\ Sums(t)[m] \in Int /\ Sums(t)[n] \in Int
  BY <1>2
<1> QED BY <1>2, <1>4, <1>5, <1>6

\* What is left for the last target is near its part, too.
LEMMA RestNear ==
  ASSUME NEW a \in Int, NEW d \in Int, NEW u \in Int, NEW p \in Int, d = u + p, NEW q \in Int, NEW k \in Int,
         Near(q, a, u, d, k)
  PROVE  Near(a - q, a, p, d, k)
<1> DEFINE x == q * d - a * u
<1>1. x \in Int /\ k * d \in Int
  OBVIOUS
<1>2. (a - q) * d - a * p = -x
  OBVIOUS
<1>3. 2 * AbsOf(x) <= k * d
  BY DEF Near
<1> HIDE DEF x
<1>4. 2 * AbsOf(-x) <= k * d
  BY <1>1, <1>3 DEF AbsOf
<1> QED BY <1>2, <1>4 DEF Near

\* A share near part p of an amount within the total passes p by no more than its slack.
LEMMA NearWithin ==
  ASSUME NEW a \in Nat, NEW d \in Nat, d > 0, a <= d, NEW p \in Nat, NEW q \in Int, NEW k \in Nat,
         Near(q, a, p, d, k)
  PROVE  2 * (q - p) <= k
<1>1. q * d \in Int /\ a * p \in Int /\ d * p \in Int /\ k * d \in Int
  OBVIOUS
<1>2. a * p <= d * p
  OBVIOUS
<1>3. 2 * (q * d - a * p) <= k * d
  <2>1. 2 * AbsOf(q * d - a * p) <= k * d
    BY DEF Near
  <2> QED BY <1>1, <2>1 DEF AbsOf
<1>4. 2 * (q * d - d * p) <= k * d
  BY <1>1, <1>2, <1>3
<1>5. 2 * (q * d - d * p) = (2 * (q - p)) * d
  OBVIOUS
<1>6. (2 * (q - p)) * d <= k * d
  BY <1>4, <1>5
<1> DEFINE x == 2 * (q - p)
<1>7. x \in Int /\ x * d <= k * d
  BY <1>6
<1> HIDE DEF x
<1>8. x <= k
  BY <1>7
<1> QED BY <1>8 DEF x

LEMMA ByRatio ==
  ASSUME NEW amount \in Nat, NEW targets \in Seq(Target), targets # <<>>,
         NEW ratio \in Seq(Nat), Len(ratio) = Len(targets), SumOfSeq(ratio) > 0, NEW index,
         NEW r \in AL!_allocate_by_ratio(amount, targets, ratio, SumOfSeq(ratio), index)
  PROVE  LET n == Len(targets)
             of == SumOfSeq(ratio)
             round == IF index = NoAmount THEN n ELSE index
             given == r.total - SumOfSeq(SubSeq(r.allocated, round + 1, n))
         IN  /\ \A i \in 1 .. n : targets[i].eligible # NoAmount => r.allocated[i] <= targets[i].eligible
             /\ (round \in 1 .. n /\ \A i \in 1 .. n : targets[i].eligible = NoAmount) =>
                  /\ given = amount
                  /\ \A i \in 1 .. n : i # round => Near(r.allocated[i], amount, ratio[i], of, 1)
                  /\ round = n => Near(r.allocated[n], amount, ratio[n], of, n - 1)
             /\ (round \in 1 .. n /\ amount <= of /\ \A i \in 1 .. n : targets[i].eligible = ratio[i]) =>
                  /\ given <= amount /\ (given = amount \/ r.allocated[round] = ratio[round])
                  /\ round = n => 2 * r.unallocated <= n - 1
<1> DEFINE n == Len(targets)
           of == SumOfSeq(ratio)
           round == IF index = NoAmount THEN n ELSE index
           given == r.total - SumOfSeq(SubSeq(r.allocated, round + 1, n))
           share(up) == [i \in 1 .. n |-> AL!QuantizedShare(amount, ratio[i], of, up[i])]
<1>1. n \in Nat /\ n > 0 /\ \A i \in 1 .. n : ratio[i] \in Nat
  OBVIOUS
<1>2. of \in Nat /\ of > 0
  BY SumsGrow
<1>3. PICK up \in [1 .. n -> BOOLEAN] : r = AL!RatioAllocation(amount, targets, share(up), round)
  BY DEF AL!_allocate_by_ratio, AL!NoAmount, NoAmount
<1> DEFINE s == share(up)
           rest == amount - Sums(s)[n - 1]
<1>4. \A i \in 1 .. n : s[i] \in Int /\ Near(s[i], amount, ratio[i], of, 1)
  <2> SUFFICES ASSUME NEW i \in 1 .. n PROVE s[i] \in Int /\ Near(s[i], amount, ratio[i], of, 1)
    OBVIOUS
  <2>1. s[i] = AL!QuantizedShare(amount, ratio[i], of, up[i])
    OBVIOUS
  <2>2. ratio[i] \in Nat
    BY <1>1
  <2> HIDE DEF s, of
  <2> QED BY <1>2, <2>1, <2>2, ShareNear
<1>5. s \in [1 .. n -> Int]
  <2>1. s = [i \in 1 .. n |-> s[i]]
    OBVIOUS
  <2> HIDE DEF s
  <2> QED BY <1>4, <2>1
<1>6. r = AL!RatioAllocation(amount, targets, s, round)
  BY <1>3
<1> HIDE DEF s
<1>7. /\ s \in Seq(Int) /\ Len(s) = n
      /\ \A i \in 1 .. n : Sums(s)[i - 1] \in Int
      /\ r.allocated \in [1 .. n -> Int]
      /\ \A i \in 1 .. n : targets[i].eligible # NoAmount => r.allocated[i] <= targets[i].eligible
      /\ r.total = SumOfSeq(r.allocated) /\ r.unallocated = amount - r.total
      /\ \A i \in 1 .. n : r.allocated[i] =
           Capped(targets[i], IF i = round THEN amount - Sums(s)[i - 1] ELSE s[i])
  <2> HIDE DEF round
  <2>1. Rations(amount, targets, s, round, r)
    BY <1>5, <1>6, Rationed
  <2> QED BY <2>1 DEF Rations
<1>r. rest \in Int /\ Sums(s)[n - 1] \in Int
  BY <1>1, <1>7
<1>8. Near(rest, amount, ratio[n], of, n - 1)
  <2> DEFINE u == Sums(ratio)[n - 1]
             q == Sums(s)[n - 1]
  <2>1. u \in Int /\ of = u + ratio[n] /\ ratio[n] \in Int
    <3>1. ratio \in Seq(Int) /\ n \in 1 .. n /\ n - 1 \in 0 .. n
      BY <1>1
    <3>2. /\ \A k \in 0 .. n : Sums(ratio)[k] \in Int
          /\ \A k \in 1 .. n : Sums(ratio)[k] = Sums(ratio)[k - 1] + ratio[k]
          /\ SumOfSeq(ratio) = Sums(ratio)[n]
      <4> HIDE DEF n
      <4>1. Len(ratio) = n
        BY DEF n
      <4> QED BY <3>1, <4>1, RunningTotals
    <3> QED BY <1>1, <3>1, <3>2
  <2>2. Near(q, amount, u, of, n - 1)
    <3>1. n - 1 \in 0 .. Len(ratio) /\ Len(s) = Len(ratio) /\ \A k \in 1 .. n - 1 : Near(s[k], amount, ratio[k], of, 1)
      BY <1>1, <1>4, <1>7
    <3> HIDE DEF n, of
    <3> QED BY <1>2, <1>7, <3>1, SharesNear
  <2>3. q \in Int /\ amount \in Int /\ of \in Int /\ n - 1 \in Int
    BY <1>1, <1>2, <1>7, <1>r
  <2> HIDE DEF u, q, n, of
  <2>4. Near(amount - q, amount, ratio[n], of, n - 1)
    BY <2>1, <2>2, <2>3, RestNear, Zenon
  <2> QED BY <2>4 DEF q
<1> HIDE DEF of
\* When no cap cuts the shares ahead of the rounding target.
<1>11. ASSUME round \in 1 .. n, \A i \in 1 .. n : i # round => r.allocated[i] = s[i]
       PROVE  given = Sums(s)[round - 1] + r.allocated[round] /\ Sums(s)[round - 1] \in Int
  <2> DEFINE t == r.allocated
  <2>1. t \in [1 .. n -> Int] /\ \A i \in 1 .. round - 1 : t[i] = s[i]
    <3> HIDE DEF round, n
    <3>1. \A i \in 1 .. round - 1 : i \in 1 .. n /\ i # round
      BY <1>1, <1>11
    <3> QED BY <1>7, <1>11, <3>1
  <2>2. Sums(s)[round - 1] \in Int /\ round \in 1 .. n /\ n \in Nat
    BY <1>1, <1>7, <1>11
  <2> HIDE DEF t, n, round
  <2>3. SumOfSeq(t) - SumOfSeq(SubSeq(t, round + 1, n)) = Sums(s)[round - 1] + t[round]
    BY <1>7, <2>1, <2>2, UpToRounding
  <2> QED BY <1>7, <2>2, <2>3 DEF t
<1>9. ASSUME round \in 1 .. n, \A i \in 1 .. n : targets[i].eligible = NoAmount
      PROVE  /\ given = amount
             /\ \A i \in 1 .. n : i # round => Near(r.allocated[i], amount, ratio[i], of, 1)
             /\ round = n => Near(r.allocated[n], amount, ratio[n], of, n - 1)
  <2>1. /\ \A i \in 1 .. n : i # round => r.allocated[i] = s[i]
        /\ r.allocated[round] = amount - Sums(s)[round - 1]
    BY <1>7, <1>9 DEF Capped
  <2>2. given = Sums(s)[round - 1] + r.allocated[round] /\ Sums(s)[round - 1] \in Int
    <3> HIDE DEF given, round, n
    <3> QED BY <1>9, <1>11, <2>1
  <2>3. given = amount
    <3> HIDE DEF given
    <3> QED BY <2>1, <2>2
  <2>4. \A i \in 1 .. n : i # round => Near(r.allocated[i], amount, ratio[i], of, 1)
    <3> HIDE DEF n, round
    <3> QED BY <1>4, <2>1
  <2>5. ASSUME round = n PROVE Near(r.allocated[n], amount, ratio[n], of, n - 1)
    <3>1. r.allocated[n] = rest
      BY <2>1, <2>5
    <3> HIDE DEF n, rest
    <3> QED BY <1>8, <3>1
  <2> HIDE DEF given, n, round
  <2> QED BY <2>3, <2>4, <2>5
<1>10. ASSUME round \in 1 .. n, amount <= of, \A i \in 1 .. n : targets[i].eligible = ratio[i]
       PROVE  /\ given <= amount /\ (given = amount \/ r.allocated[round] = ratio[round])
              /\ round = n => 2 * r.unallocated <= n - 1
  <2> DEFINE left == amount - Sums(s)[round - 1]
  <2>1. \A i \in 1 .. n : targets[i].eligible = ratio[i] /\ ratio[i] \in Nat /\ ratio[i] # NoAmount
    BY <1>1, <1>10 DEF NoAmount
  <2>2. \A i \in 1 .. n : s[i] <= ratio[i]
    <3> SUFFICES ASSUME NEW i \in 1 .. n PROVE s[i] <= ratio[i]
      OBVIOUS
    <3>1. s[i] \in Int /\ ratio[i] \in Nat
      BY <1>1, <1>4
    <3>2. 2 * (s[i] - ratio[i]) <= 1
      BY <1>2, <1>4, <1>10, <3>1, NearWithin
    <3> QED BY <3>1, <3>2
  <2>3. \A i \in 1 .. n : i # round => r.allocated[i] = s[i]
    <3> SUFFICES ASSUME NEW i \in 1 .. n, i # round PROVE r.allocated[i] = s[i]
      OBVIOUS
    <3>1. r.allocated[i] = Lesser(s[i], ratio[i])
      BY <1>7, <2>1 DEF Capped
    <3> QED BY <1>4, <2>1, <2>2, <3>1 DEF Lesser
  <2>4. r.allocated[round] = Lesser(left, ratio[round]) /\ ratio[round] \in Nat
    BY <1>7, <1>10, <2>1 DEF Capped
  <2>5. given = Sums(s)[round - 1] + r.allocated[round] /\ Sums(s)[round - 1] \in Int
    <3> HIDE DEF given, round, n
    <3> QED BY <1>10, <1>11, <2>3
  <2>6. given <= amount /\ (given = amount \/ r.allocated[round] = ratio[round])
    <3> HIDE DEF given, round
    <3> QED BY <2>4, <2>5 DEF Lesser
  <2>7. ASSUME round = n PROVE 2 * r.unallocated <= n - 1
    <3>1. SubSeq(r.allocated, n + 1, n) \in Seq(Int) /\ Len(SubSeq(r.allocated, n + 1, n)) = 0
      <4>1. r.allocated \in Seq(Int) /\ Len(r.allocated) = n
        <5> HIDE DEF n
        <5> QED BY <1>1, <1>7
      <4> HIDE DEF n
      <4> QED BY <1>1, <4>1
    <3>2. SumOfSeq(SubSeq(r.allocated, n + 1, n)) = 0
      <4> DEFINE part == SubSeq(r.allocated, n + 1, n)
      <4> HIDE DEF part
      <4>1. part \in Seq(Int) /\ \A k \in 1 .. Len(part) : part[k] = 0
        BY <3>1 DEF part
      <4>2. SumOfSeq(part) = 0
        BY <4>1, SumOfNone
      <4> QED BY <4>2 DEF part
    <3>3. left = rest /\ ratio[n] \in Nat /\ r.allocated[n] = Lesser(rest, ratio[n])
      BY <2>4, <2>7
    <3>4. r.total \in Int
      <4>1. r.allocated \in Seq(Int)
        <5> HIDE DEF n
        <5> QED BY <1>1, <1>7
      <4> QED BY <1>7, <4>1, RunningTotals
    <3>5. r.total = Sums(s)[n - 1] + r.allocated[n]
      <4>1. given = r.total - SumOfSeq(SubSeq(r.allocated, n + 1, n))
        BY <2>7
      <4> HIDE DEF given, n
      <4> QED BY <2>5, <2>7, <3>2, <3>4, <4>1
    <3>6. r.unallocated = rest - Lesser(rest, ratio[n])
      <4>1. r.unallocated = amount - r.total /\ rest = amount - Sums(s)[n - 1] /\ Sums(s)[n - 1] \in Int
        BY <1>7, <1>r
      <4> HIDE DEF rest, n
      <4> QED BY <3>3, <3>5, <4>1 DEF Lesser
    <3>7. 2 * (rest - ratio[n]) <= n - 1
      <4>1. n - 1 \in Nat /\ rest \in Int
        BY <1>1, <1>r
      <4> HIDE DEF rest, n
      <4> QED BY <1>2, <1>8, <1>10, <3>3, <4>1, NearWithin
    <3>8. rest \in Int /\ n - 1 \in Nat
      BY <1>1, <1>r
    <3> HIDE DEF rest, left, n
    <3> QED BY <3>3, <3>6, <3>7, <3>8 DEF Lesser
  <2> HIDE DEF given, round, n
  <2> QED BY <2>6, <2>7
<1> HIDE DEF given, round, n
<1> QED BY <1>7, <1>9, <1>10 DEF of, given, round, n

\* What AllocationAccounted says of one answer.
AllocationOf(j, r) ==
  LET n == Len(j.targets)
      eligible == [i \in 1 .. n |-> j.targets[i].eligible]
      round == IF j.index = NoAmount THEN n ELSE j.index
      given == r.total - SumOfSeq(SubSeq(r.allocated, round + 1, n))
      parts == [i \in 1 .. n |-> IF j.method = "weighted" THEN j.targets[i].weight
                                 ELSE IF j.method = "equal" THEN 1 ELSE j.targets[i].eligible]
  IN  /\ \A i \in 1 .. n : j.targets[i].eligible # NoAmount => r.allocated[i] <= j.targets[i].eligible
      /\ j.method \in {"fifo", "lifo", "specific"} =>
           /\ r.total = IF \E i \in 1 .. n : j.targets[i].eligible = NoAmount THEN j.amount
                        ELSE Lesser(j.amount, SumOfSeq(eligible))
           /\ \A k \in 1 .. n - 1 : r.allocated[r.order[k + 1]] > 0 =>
                r.allocated[r.order[k]] = j.targets[r.order[k]].eligible
      /\ (round \in 1 .. n /\ j.method \in {"weighted", "equal"}
           /\ \A i \in 1 .. n : j.targets[i].eligible = NoAmount) =>
           /\ given = j.amount
           /\ \A i \in 1 .. n : i # round => Near(r.allocated[i], j.amount, parts[i], SumOfSeq(parts), 1)
           /\ round = n => Near(r.allocated[n], j.amount, parts[n], SumOfSeq(parts), n - 1)
      /\ (round \in 1 .. n /\ j.method = "prorata" /\ j.amount <= SumOfSeq(eligible)) =>
           /\ given <= j.amount /\ (given = j.amount \/ r.allocated[round] = j.targets[round].eligible)
           /\ round = n => 2 * r.unallocated <= n - 1

LEMMA AllocatesNone ==
  ASSUME NEW j \in AllocationJobs, j.targets = <<>>
  PROVE  AllocationOf(j, AL!AllocationResult(j.amount, <<>>, <<>>))
<1> DEFINE r == AL!AllocationResult(j.amount, <<>>, <<>>)
<1>1. r.allocated = <<>> /\ r.total = SumOfSeq(<<>>)
  BY AllocationSums DEF AL!AllocationResult
<1>2. SumOfSeq(<<>>) = 0
  <2>1. <<>> \in Seq(Int) /\ \A k \in 1 .. Len(<<>>) : <<>>[k] = 0
    OBVIOUS
  <2> QED BY <2>1, SumOfNone
<1>3. [i \in 1 .. 0 |-> j.targets[i].eligible] = <<>> /\ Len(j.targets) = 0
  OBVIOUS
<1>4. j.amount \in Nat
  BY AllocationAssumption
<1> HIDE DEF r
<1>5. r.total = Lesser(j.amount, SumOfSeq([i \in 1 .. 0 |-> j.targets[i].eligible]))
  BY <1>1, <1>2, <1>3, <1>4 DEF Lesser
<1> QED BY <1>3, <1>5 DEF AllocationOf, r

LEMMA AllocatesInOrder ==
  ASSUME NEW j \in AllocationJobs, j.targets # <<>>, j.method \in {"fifo", "lifo", "specific"},
         NEW r \in AL!allocate(j.amount, j.targets, j.method, j.index)
  PROVE  AllocationOf(j, r)
<1> DEFINE t == j.targets
           n == Len(t)
<1>1. j.amount \in Nat /\ t \in Seq(Target)
  BY AllocationAssumption DEF Target
<1>2. r \in {AL!_allocate_fifo(j.amount, t), AL!_allocate_lifo(j.amount, t), AL!_allocate_specific(j.amount, t)}
  BY DEF AL!allocate
<1> HIDE DEF t
<1>3. PICK order : Arranges(order, n, n) /\ r = AL!_allocate_sequential(j.amount, t, order)
  BY <1>1, <1>2, SequentialOrder
<1> DEFINE serve == AL!_allocate_sequential(j.amount, t, order)
<1>4. /\ serve.order = order
      /\ \A i \in 1 .. n : t[i].eligible # NoAmount => serve.allocated[i] <= t[i].eligible
      /\ serve.total = IF \E i \in 1 .. n : t[i].eligible = NoAmount THEN j.amount
                      ELSE Lesser(j.amount, SumOfSeq([i \in 1 .. n |-> t[i].eligible]))
      /\ \A k \in 1 .. n - 1 : serve.allocated[order[k + 1]] > 0 =>
           serve.allocated[order[k]] = t[order[k]].eligible
  <2> DEFINE m == j.amount
  <2>1. m \in Nat
    BY <1>1
  <2> HIDE DEF m, serve
  <2>2. Arranges(order, Len(t), Len(t))
    BY <1>3
  <2>3. serve = AL!_allocate_sequential(m, t, order)
    BY DEF serve, m
  <2>4. /\ serve.order = order
        /\ \A i \in 1 .. n : t[i].eligible # NoAmount => serve.allocated[i] <= t[i].eligible
        /\ serve.total = IF \E i \in 1 .. n : t[i].eligible = NoAmount THEN m
                        ELSE Lesser(m, SumOfSeq([i \in 1 .. n |-> t[i].eligible]))
        /\ \A k \in 1 .. n - 1 : serve.allocated[order[k + 1]] > 0 =>
             serve.allocated[order[k]] = t[order[k]].eligible
    BY <1>1, <2>1, <2>2, <2>3, Serving
  <2> QED BY <2>4 DEF m
<1>5. r = serve
  BY <1>3
<1> HIDE DEF serve
<1> QED BY <1>4, <1>5 DEF AllocationOf, t

LEMMA AllocatesByRatio ==
  ASSUME NEW j \in AllocationJobs, j.targets # <<>>, j.method \in {"weighted", "equal"},
         NEW r \in AL!allocate(j.amount, j.targets, j.method, j.index), r.status = "ok"
  PROVE  AllocationOf(j, r)
<1> DEFINE t == j.targets
           n == Len(t)
           ratio == [i \in 1 .. n |-> IF j.method = "weighted" THEN t[i].weight ELSE 1]
           parts == [i \in 1 .. n |-> IF j.method = "weighted" THEN t[i].weight
                                      ELSE IF j.method = "equal" THEN 1 ELSE t[i].eligible]
           round == IF j.index = NoAmount THEN n ELSE j.index
           given == r.total - SumOfSeq(SubSeq(r.allocated, round + 1, n))
<1>1. j.amount \in Nat /\ t \in Seq(Target) /\ n \in Nat /\ n > 0
  <2>1. j.amount \in Nat /\ t \in Seq(Target)
    BY AllocationAssumption DEF Target
  <2> HIDE DEF t
  <2>2. t # <<>>
    BY DEF t
  <2> QED BY <2>1, <2>2
<1>2. ratio \in [1 .. n -> Nat]
  <2>1. \A i \in 1 .. n : t[i] \in Target
    BY <1>1
  <2>2. \A i \in 1 .. n : t[i].weight \in Nat
    BY <2>1 DEF Target
  <2> QED BY <2>2
<1>3. ratio \in Seq(Nat) /\ Len(ratio) = n
  <2> HIDE DEF ratio, n
  <2> QED BY <1>1, <1>2
<1>4. parts = ratio
  OBVIOUS
<1>5. SumOfSeq(ratio) \in Nat
  <2> HIDE DEF ratio
  <2> QED BY <1>3, SumsGrow
<1>6. /\ SumOfSeq(ratio) > 0
      /\ r \in AL!_allocate_by_ratio(j.amount, t, ratio, SumOfSeq(ratio), j.index)
  <2>1. CASE j.method = "weighted"
    <3>1. ratio = [i \in 1 .. n |-> t[i].weight]
      BY <2>1
    <3>2. r \in AL!_allocate_weighted(j.amount, t, j.index)
      BY <2>1 DEF AL!allocate
    <3> HIDE DEF ratio
    <3>3. AL!SumOfSeq(ratio) = SumOfSeq(ratio)
      BY AllocationSums
    <3>4. r.status # "ValueError"
      OBVIOUS
    <3>5. AL!SumOfSeq(ratio) # 0 /\ r \in AL!_allocate_by_ratio(j.amount, t, ratio, AL!SumOfSeq(ratio), j.index)
      BY <3>1, <3>2, <3>4 DEF AL!_allocate_weighted, AL!Targets, AL!Refused
    <3> QED BY <1>5, <3>3, <3>5
  <2>2. CASE j.method = "equal"
    <3>1. ratio = [i \in 1 .. n |-> 1]
      BY <2>2
    <3>2. SumOfSeq(ratio) = n
      BY <1>1, <3>1, SumOfOnes
    <3>3. r \in AL!_allocate_equal(j.amount, t, j.index)
      BY <2>2 DEF AL!allocate
    <3>4. r \in AL!_allocate_by_ratio(j.amount, t, ratio, n, j.index)
      <4> HIDE DEF ratio
      <4> QED BY <3>1, <3>3 DEF AL!_allocate_equal, AL!Targets
    <3> QED BY <1>1, <3>2, <3>4
  <2> QED BY <2>1, <2>2
<1> HIDE DEF t, ratio, parts
<1>7. /\ \A i \in 1 .. n : t[i].eligible # NoAmount => r.allocated[i] <= t[i].eligible
      /\ (round \in 1 .. n /\ \A i \in 1 .. n : t[i].eligible = NoAmount) =>
           /\ given = j.amount
           /\ \A i \in 1 .. n : i # round => Near(r.allocated[i], j.amount, ratio[i], SumOfSeq(ratio), 1)
           /\ round = n => Near(r.allocated[n], j.amount, ratio[n], SumOfSeq(ratio), n - 1)
  <2>1. t # <<>> /\ Len(ratio) = Len(t)
    BY <1>3 DEF t
  <2> QED BY <1>1, <1>3, <1>6, <2>1, ByRatio
<1>8. parts = [i \in 1 .. n |-> IF j.method = "weighted" THEN j.targets[i].weight
                                ELSE IF j.method = "equal" THEN 1 ELSE j.targets[i].eligible]
  BY DEF parts, t
<1> QED BY <1>4, <1>7, <1>8 DEF AllocationOf, t

LEMMA AllocatesProRata ==
  ASSUME NEW j \in AllocationJobs, j.targets # <<>>, j.method = "prorata",
         NEW r \in AL!allocate(j.amount, j.targets, j.method, j.index), r.status = "ok"
  PROVE  AllocationOf(j, r)
<1> DEFINE t == j.targets
           n == Len(t)
           ratio == [i \in 1 .. n |-> t[i].eligible]
           none == AL!AllocationResult(j.amount, [i \in 1 .. n |-> i], [i \in 1 .. n |-> 0])
           round == IF j.index = NoAmount THEN n ELSE j.index
           given == r.total - SumOfSeq(SubSeq(r.allocated, round + 1, n))
<1>1. j.amount \in Nat /\ t \in Seq(Target) /\ n \in Nat /\ n > 0
  <2>1. j.amount \in Nat /\ t \in Seq(Target)
    BY AllocationAssumption DEF Target
  <2> HIDE DEF t
  <2>2. t # <<>>
    BY DEF t
  <2> QED BY <2>1, <2>2
<1>2. r \in AL!_allocate_prorata(j.amount, t, j.index) /\ r.status # "ValueError"
  BY DEF AL!allocate
<1>3. AL!Eligible(t) = ratio /\ AL!Targets(t) = 1 .. n
  BY DEF AL!Eligible, AL!Targets
<1>4. AL!SumOfSeq(ratio) = SumOfSeq(ratio)
  BY AllocationSums
<1>5. \A i \in 1 .. n : t[i].eligible # NoAmount
  <2> HIDE DEF t, n
  <2> QED BY <1>2, <1>3 DEF AL!_allocate_prorata, AL!Refused, AL!NoAmount, NoAmount
<1>6. /\ SumOfSeq(ratio) = 0 => r = none
      /\ SumOfSeq(ratio) # 0 => r \in AL!_allocate_by_ratio(j.amount, t, ratio, SumOfSeq(ratio), j.index)
  <2>1. ~ \E i \in 1 .. n : t[i].eligible = AL!NoAmount
    BY <1>5 DEF AL!NoAmount, NoAmount
  <2> HIDE DEF t, n, ratio
  <2> QED BY <1>2, <1>3, <1>4, <2>1 DEF AL!_allocate_prorata, none
<1>7. ratio \in [1 .. n -> Nat]
  <2>1. \A i \in 1 .. n : t[i] \in Target
    BY <1>1
  <2>2. \A i \in 1 .. n : t[i].eligible \in Nat
    BY <1>5, <2>1 DEF Target
  <2> QED BY <2>2
<1>8. ratio \in Seq(Nat) /\ Len(ratio) = n /\ \A i \in 1 .. n : ratio[i] = t[i].eligible /\ ratio[i] \in Nat
  <2>1. \A i \in 1 .. n : ratio[i] = t[i].eligible
    OBVIOUS
  <2> HIDE DEF ratio, n
  <2> QED BY <1>1, <1>7, <2>1
<1> HIDE DEF ratio, none
<1>9. SumOfSeq(ratio) \in Nat
  BY <1>8, SumsGrow
<1>10. /\ \A i \in 1 .. n : t[i].eligible # NoAmount => r.allocated[i] <= t[i].eligible
       /\ (round \in 1 .. n /\ j.amount <= SumOfSeq(ratio)) =>
            /\ given <= j.amount /\ (given = j.amount \/ r.allocated[round] = t[round].eligible)
            /\ round = n => 2 * r.unallocated <= n - 1
  <2>1. CASE SumOfSeq(ratio) = 0
    <3> DEFINE zeros == [i \in 1 .. n |-> 0]
    <3>1. zeros \in Seq(Int) /\ Len(zeros) = n /\ \A i \in 1 .. n : zeros[i] = 0
      <4> HIDE DEF n
      <4> QED BY <1>1
    <3> HIDE DEF zeros
    <3>2. SumOfSeq(zeros) = 0
      BY <3>1, SumOfNone
    <3>3. AL!SumOfSeq(zeros) = 0
      BY <3>2, AllocationSums
    <3>4. r = AL!AllocationResult(j.amount, [i \in 1 .. n |-> i], zeros)
      BY <1>6, <2>1 DEF none, zeros
    <3>5. r.allocated = zeros /\ r.total = 0 /\ r.unallocated = j.amount - 0
      BY <3>3, <3>4 DEF AL!AllocationResult
    <3>6. \A i \in 1 .. n : r.allocated[i] = 0
      BY <3>1, <3>5
    <3>7. ASSUME round \in 1 .. n PROVE given = 0
      <4> DEFINE part == SubSeq(zeros, round + 1, n)
      <4>1. part \in Seq(Int) /\ \A k \in 1 .. Len(part) : part[k] = 0
        <5> HIDE DEF n, round
        <5> QED BY <1>1, <3>1, <3>7
      <4> HIDE DEF part
      <4>2. SumOfSeq(part) = 0
        BY <4>1, SumOfNone
      <4> QED BY <3>5, <4>2 DEF part
    <3> HIDE DEF given, round
    <3> QED BY <1>1, <1>8, <2>1, <3>5, <3>6, <3>7
  <2>2. CASE SumOfSeq(ratio) # 0
    <3>1. SumOfSeq(ratio) > 0
      BY <1>9, <2>2
    <3> HIDE DEF t
    <3>2. t # <<>> /\ Len(ratio) = Len(t)
      BY <1>8 DEF t
    <3>3. r \in AL!_allocate_by_ratio(j.amount, t, ratio, SumOfSeq(ratio), j.index)
      BY <1>6, <2>2
    <3>4. \A i \in 1 .. n : t[i].eligible = ratio[i]
      BY <1>8
    <3>5. /\ \A i \in 1 .. n : t[i].eligible # NoAmount => r.allocated[i] <= t[i].eligible
          /\ (round \in 1 .. n /\ j.amount <= SumOfSeq(ratio)) =>
               /\ given <= j.amount /\ (given = j.amount \/ r.allocated[round] = ratio[round])
               /\ round = n => 2 * r.unallocated <= n - 1
      BY <1>1, <1>8, <3>1, <3>2, <3>3, <3>4, ByRatio
    <3> HIDE DEF given, round, n
    <3> QED BY <3>4, <3>5
  <2> QED BY <2>1, <2>2
<1> QED BY <1>10 DEF AllocationOf, t, ratio

LEMMA Allocates ==
  ASSUME NEW j \in AllocationJobs, NEW r \in AL!allocate(j.amount, j.targets, j.method, j.index), r.status = "ok"
  PROVE  AllocationOf(j, r)
<1>1. CASE j.targets = <<>>
  BY <1>1, AllocatesNone DEF AL!allocate
<1>2. CASE j.targets # <<>>
  <2>1. j.method \in {"prorata", "weighted", "equal", "fifo", "lifo", "specific"}
    BY <1>2 DEF AL!allocate, AL!Refused
  <2> QED BY <1>2, <2>1, AllocatesInOrder, AllocatesByRatio, AllocatesProRata
<1> QED BY <1>1, <1>2

-----------------------------------------------------------------------------
(* The engines: taxes.                                                     *)

LEMMA TaxSums == \A s : TX!SumOfSeq(s) = SumOfSeq(s)
BY DEF TX!SumOfSeq, SumOfSeq

\* Rounding gives whole cents.
LEMMA TaxRounds ==
  ASSUME NEW x \in Int, NEW d \in Nat, d > 0
  PROVE  TX!RoundHalfUp(x, d) \in Int
<1>1. \A y \in Int : (2 * y + d) \div (2 * d) \in Int
  <2> SUFFICES ASSUME NEW y \in Int PROVE (2 * y + d) \div (2 * d) \in Int
    OBVIOUS
  <2>1. 2 * y + d \in Int /\ 2 * d \in Nat /\ 2 * d > 0
    OBVIOUS
  <2> QED BY <2>1, Division
<1>2. -x \in Int /\ (2 * x + d) \div (2 * d) \in Int
  BY <1>1
<1>3. (2 * (-x) + d) \div (2 * d) \in Int
  BY <1>1, <1>2
<1>4. \A y \in Int : -y \in Int
  OBVIOUS
<1> QED BY <1>2, <1>3, <1>4 DEF TX!RoundHalfUp

LEMMA TaxRates ==
  ASSUME NEW x \in Int, NEW rate \in Nat
  PROVE  TX!PercentOf(x, rate) \in Int /\ TX!Included(x, rate) \in Int
<1>1. x * rate \in Int /\ 100 + rate \in Nat /\ 100 + rate > 0
  OBVIOUS
<1> QED BY <1>1, TaxRounds DEF TX!PercentOf, TX!Included

LEMMA TaxShares ==
  ASSUME NEW x \in Int, NEW p \in Nat, NEW d \in Nat, d > 0, NEW up
  PROVE  TX!QuantizedShare(x, p, d, up) \in Int
<1>1. x * p \in Int
  OBVIOUS
<1>2. (x * p) \div d \in Int
  BY <1>1, Division
<1>3. TX!RoundHalfUp(x * p, d) \in Int
  BY <1>1, TaxRounds
<1> QED BY <1>2, <1>3 DEF TX!QuantizedShare

\* A value that every step keeps whole is whole after all steps.
LEMMA StaysWhole ==
  ASSUME NEW n \in Nat, NEW f, f[0] \in Int, \A k \in 1 .. n : f[k - 1] \in Int => f[k] \in Int
  PROVE  \A k \in 0 .. n : f[k] \in Int
<1> DEFINE S == {m \in Nat : m <= n => f[m] \in Int}
<1>1. 0 \in S
  OBVIOUS
<1>2. ASSUME NEW m \in Nat, m \in S PROVE m + 1 \in S
  <2> SUFFICES ASSUME m + 1 <= n PROVE f[m + 1] \in Int
    OBVIOUS
  <2>1. m + 1 \in 1 .. n /\ (m + 1) - 1 = m /\ f[m] \in Int
    BY <1>2
  <2> QED BY <2>1
<1>3. Nat \subseteq S
  <2> HIDE DEF S
  <2> QED BY <1>1, <1>2, Induction
<1> QED BY <1>3

\* The sum of the steps is what they change.
LEMMA SumOfSteps ==
  ASSUME NEW n \in Nat, NEW f, \A k \in 0 .. n : f[k] \in Int, NEW t \in [1 .. n -> Int],
         \A k \in 1 .. n : f[k] = f[k - 1] + t[k]
  PROVE  SumOfSeq(t) = f[n] - f[0]
<1> DEFINE g == [k \in 0 .. n |-> f[k] - f[0]]
<1>1. t \in Seq(Int) /\ Len(t) = n
  OBVIOUS
<1>2. g[0] = 0 /\ g[n] = f[n] - f[0]
  OBVIOUS
<1>3. ASSUME NEW k \in 1 .. n PROVE g[k] = g[k - 1] + t[k]
  <2>1. k \in 0 .. n /\ k - 1 \in 0 .. n
    OBVIOUS
  <2>2. g[k] = f[k] - f[0] /\ g[k - 1] = f[k - 1] - f[0] /\ f[k] = f[k - 1] + t[k]
    BY <2>1
  <2>3. f[0] \in Int /\ f[k - 1] \in Int /\ t[k] \in Int
    BY <2>1
  <2> HIDE DEF g
  <2> QED BY <2>2, <2>3
<1> HIDE DEF g
<1>4. SumOfSeq(t) = g[n]
  BY <1>1, <1>2, <1>3, SumIs
<1> QED BY <1>2, <1>4

\* Sums of sequences put one after the other, and of a sequence turned round.
LEMMA SumOfBoth ==
  ASSUME NEW s \in Seq(Int), NEW t \in Seq(Int)
  PROVE  s \o t \in Seq(Int) /\ SumOfSeq(s \o t) = SumOfSeq(s) + SumOfSeq(t)
<1> DEFINE a == Len(s)
           b == Len(t)
           u == s \o t
           f == [k \in 0 .. a + b |-> IF k <= a THEN Sums(s)[k] ELSE SumOfSeq(s) + Sums(t)[k - a]]
<1>1. /\ a \in Nat /\ b \in Nat /\ u \in Seq(Int) /\ Len(u) = a + b
      /\ \A k \in 1 .. a : u[k] = s[k]
      /\ \A k \in a + 1 .. a + b : u[k] = t[k - a]
  OBVIOUS
<1>2. /\ Sums(s)[0] = 0 /\ (\A k \in 1 .. a : Sums(s)[k] = Sums(s)[k - 1] + s[k])
      /\ SumOfSeq(s) = Sums(s)[a] /\ SumOfSeq(s) \in Int
  BY RunningTotals
<1>3. /\ Sums(t) \in [0 .. b -> Int]
      /\ Sums(t)[0] = 0 /\ (\A k \in 1 .. b : Sums(t)[k] = Sums(t)[k - 1] + t[k])
      /\ SumOfSeq(t) = Sums(t)[b] /\ SumOfSeq(t) \in Int
  BY RunningTotals
<1>4. f[0] = 0
  BY <1>1, <1>2
<1>5. f[a + b] = SumOfSeq(s) + SumOfSeq(t)
  <2>1. a + b \in 0 .. a + b /\ (a + b) - a = b /\ (a + b <= a => b = 0 /\ a + b = a)
    BY <1>1
  <2> QED BY <1>2, <1>3, <2>1
<1> HIDE DEF u
<1>6. ASSUME NEW k \in 1 .. a + b PROVE f[k] = f[k - 1] + u[k]
  <2>0. k \in Int /\ k \in 0 .. a + b /\ k - 1 \in 0 .. a + b
    BY <1>1
  <2>1. CASE k <= a
    <3>1. k \in 1 .. a /\ k - 1 <= a
      BY <1>1, <2>0, <2>1
    <3>2. f[k] = Sums(s)[k] /\ f[k - 1] = Sums(s)[k - 1]
      BY <2>0, <2>1, <3>1
    <3> HIDE DEF f
    <3> QED BY <1>1, <1>2, <3>1, <3>2
  <2>2. CASE k > a
    <3>1. k \in a + 1 .. a + b /\ k - a \in 1 .. b /\ (k - 1) - a = (k - a) - 1 /\ ~(k <= a)
      BY <1>1, <2>0, <2>2
    <3>2. f[k] = SumOfSeq(s) + Sums(t)[k - a]
      BY <2>0, <3>1
    <3>3. f[k - 1] = SumOfSeq(s) + Sums(t)[(k - a) - 1]
      <4>1. CASE k - 1 <= a
        <5>1. k - 1 = a /\ (k - a) - 1 = 0
          <6> HIDE DEF f, a
          <6> QED BY <1>1, <2>0, <2>2, <4>1
        <5>2. f[k - 1] = Sums(s)[a]
          BY <2>0, <4>1, <5>1
        <5> HIDE DEF f
        <5> QED BY <1>2, <1>3, <5>1, <5>2
      <4>2. CASE ~(k - 1 <= a)
        BY <2>0, <3>1, <4>2
      <4> QED BY <4>1, <4>2
    <3>4. Sums(t)[k - a] = Sums(t)[(k - a) - 1] + t[k - a] /\ u[k] = t[k - a]
      BY <1>1, <1>3, <3>1
    <3>5. Sums(t)[(k - a) - 1] \in Int /\ t[k - a] \in Int
      <4>1. (k - a) - 1 \in 0 .. b
        <5> HIDE DEF f, a, b
        <5> QED BY <1>1, <2>0, <3>1
      <4>2. \A l \in 1 .. b : t[l] \in Int
        OBVIOUS
      <4> QED BY <1>3, <3>1, <4>1, <4>2
    <3> HIDE DEF f
    <3> QED BY <1>2, <3>2, <3>3, <3>4, <3>5
  <2> QED BY <1>1, <2>0, <2>1, <2>2
<1> HIDE DEF f
<1>7. SumOfSeq(u) = f[Len(u)]
  BY <1>1, <1>4, <1>6, SumIs
<1> QED BY <1>1, <1>5, <1>7 DEF u

LEMMA SumTurned ==
  ASSUME NEW s \in Seq(Int)
  PROVE  SumOfSeq([k \in 1 .. Len(s) |-> s[Len(s) + 1 - k]]) = SumOfSeq(s)
<1> DEFINE n == Len(s)
           order == [k \in 1 .. n |-> n + 1 - k]
<1>1. n \in Nat /\ s \in [1 .. n -> Int]
  OBVIOUS
<1>2. order \in [1 .. n -> 1 .. n] /\ \A k \in 1 .. n : order[k] = n + 1 - k
  BY <1>1
<1> HIDE DEF n, order
<1>3. Arranges(order, n, n)
  <2>1. \A i \in 1 .. n : n + 1 - i \in 1 .. n /\ order[n + 1 - i] = i
    <3> SUFFICES ASSUME NEW i \in 1 .. n PROVE n + 1 - i \in 1 .. n /\ order[n + 1 - i] = i
      OBVIOUS
    <3>1. n + 1 - i \in 1 .. n /\ n + 1 - (n + 1 - i) = i
      BY <1>1
    <3> QED BY <1>2, <3>1
  <2>2. \A k, l \in 1 .. n : order[k] = order[l] => k = l
    BY <1>1, <1>2
  <2> QED BY <1>2, <2>1, <2>2 DEF Arranges
<1>4. Taken(s, order, n) = [k \in 1 .. n |-> s[n + 1 - k]]
  BY <1>2 DEF Taken
<1>5. SumOfSeq(Taken(s, order, n)) = SumOfSeq(s)
  BY <1>1, <1>3, SumArranged
<1> QED BY <1>4, <1>5 DEF n

\* Rates of a calculation, and the percentages of some of them in order.
TaxRate(rate) == rate.rate \in Nat /\ rate.priority \in Int
LEMMA Percentages ==
  ASSUME NEW n \in Nat, NEW rates, Len(rates) = n, \A i \in 1 .. n : TaxRate(rates[i]), NEW descending
  PROVE  TX!Simple(rates, descending) \in Seq(Nat) /\ TX!Compound(rates, descending) \in Seq(Nat)
<1> DEFINE key == [i \in 1 .. n |-> <<IF descending THEN -rates[i].priority ELSE rates[i].priority, 0>>]
<1>1. \A i \in 1 .. n : rates[i].priority \in Int /\ -rates[i].priority \in Int
  BY DEF TaxRate
<1>2. key \in [1 .. n -> Int \X Int]
  BY <1>1
<1>3. ASSUME NEW S \in SUBSET (1 .. n) PROVE TX!ByPriority(rates, S, descending) \in Seq(Nat)
  <2> DEFINE order == Sorted(S, n, key)
  <2>1. TX!Sorted(S, n, key) = order
    BY DEF TX!Sorted, TX!Precedes, Sorted, Precedes
  <2>2. TX!ByPriority(rates, S, descending) = [k \in 1 .. Len(order) |-> rates[order[k]].rate]
    BY <2>1 DEF TX!ByPriority
  <2> HIDE DEF key
  <2>3. PICK m \in 0 .. n : order \in [1 .. m -> S] /\ Len(order) = m
    BY <1>2, SortedOrder
  <2> HIDE DEF order
  <2>4. \A k \in 1 .. m : rates[order[k]].rate \in Nat
    <3>1. \A k \in 1 .. m : order[k] \in 1 .. n
      BY <2>3
    <3> QED BY <3>1 DEF TaxRate
  <2>5. m \in Nat /\ [k \in 1 .. m |-> rates[order[k]].rate] \in [1 .. m -> Nat]
    BY <2>3, <2>4
  <2> QED BY <2>2, <2>3, <2>5
<1> HIDE DEF key
<1>4. {i \in 1 .. n : ~rates[i].is_compound} \in SUBSET (1 .. n) /\ {i \in 1 .. n : rates[i].is_compound} \in SUBSET (1 .. n)
  OBVIOUS
<1> QED BY <1>3, <1>4 DEF TX!Simple, TX!Compound

\* What net amount and tax lines of an answer come to.
AddsUp(r) == r.status = "ok" => r.net \in Int /\ r.gross \in Int /\ r.net + SumOfSeq(r.lines) = r.gross

\* The total as the compound taxes are added to it.
RunningTotal(a, compound) ==
  CHOOSE f : f = [k \in 0 .. Len(compound) |->
    IF k = 0 THEN a ELSE f[k - 1] + TX!PercentOf(f[k - 1], compound[k])]
LEMMA Compounding ==
  ASSUME NEW a \in Int, NEW compound \in Seq(Nat)
  PROVE  LET n == Len(compound)
             f == RunningTotal(a, compound)
             taxes == [k \in 1 .. n |-> TX!PercentOf(f[k - 1], compound[k])]
         IN  f[n] \in Int /\ taxes \in Seq(Int) /\ SumOfSeq(taxes) = f[n] - a
<1> DEFINE n == Len(compound)
           f == RunningTotal(a, compound)
           taxes == [k \in 1 .. n |-> TX!PercentOf(f[k - 1], compound[k])]
           Add(k, x) == x + TX!PercentOf(x, compound[k])
           step == [k \in 1 .. n |-> [x \in Int |-> Add(k, x)]]
           F(h) == [k \in 0 .. n |-> IF k = 0 THEN a ELSE Add(k, h[k - 1])]
<1>1. n \in Nat /\ \A k \in 1 .. n : compound[k] \in Nat
  OBVIOUS
<1>2. \A k \in 1 .. n : \A x \in Int : TX!PercentOf(x, compound[k]) \in Int /\ Add(k, x) \in Int
  <2> SUFFICES ASSUME NEW k \in 1 .. n, NEW x \in Int
               PROVE  TX!PercentOf(x, compound[k]) \in Int /\ Add(k, x) \in Int
    OBVIOUS
  <2>1. TX!PercentOf(x, compound[k]) \in Int
    BY <1>1, TaxRates
  <2> QED BY <2>1
<1> HIDE DEF n, Add
<1>3. step \in [1 .. n -> [Int -> Int]]
  BY <1>2
<1>4. \A k \in 1 .. n : \A x \in Int : step[k][x] = Add(k, x)
  OBVIOUS
<1> HIDE DEF step
<1>5. PICK g \in [0 .. n -> Int] : g[0] = a /\ \A k \in 1 .. n : g[k] = step[k][g[k - 1]]
  <2>1. CanStep(n, Int, a, step)
    BY <1>3 DEF CanStep
  <2>2. \E g : Stepwise(n, Int, a, step, g)
    BY <1>1, <2>1, Recursion
  <2> QED BY <2>2 DEF Stepwise
<1>6. g = F(g)
  <2>1. \A k \in 0 .. n : g[k] = IF k = 0 THEN a ELSE Add(k, g[k - 1])
    <3> SUFFICES ASSUME NEW k \in 1 .. n PROVE g[k] = Add(k, g[k - 1])
      BY <1>1, <1>5
    <3>1. k - 1 \in 0 .. n
      BY <1>1
    <3>2. g[k - 1] \in Int
      BY <1>5, <3>1
    <3> QED BY <1>4, <1>5, <3>2
  <2>2. g = [k \in 0 .. n |-> g[k]]
    BY <1>5
  <2> QED BY <2>1, <2>2
<1>7. f = F(f)
  <2>1. f = CHOOSE h : h = F(h)
    BY DEF RunningTotal, n, Add
  <2> HIDE DEF F, f
  <2> QED BY <1>6, <2>1
<1> HIDE DEF f
<1>8. f[0] = a /\ \A k \in 1 .. n : f[k] = Add(k, f[k - 1])
  BY <1>1, <1>7
<1>9. \A k \in 0 .. n : f[k] \in Int
  <2>1. f[0] \in Int /\ \A k \in 1 .. n : f[k - 1] \in Int => f[k] \in Int
    BY <1>2, <1>8
  <2> QED BY <1>1, <2>1, StaysWhole
<1>10. \A k \in 1 .. n : f[k - 1] \in Int
  <2>1. \A k \in 1 .. n : k - 1 \in 0 .. n
    BY <1>1
  <2> QED BY <1>9, <2>1
<1>11. taxes \in [1 .. n -> Int] /\ \A k \in 1 .. n : taxes[k] = TX!PercentOf(f[k - 1], compound[k])
  BY <1>2, <1>10
<1>12. taxes \in Seq(Int)
  <2> HIDE DEF taxes
  <2> QED BY <1>1, <1>11
<1>13. \A k \in 1 .. n : f[k] = f[k - 1] + taxes[k]
  BY <1>8, <1>11 DEF Add
<1> HIDE DEF taxes
<1>14. SumOfSeq(taxes) = f[n] - f[0]
  BY <1>1, <1>9, <1>11, <1>13, SumOfSteps
<1>15. f[n] \in Int
  BY <1>1, <1>9
<1> QED BY <1>8, <1>12, <1>14, <1>15 DEF taxes, f, n

LEMMA Exclusive ==
  ASSUME NEW net \in Int, NEW n \in Nat, NEW rates, Len(rates) = n, \A i \in 1 .. n : TaxRate(rates[i])
  PROVE  AddsUp(TX!_calculate_exclusive(net, rates))
<1> DEFINE simple == TX!Simple(rates, FALSE)
           compound == TX!Compound(rates, FALSE)
           simple_taxes == [i \in 1 .. Len(simple) |-> TX!PercentOf(net, simple[i])]
           a == net + TX!SumOfSeq(simple_taxes)
           f == RunningTotal(a, compound)
           taxes == [k \in 1 .. Len(compound) |-> TX!PercentOf(f[k - 1], compound[k])]
           r == TX!_calculate_exclusive(net, rates)
<1>1. simple \in Seq(Nat) /\ compound \in Seq(Nat)
  BY Percentages
<1>2. r = TX!TaxCalculationResult(net, simple_taxes \o taxes, f[Len(compound)])
  BY DEF TX!_calculate_exclusive, RunningTotal
<1> HIDE DEF r, simple, compound
<1>3. simple_taxes \in Seq(Int)
  <2>1. Len(simple) \in Nat /\ \A i \in 1 .. Len(simple) : simple[i] \in Nat
    BY <1>1
  <2>2. \A i \in 1 .. Len(simple) : TX!PercentOf(net, simple[i]) \in Int
    BY <2>1, TaxRates
  <2>3. simple_taxes \in [1 .. Len(simple) -> Int]
    BY <2>2
  <2> HIDE DEF simple_taxes
  <2> QED BY <2>1, <2>3
<1> HIDE DEF simple_taxes
<1>4. SumOfSeq(simple_taxes) \in Int /\ a = net + SumOfSeq(simple_taxes) /\ a \in Int
  BY <1>3, RunningTotals, TaxSums
<1> HIDE DEF a
<1>5. f[Len(compound)] \in Int /\ taxes \in Seq(Int) /\ SumOfSeq(taxes) = f[Len(compound)] - a
  BY <1>1, <1>4, Compounding
<1> HIDE DEF f, taxes
<1>6. SumOfSeq(simple_taxes \o taxes) = SumOfSeq(simple_taxes) + SumOfSeq(taxes)
  BY <1>3, <1>5, SumOfBoth
<1>7. r.net = net /\ r.lines = simple_taxes \o taxes /\ r.gross = f[Len(compound)]
  BY <1>2 DEF TX!TaxCalculationResult
<1> QED BY <1>4, <1>5, <1>6, <1>7 DEF AddsUp, r

\* What is left of the gross amount as the compound taxes are taken out of it.
RunningGross(gross, compound) ==
  CHOOSE f : f = [k \in 0 .. Len(compound) |->
    IF k = 0 THEN gross ELSE f[k - 1] - TX!Included(f[k - 1], compound[k])]
LEMMA TakingOut ==
  ASSUME NEW gross \in Int, NEW compound \in Seq(Nat)
  PROVE  LET n == Len(compound)
             f == RunningGross(gross, compound)
             taxes == [k \in 1 .. n |-> TX!Included(f[k - 1], compound[k])]
         IN  f[n] \in Int /\ taxes \in Seq(Int) /\ SumOfSeq(taxes) = gross - f[n]
<1> DEFINE n == Len(compound)
           f == RunningGross(gross, compound)
           taxes == [k \in 1 .. n |-> TX!Included(f[k - 1], compound[k])]
           Take(k, x) == x - TX!Included(x, compound[k])
           step == [k \in 1 .. n |-> [x \in Int |-> Take(k, x)]]
           F(h) == [k \in 0 .. n |-> IF k = 0 THEN gross ELSE Take(k, h[k - 1])]
<1>1. n \in Nat /\ \A k \in 1 .. n : compound[k] \in Nat
  OBVIOUS
<1>2. \A k \in 1 .. n : \A x \in Int : TX!Included(x, compound[k]) \in Int /\ Take(k, x) \in Int
  <2> SUFFICES ASSUME NEW k \in 1 .. n, NEW x \in Int
               PROVE  TX!Included(x, compound[k]) \in Int /\ Take(k, x) \in Int
    OBVIOUS
  <2>1. TX!Included(x, compound[k]) \in Int
    BY <1>1, TaxRates
  <2> QED BY <2>1
<1> HIDE DEF n, Take
<1>3. step \in [1 .. n -> [Int -> Int]]
  BY <1>2
<1>4. \A k \in 1 .. n : \A x \in Int : step[k][x] = Take(k, x)
  OBVIOUS
<1> HIDE DEF step
<1>5. PICK g \in [0 .. n -> Int] : g[0] = gross /\ \A k \in 1 .. n : g[k] = step[k][g[k - 1]]
  <2>1. CanStep(n, Int, gross, step)
    BY <1>3 DEF CanStep
  <2>2. \E g : Stepwise(n, Int, gross, step, g)
    BY <1>1, <2>1, Recursion
  <2> QED BY <2>2 DEF Stepwise
<1>6. g = F(g)
  <2>1. \A k \in 0 .. n : g[k] = IF k = 0 THEN gross ELSE Take(k, g[k - 1])
    <3> SUFFICES ASSUME NEW k \in 1 .. n PROVE g[k] = Take(k, g[k - 1])
      BY <1>1, <1>5
    <3>1. k - 1 \in 0 .. n
      BY <1>1
    <3>2. g[k - 1] \in Int
      BY <1>5, <3>1
    <3> QED BY <1>4, <1>5, <3>2
  <2>2. g = [k \in 0 .. n |-> g[k]]
    BY <1>5
  <2> QED BY <2>1, <2>2
<1>7. f = F(f)
  <2>1. f = CHOOSE h : h = F(h)
    BY DEF RunningGross, n, Take
  <2> HIDE DEF F, f
  <2> QED BY <1>6, <2>1
<1> HIDE DEF f
<1>8. f[0] = gross /\ \A k \in 1 .. n : f[k] = Take(k, f[k - 1])
  BY <1>1, <1>7
<1>9. \A k \in 0 .. n : f[k] \in Int
  <2>1. f[0] \in Int /\ \A k \in 1 .. n : f[k - 1] \in Int => f[k] \in Int
    BY <1>2, <1>8
  <2> QED BY <1>1, <2>1, StaysWhole
<1>10. \A k \in 1 .. n : f[k - 1] \in Int
  <2>1. \A k \in 1 .. n : k - 1 \in 0 .. n
    BY <1>1
  <2> QED BY <1>9, <2>1
<1>11. taxes \in [1 .. n -> Int] /\ \A k \in 1 .. n : taxes[k] = TX!Included(f[k - 1], compound[k])
  BY <1>2, <1>10
<1>12. taxes \in Seq(Int)
  <2> HIDE DEF taxes
  <2> QED BY <1>1, <1>11
<1>13. \A k \in 1 .. n : f[k - 1] = f[k] + taxes[k]
  <2> SUFFICES ASSUME NEW k \in 1 .. n PROVE f[k - 1] = f[k] + taxes[k]
    OBVIOUS
  <2>1. f[k] = f[k - 1] - taxes[k] /\ f[k - 1] \in Int /\ taxes[k] \in Int
    BY <1>2, <1>8, <1>10, <1>11 DEF Take
  <2> HIDE DEF taxes
  <2> QED BY <2>1
<1> HIDE DEF taxes
<1> DEFINE g2 == [k \in 0 .. n |-> gross - f[k]]
<1>14. \A k \in 0 .. n : g2[k] = gross - f[k] /\ g2[k] \in Int
  BY <1>9
<1>15. \A k \in 1 .. n : g2[k] = g2[k - 1] + taxes[k]
  <2> SUFFICES ASSUME NEW k \in 1 .. n PROVE g2[k] = g2[k - 1] + taxes[k]
    OBVIOUS
  <2>1. k \in 0 .. n /\ k - 1 \in 0 .. n
    BY <1>1
  <2>2. g2[k] = gross - f[k] /\ g2[k - 1] = gross - f[k - 1]
    BY <1>14, <2>1
  <2>3. f[k] \in Int /\ taxes[k] \in Int /\ f[k - 1] = f[k] + taxes[k]
    BY <1>9, <1>11, <1>13, <2>1
  <2> HIDE DEF g2
  <2> QED BY <2>2, <2>3
<1> HIDE DEF g2
<1>16. SumOfSeq(taxes) = g2[n] - g2[0]
  BY <1>1, <1>11, <1>14, <1>15, SumOfSteps
<1>17. f[n] \in Int /\ g2[n] = gross - f[n] /\ g2[0] = 0
  BY <1>1, <1>8, <1>9, <1>14
<1> QED BY <1>12, <1>16, <1>17 DEF taxes, f, n

\* The simple taxes add up to the tax that is split over them.
LEMMA Splits ==
  ASSUME NEW total \in Int, NEW simple \in Seq(Nat), NEW up,
         simple = <<>> => total = 0, Len(simple) > 1 => SumOfSeq(simple) # 0
  PROVE  LET split == TX!SplitSimpleTax(total, simple, up)
         IN  split \in Seq(Int) /\ SumOfSeq(split) = total
<1> DEFINE n == Len(simple)
           share(i) == TX!QuantizedShare(total, simple[i], SumOfSeq(simple), up)
           shares == [i \in 1 .. n - 1 |-> share(i)]
           split == TX!SplitSimpleTax(total, simple, up)
<1>1. n \in Nat /\ (\A i \in 1 .. n : simple[i] \in Nat) /\ SumOfSeq(simple) \in Nat
  BY SumsGrow
<1>2. split = [i \in 1 .. n |-> IF i = n THEN total - SumOfSeq(shares) ELSE share(i)]
  BY TaxSums DEF TX!SplitSimpleTax
<1>3. \A i \in 1 .. n - 1 : share(i) \in Int
  <2> SUFFICES ASSUME NEW i \in 1 .. n - 1 PROVE share(i) \in Int
    OBVIOUS
  <2>1. n > 1 /\ i \in 1 .. n
    BY <1>1
  <2>2. SumOfSeq(simple) > 0 /\ simple[i] \in Nat
    BY <1>1, <2>1
  <2> QED BY <1>1, <2>2, TaxShares
<1> HIDE DEF split, share
<1>4. CASE n = 0
  <2>1. split = <<>> /\ simple = <<>>
    BY <1>2, <1>4
  <2>2. SumOfSeq(<<>>) = 0
    <3>1. <<>> \in Seq(Int) /\ \A k \in 1 .. Len(<<>>) : <<>>[k] = 0
      OBVIOUS
    <3> QED BY <3>1, SumOfNone
  <2> QED BY <2>1, <2>2 DEF split
<1>5. CASE n > 0
  <2>1. shares \in [1 .. n - 1 -> Int] /\ \A i \in 1 .. n - 1 : shares[i] = share(i)
    BY <1>3
  <2> HIDE DEF n, shares
  <2>2. n - 1 \in Nat
    BY <1>1, <1>5
  <2>3. shares \in Seq(Int) /\ Len(shares) = n - 1
    BY <2>1, <2>2
  <2>4. SumOfSeq(shares) \in Int /\ SumOfSeq(shares) = Sums(shares)[n - 1]
    BY <2>3, RunningTotals
  <2> DEFINE rest == total - SumOfSeq(shares)
  <2>5. rest \in Int
    BY <2>4
  <2> HIDE DEF rest
  <2>6. /\ split \in [1 .. n -> Int] /\ split[n] = rest /\ \A i \in 1 .. n - 1 : split[i] = shares[i]
    <3>1. \A i \in 1 .. n : i # n => i \in 1 .. n - 1
      BY <1>1
    <3>2. split = [i \in 1 .. n |-> IF i = n THEN rest ELSE share(i)]
      BY <1>2 DEF n, rest, shares
    <3>3. \A i \in 1 .. n - 1 : i \in 1 .. n /\ i # n
      BY <1>1
    <3> QED BY <1>1, <1>3, <1>5, <2>1, <2>5, <3>1, <3>2, <3>3
  <2>7. split \in Seq(Int) /\ Len(split) = n
    BY <1>1, <2>6
  <2>8. \A k \in 0 .. n - 1 : Sums(split)[k] = Sums(shares)[k]
    <3>1. /\ Sums(split)[0] = 0 /\ \A k \in 1 .. n : Sums(split)[k] = Sums(split)[k - 1] + split[k]
      BY <2>7, RunningTotals
    <3>2. /\ Sums(shares)[0] = 0 /\ \A k \in 1 .. n - 1 : Sums(shares)[k] = Sums(shares)[k - 1] + shares[k]
      BY <2>3, RunningTotals
    <3>3. Alike(Sums(split), Sums(shares), n - 1)
      <4>1. \A k \in 1 .. n - 1 : k \in 1 .. n
        BY <1>1
      <4> QED BY <2>6, <3>1, <3>2, <4>1 DEF Alike
    <3> QED BY <2>2, <3>3, GoAlike
  <2>9. SumOfSeq(split) = Sums(split)[n - 1] + split[n]
    <3>1. /\ \A k \in 1 .. Len(split) : Sums(split)[k] = Sums(split)[k - 1] + split[k]
          /\ SumOfSeq(split) = Sums(split)[Len(split)]
      BY <2>7, RunningTotals
    <3>2. n \in 1 .. Len(split)
      BY <1>1, <1>5, <2>7
    <3> QED BY <2>7, <3>1, <3>2
  <2>10. Sums(split)[n - 1] = SumOfSeq(shares)
    BY <2>2, <2>4, <2>8
  <2>11. SumOfSeq(split) = SumOfSeq(shares) + (total - SumOfSeq(shares))
    BY <2>6, <2>9, <2>10 DEF rest
  <2> QED BY <2>4, <2>7, <2>11 DEF split
<1> QED BY <1>1, <1>4, <1>5

LEMMA Inclusive ==
  ASSUME NEW gross \in Int, NEW n \in Nat, NEW rates, Len(rates) = n, \A i \in 1 .. n : TaxRate(rates[i]), NEW up
  PROVE  AddsUp(TX!_calculate_inclusive(gross, rates, up))
<1> DEFINE simple == TX!Simple(rates, TRUE)
           compound == TX!Compound(rates, TRUE)
           f == RunningGross(gross, compound)
           left == f[Len(compound)]
           net == IF simple = <<>> THEN left ELSE TX!RoundHalfUp(left * 100, 100 + TX!SumOfSeq(simple))
           taxes == [k \in 1 .. Len(compound) |-> TX!Included(f[k - 1], compound[k])]
           split == TX!SplitSimpleTax(left - net, simple, up)
           lines == taxes \o split
           turned == [k \in 1 .. Len(lines) |-> lines[Len(lines) + 1 - k]]
           r == TX!_calculate_inclusive(gross, rates, up)
<1>1. simple \in Seq(Nat) /\ compound \in Seq(Nat)
  BY Percentages
<1>2. r = IF Len(simple) > 1 /\ TX!SumOfSeq(simple) = 0 THEN [status |-> "InvalidOperation"]
          ELSE TX!TaxCalculationResult(net, turned, gross)
  BY DEF TX!_calculate_inclusive, RunningGross
<1> HIDE DEF r, simple, compound
<1> SUFFICES ASSUME r.status = "ok" PROVE r.net \in Int /\ r.gross \in Int /\ r.net + SumOfSeq(r.lines) = r.gross
  BY DEF AddsUp, r
<1>3. ~(Len(simple) > 1 /\ TX!SumOfSeq(simple) = 0)
  <2> HIDE DEF turned, net
  <2> QED BY <1>2
<1>4. r.net = net /\ r.lines = turned /\ r.gross = gross
  <2>1. r = TX!TaxCalculationResult(net, turned, gross)
    <3> HIDE DEF turned, net
    <3> QED BY <1>2, <1>3
  <2> HIDE DEF turned, net
  <2> QED BY <2>1 DEF TX!TaxCalculationResult
<1>5. left \in Int /\ taxes \in Seq(Int) /\ SumOfSeq(taxes) = gross - left
  BY <1>1, TakingOut
<1> HIDE DEF left, taxes
<1>6. SumOfSeq(simple) \in Nat /\ TX!SumOfSeq(simple) = SumOfSeq(simple)
  BY <1>1, SumsGrow, TaxSums
<1>7. net \in Int /\ (simple = <<>> => left - net = 0)
  <2>1. left * 100 \in Int /\ 100 + SumOfSeq(simple) \in Nat /\ 100 + SumOfSeq(simple) > 0
    BY <1>5, <1>6
  <2>2. TX!RoundHalfUp(left * 100, 100 + SumOfSeq(simple)) \in Int
    BY <2>1, TaxRounds
  <2> QED BY <1>5, <1>6, <2>2
<1> HIDE DEF net
<1>8. left - net \in Int
  BY <1>5, <1>7
<1>9. split \in Seq(Int) /\ SumOfSeq(split) = left - net
  BY <1>1, <1>3, <1>6, <1>7, <1>8, Splits
<1> HIDE DEF split
<1>10. lines \in Seq(Int) /\ SumOfSeq(lines) = (gross - left) + (left - net)
  BY <1>5, <1>9, SumOfBoth
<1> HIDE DEF lines
<1>11. SumOfSeq(turned) = SumOfSeq(lines)
  BY <1>10, SumTurned
<1> HIDE DEF turned
<1> QED BY <1>4, <1>5, <1>7, <1>10, <1>11

\* Every calculation of taxes adds up.
LEMMA Calculates ==
  ASSUME NEW amount \in Int, NEW codes, Len(codes) \in Nat, NEW rates,
         \A code \in DOMAIN rates : TaxRate(rates[code]), NEW inclusive, NEW day, NEW up
  PROVE  AddsUp(TX!calculate(amount, codes, rates, inclusive, day, up))
<1> DEFINE n == Len(codes)
           applicable == [i \in 1 .. n |-> rates[codes[i]]]
           r == TX!calculate(amount, codes, rates, inclusive, day, up)
<1>1. CASE codes = <<>>
  <2>1. r = TX!TaxCalculationResult(amount, <<>>, amount)
    BY <1>1 DEF TX!calculate
  <2>2. SumOfSeq(<<>>) = 0
    <3>1. <<>> \in Seq(Int) /\ \A k \in 1 .. Len(<<>>) : <<>>[k] = 0
      OBVIOUS
    <3> QED BY <3>1, SumOfNone
  <2>3. r.net = amount /\ r.lines = <<>> /\ r.gross = amount
    BY <2>1 DEF TX!TaxCalculationResult
  <2> HIDE DEF r
  <2> QED BY <2>2, <2>3 DEF AddsUp, r
<1>2. CASE codes # <<>> /\ \E i \in 1 .. n : codes[i] \notin DOMAIN rates \/ ~TX!is_effective(rates[codes[i]], day)
  <2>1. r = [status |-> "ValueError"]
    BY <1>2 DEF TX!calculate
  <2> HIDE DEF r
  <2>2. r.status # "ok"
    BY <2>1
  <2> QED BY <2>2 DEF AddsUp, r
<1>3. CASE codes # <<>> /\ ~ \E i \in 1 .. n : codes[i] \notin DOMAIN rates \/ ~TX!is_effective(rates[codes[i]], day)
  <2>1. r = IF inclusive THEN TX!_calculate_inclusive(amount, applicable, up)
            ELSE TX!_calculate_exclusive(amount, applicable)
    BY <1>3 DEF TX!calculate
  <2>2. \A i \in 1 .. n : applicable[i] = rates[codes[i]] /\ codes[i] \in DOMAIN rates
    BY <1>3
  <2>3. Len(applicable) = n
    OBVIOUS
  <2> HIDE DEF r, applicable
  <2>4. \A i \in 1 .. n : TaxRate(applicable[i])
    BY <2>2
  <2>5. /\ AddsUp(TX!_calculate_inclusive(amount, applicable, up))
        /\ AddsUp(TX!_calculate_exclusive(amount, applicable))
    <3> HIDE DEF n
    <3>1. n \in Nat
      BY DEF n
    <3> QED BY <2>3, <2>4, <3>1, Inclusive, Exclusive
  <2>6. r = TX!_calculate_inclusive(amount, applicable, up) \/ r = TX!_calculate_exclusive(amount, applicable)
    BY <2>1
  <2> QED BY <2>5, <2>6 DEF r
<1> QED BY <1>1, <1>2, <1>3

LEMMA CalculatesOne ==
  ASSUME NEW amount \in Int, NEW rate \in Nat, NEW inclusive, NEW day
  PROVE  /\ AddsUp(TX!calculate_sales_tax(amount, rate, day))
         /\ AddsUp(TX!calculate_vat(amount, rate, inclusive, day))
         /\ AddsUp(TX!calculate_withholding(amount, rate))
<1>1. TaxRate(TX!OneRate(rate))
  BY DEF TaxRate, TX!OneRate
<1>2. AddsUp(TX!calculate_sales_tax(amount, rate, day))
  <2> DEFINE codes == <<"SALES">>
             rates == [SALES |-> TX!OneRate(rate)]
  <2>1. Len(codes) \in Nat
    OBVIOUS
  <2>2. \A code \in DOMAIN rates : TaxRate(rates[code])
    BY <1>1
  <2> HIDE DEF codes, rates
  <2>3. AddsUp(TX!calculate(amount, codes, rates, FALSE, day, TRUE))
    BY <2>1, <2>2, Calculates
  <2> QED BY <2>3 DEF TX!calculate_sales_tax, codes, rates
<1>3. AddsUp(TX!calculate_vat(amount, rate, inclusive, day))
  <2> DEFINE codes == <<"VAT">>
             rates == [VAT |-> TX!OneRate(rate)]
  <2>1. Len(codes) \in Nat
    OBVIOUS
  <2>2. \A code \in DOMAIN rates : TaxRate(rates[code])
    BY <1>1
  <2> HIDE DEF codes, rates
  <2>3. AddsUp(TX!calculate(amount, codes, rates, inclusive, day, TRUE))
    BY <2>1, <2>2, Calculates
  <2> QED BY <2>3 DEF TX!calculate_vat, codes, rates
<1>4. AddsUp(TX!calculate_withholding(amount, rate))
  <2> DEFINE withheld == TX!PercentOf(amount, rate)
             r == TX!calculate_withholding(amount, rate)
  <2>1. withheld \in Int
    BY TaxRates
  <2>2. r.net = amount - withheld /\ r.lines = <<withheld>> /\ r.gross = amount
    BY DEF TX!calculate_withholding, TX!TaxCalculationResult
  <2> HIDE DEF withheld, r
  <2>3. SumOfSeq(<<withheld>>) = withheld
    <3>1. <<withheld>> \in Seq(Int) /\ Len(<<withheld>>) = 1 /\ <<withheld>>[1] = withheld
      BY <2>1
    <3> DEFINE s == <<withheld>>
    <3>2. s \in Seq(Int) /\ Len(s) = 1 /\ s[1] = withheld
      BY <3>1
    <3> HIDE DEF s
    <3>3. 1 \in 1 .. Len(s) /\ \A k \in 1 .. Len(s) : k # 1 => s[k] = 0
      BY <3>2
    <3>4. SumOfSeq(s) = s[1]
      BY <3>2, <3>3, SumOfOne
    <3> QED BY <3>2, <3>4 DEF s
  <2> QED BY <2>1, <2>2, <2>3 DEF AddsUp, r
<1> QED BY <1>2, <1>3, <1>4

-----------------------------------------------------------------------------
(* The engines: the specification of the jobs.                             *)

\* A job has its kind of inputs, by the engine it names.
LEMMA JobKinds ==
  ASSUME NEW j \in Jobs
  PROVE  /\ j.engine = "billing" <=> j \in BillingJobs
         /\ j.engine = "cascade" <=> j \in CascadeJobs
         /\ j.engine = "aging" <=> j \in AgingJobs
         /\ j.engine = "find" => j \in MatchJobs
         /\ j.engine = "allocation" <=> j \in AllocationJobs
         /\ j.engine \in {"tax", "onetax"} <=> j \in TaxJobs
BY EngineAssumption DEF Jobs

\* The answers of an aging job so far: reports on its documents on days that do not
\* go back.
Aged(j, answers) ==
  /\ answers \in Seq({ReportOf(j, day) : day \in AsOfDates})
  /\ \A k \in 1 .. Len(answers) - 1 : answers[k].as_of_date <= answers[k + 1].as_of_date

\* The answers of a tax job so far add up.
Taxed(answers) == \E S : answers \in Seq(S) /\ \A r \in S : AddsUp(r)
LEMMA OneMoreTax ==
  ASSUME NEW answers, Taxed(answers), NEW answer, AddsUp(answer)
  PROVE  Taxed(Append(answers, answer))
<1>1. PICK S : answers \in Seq(S) /\ \A r \in S : AddsUp(r)
  BY DEF Taxed
<1> DEFINE T == S \cup {answer}
<1>2. answers \in Seq(T) /\ answer \in T /\ \A r \in T : AddsUp(r)
  BY <1>1
<1> HIDE DEF T
<1>3. Append(answers, answer) \in Seq(T)
  BY <1>2
<1> QED BY <1>2, <1>3 DEF Taxed

\* What a job has billed stays within its limits, an allocation, a cascade and a
\* search have no answer or one of the engine's, reports go forward and taxes add up.
JobInv ==
  /\ job \in Jobs
  /\ billed \in Int
  /\ job.engine = "billing" => Within(job, billed)
  /\ job.engine = "cascade" =>
       results \in {<<>>, <<BI!execute_cascade(BI!build_dcaa_cascade, job.pools, job.rates)>>}
  /\ job.engine = "find" =>
       results \in {<<>>, <<MT!find_matches(job.target, job.candidates, job.tolerance)>>}
  /\ job.engine = "aging" => Aged(job, results)
  /\ job.engine = "allocation" =>
       \/ results = <<>>
       \/ \E r \in AL!allocate(job.amount, job.targets, job.method, job.index) : results = <<r>>
  /\ job.engine \in {"tax", "onetax"} => Taxed(results)

\* The invariant holds at the start and every call keeps it.
LEMMA JobStart == JobInit => JobInv
<1> SUFFICES ASSUME JobInit PROVE JobInv
  OBVIOUS
<1>1. job \in Jobs /\ results = <<>> /\ billed = 0
  BY DEF JobInit
<1>2. ASSUME job \in BillingJobs PROVE Within(job, billed)
  <2>1. job.funding_limit \in Nat \cup {NoAmount} /\ job.ceiling_amount \in Nat \cup {NoAmount}
    BY <1>2, BillingAssumption
  <2> QED BY <1>1, <2>1 DEF Within
<1>3. Aged(job, results)
  BY <1>1 DEF Aged
<1>4. Taxed(results)
  <2>1. results \in Seq({}) /\ \A r \in {} : AddsUp(r)
    BY <1>1
  <2> QED BY <2>1 DEF Taxed
<1> QED BY <1>1, <1>2, <1>3, <1>4, JobKinds DEF JobInv

\* A call of none of these engines leaves what the invariant says alone.
LEMMA OtherCall ==
  ASSUME JobInv, job' = job, billed' = billed,
         \/ job.engine \notin {"cascade", "find", "aging", "allocation", "tax", "onetax"}
         \/ results' = results
  PROVE  JobInv'
<1>1. job.engine \in {"cascade", "find", "aging", "allocation", "tax", "onetax"} => results' = results
  OBVIOUS
<1> QED BY <1>1 DEF JobInv

\* One more report keeps the days in order.
LEMMA OneMoreReport ==
  ASSUME NEW j \in AgingJobs, NEW answers, Aged(j, answers), NEW day \in AsOfDates,
         answers # <<>> => day >= answers[Len(answers)].as_of_date
  PROVE  Aged(j, Append(answers, ReportOf(j, day)))
<1> DEFINE R == {ReportOf(j, d) : d \in AsOfDates}
           more == Append(answers, ReportOf(j, day))
           n == Len(answers)
<1>1. answers \in Seq(R) /\ n \in Nat
      /\ \A k \in 1 .. n - 1 : answers[k].as_of_date <= answers[k + 1].as_of_date
  BY DEF Aged
<1>2. ReportOf(j, day) \in R
  OBVIOUS
<1>3. ReportOf(j, day).as_of_date = day
  <2>1. day \in Int
    BY AgingAssumption
  <2> QED BY <2>1, ReportItems
<1> HIDE DEF R
<1>4. /\ more \in Seq(R) /\ Len(more) = n + 1 /\ more[n + 1] = ReportOf(j, day)
      /\ \A k \in 1 .. n : more[k] = answers[k]
  BY <1>1, <1>2
<1> HIDE DEF more
<1>5. ASSUME NEW k \in 1 .. Len(more) - 1 PROVE more[k].as_of_date <= more[k + 1].as_of_date
  <2>1. k \in 1 .. n
    BY <1>1, <1>4
  <2>2. CASE k = n
    <3>1. answers # <<>>
      BY <1>1, <2>1, <2>2
    <3>2. answers[n].as_of_date <= day
      <4>1. answers[n] \in R
        BY <1>1, <2>1, <2>2, Element
      <4>2. PICK d \in AsOfDates : answers[n] = ReportOf(j, d)
        BY <4>1 DEF R
      <4>3. d \in Int /\ day \in Int
        BY AgingAssumption
      <4>4. answers[n].as_of_date = d
        BY <4>2, <4>3, ReportItems
      <4> QED BY <3>1, <4>3, <4>4
    <3> QED BY <1>3, <1>4, <2>1, <2>2, <3>2
  <2>3. CASE k # n
    <3>1. k \in 1 .. n - 1 /\ k + 1 \in 1 .. n
      BY <1>1, <2>1, <2>3
    <3> QED BY <1>1, <1>4, <2>1, <3>1
  <2> QED BY <2>2, <2>3
<1> QED BY <1>4, <1>5 DEF Aged, R, more

\* A calculation of the taxes of a job.
LEMMA TaxCall ==
  ASSUME NEW j \in Jobs, j.engine = "tax"
  PROVE  /\ \A up : AddsUp(TX!calculate(j.amount, j.codes, j.rates, j.inclusive, j.day, up))
         /\ \A amount \in Int : \A inclusive, up :
              AddsUp(TX!calculate(amount, j.codes, j.rates, inclusive, j.day, up))
<1>1. j \in TaxJobs
  BY JobKinds
<1>2. j.amount \in Int /\ j.codes \in Seq(STRING)
      /\ \A code \in DOMAIN j.rates : j.rates[code].rate \in Nat /\ j.rates[code].priority \in Int
  BY <1>1, TaxAssumption
<1>3. Len(j.codes) \in Nat /\ \A code \in DOMAIN j.rates : TaxRate(j.rates[code])
  BY <1>2 DEF TaxRate
<1> QED BY <1>2, <1>3, Calculates

LEMMA JobStep == JobInv /\ [JobNext]_jobVars => JobInv'
<1> SUFFICES ASSUME JobInv, [JobNext]_jobVars PROVE JobInv'
  OBVIOUS
<1>1. CASE Allocate
  <2> DEFINE answers == AL!allocate(job.amount, job.targets, job.method, job.index)
  <2>1. PICK r \in answers : results' = Append(results, r)
    BY <1>1 DEF Allocate, Returns
  <2>2. job.engine = "allocation" /\ results = <<>> /\ job' = job /\ billed' = billed
    BY <1>1 DEF Allocate, Returns
  <2> HIDE DEF answers
  <2>3. results' = <<r>>
    BY <2>1, <2>2
  <2> QED BY <2>1, <2>2, <2>3 DEF JobInv, answers
<1>2. CASE \E up \in BOOLEAN : Tax(up) \/ TaxBack(up)
  <2>1. PICK up \in BOOLEAN : Tax(up) \/ TaxBack(up)
    BY <1>2
  <2>2. CASE Tax(up)
    <3> DEFINE answer == TX!calculate(job.amount, job.codes, job.rates, job.inclusive, job.day, up)
    <3>1. job.engine = "tax" /\ results = <<>> /\ results' = Append(results, answer) /\ job' = job /\ billed' = billed
      BY <2>2 DEF Tax, Returns
    <3>2. AddsUp(answer)
      BY <3>1, TaxCall DEF JobInv
    <3> HIDE DEF answer
    <3>3. Taxed(results)
      BY <3>1 DEF JobInv
    <3>4. Taxed(results')
      BY <3>1, <3>2, <3>3, OneMoreTax
    <3> QED BY <3>1, <3>4 DEF JobInv
  <2>3. CASE TaxBack(up)
    <3> DEFINE answer == IF job.inclusive
                 THEN TX!calculate(results[1].net, job.codes, job.rates, FALSE, job.day, up)
                 ELSE TX!reverse_calculate(results[1].gross, job.codes, job.rates, job.day, up)
    <3>1. /\ job.engine = "tax" /\ Len(results) = 1 /\ results[1].status = "ok"
          /\ results' = Append(results, answer) /\ job' = job /\ billed' = billed
      BY <2>3 DEF TaxBack, Returns
    <3>2. Taxed(results)
      BY <3>1 DEF JobInv
    <3> DEFINE r == results[1]
    <3>3. r.net \in Int /\ r.gross \in Int
      <4> HIDE DEF answer
      <4>1. PICK S : results \in Seq(S) /\ \A x \in S : AddsUp(x)
        BY <3>2 DEF Taxed
      <4>2. r \in S
        BY <3>1, <4>1
      <4> QED BY <3>1, <4>1, <4>2 DEF AddsUp
    <3>4. AddsUp(answer)
      <4>1. AddsUp(TX!calculate(r.net, job.codes, job.rates, FALSE, job.day, up))
        BY <3>1, <3>3, TaxCall DEF JobInv
      <4>2. AddsUp(TX!reverse_calculate(r.gross, job.codes, job.rates, job.day, up))
        <5>1. AddsUp(TX!calculate(r.gross, job.codes, job.rates, TRUE, job.day, up))
          BY <3>1, <3>3, TaxCall DEF JobInv
        <5> QED BY <5>1 DEF TX!reverse_calculate
      <4> QED BY <3>3, <4>1, <4>2
    <3> HIDE DEF answer
    <3>5. Taxed(results')
      BY <3>1, <3>2, <3>4, OneMoreTax
    <3> QED BY <3>1, <3>5 DEF JobInv
  <2> QED BY <2>1, <2>2, <2>3
<1>3. CASE OneTax
  <2> DEFINE sales == TX!calculate_sales_tax(job.amount, job.rate, job.day)
             vat == TX!calculate_vat(job.amount, job.rate, job.inclusive, job.day)
             withholding == TX!calculate_withholding(job.amount, job.rate)
             answer == CASE job.kind = "sales" -> sales
                         [] job.kind = "vat" -> vat
                         [] job.kind = "withholding" -> withholding
  <2>1. job.engine = "onetax" /\ results = <<>> /\ results' = Append(results, answer) /\ job' = job /\ billed' = billed
    BY <1>3 DEF OneTax, Returns
  <2>2. job.amount \in Int /\ job.rate \in Nat /\ job.kind \in {"sales", "vat", "withholding"}
    BY <2>1, JobKinds, TaxAssumption DEF JobInv
  <2>3. AddsUp(sales) /\ AddsUp(vat) /\ AddsUp(withholding)
    BY <2>2, CalculatesOne
  <2> HIDE DEF sales, vat, withholding
  <2>4. answer \in {sales, vat, withholding}
    BY <2>2
  <2>5. AddsUp(answer)
    BY <2>3, <2>4
  <2> HIDE DEF answer
  <2>6. Taxed(results)
    BY <2>1 DEF JobInv
  <2>7. Taxed(results')
    BY <2>1, <2>5, <2>6, OneMoreTax
  <2> QED BY <2>1, <2>7 DEF JobInv
<1>4. CASE Match
  BY <1>4, OtherCall DEF Match, Returns
<1>5. CASE FindMatches
  <2> DEFINE answer == MT!find_matches(job.target, job.candidates, job.tolerance)
  <2>1. job.engine = "find" /\ results = <<>> /\ results' = Append(results, answer)
        /\ job' = job /\ billed' = billed
    BY <1>5 DEF FindMatches, Returns
  <2> HIDE DEF answer
  <2>2. results' = <<answer>>
    BY <2>1
  <2> QED BY <2>1, <2>2 DEF JobInv, answer
<1>6. CASE Cascade
  <2> DEFINE answer == BI!execute_cascade(BI!build_dcaa_cascade, job.pools, job.rates)
  <2>1. job.engine = "cascade" /\ results = <<>> /\ results' = Append(results, answer)
        /\ job' = job /\ billed' = billed
    BY <1>6 DEF Cascade, Returns
  <2> HIDE DEF answer
  <2>2. results' = <<answer>>
    BY <2>1
  <2> QED BY <2>1, <2>2 DEF JobInv, answer
<1>7. CASE \E work \in Works : Bill(work)
  <2>1. PICK work \in Works : Bill(work)
    BY <1>7
  <2> DEFINE gross == BI!calculate_billing(job, work, billed).gross
  <2>2. job.engine = "billing" /\ job' = job /\ billed' = billed + gross
    BY <2>1 DEF Bill
  <2>3. job \in BillingJobs /\ billed \in Int /\ Within(job, billed)
    BY <2>2, JobKinds DEF JobInv
  <2>4. gross \in Int /\ Within(job, billed + gross)
    BY <2>3, GrossWithin
  <2> HIDE DEF gross
  <2>5. billed' \in Int /\ Within(job', billed')
    BY <2>2, <2>3, <2>4
  <2> QED BY <2>2, <2>5 DEF JobInv
<1>8. CASE \E final \in FinalRates : TrueUp(final)
  BY <1>8, OtherCall DEF TrueUp, Returns
<1>9. CASE \E day \in AsOfDates : Report(day)
  <2>1. PICK day \in AsOfDates : Report(day)
    BY <1>9
  <2>2. /\ job.engine = "aging" /\ job' = job /\ billed' = billed
        /\ results # <<>> => day >= results[Len(results)].as_of_date
        /\ results' = Append(results, ReportOf(job, day))
    BY <2>1 DEF Report, Returns, ReportOf
  <2>3. job \in AgingJobs /\ Aged(job, results)
    BY <2>2, JobKinds DEF JobInv
  <2>4. Aged(job, results')
    BY <2>2, <2>3, OneMoreReport
  <2> QED BY <2>2, <2>4 DEF JobInv
<1>10. CASE UNCHANGED jobVars
  BY <1>10, OtherCall DEF jobVars
<1> QED BY <1>1, <1>2, <1>3, <1>4, <1>5, <1>6, <1>7, <1>8, <1>9, <1>10 DEF JobNext

\* calculate_billing, for any contract, any work and any number of periods: what is
\* billed never passes the funding nor, unless the price is fixed, the ceiling.
THEOREM BilledWithinLimits == JobSpec => []BillingWithinLimits
<1>1. JobInv => BillingWithinLimits
  BY DEF JobInv, BillingWithinLimits, Within
<1> QED BY <1>1, JobStart, JobStep, PTL DEF JobSpec

\* execute_cascade and calculate_indirect_costs, for any pools and rates.
THEOREM CascadeAgreesAlways == JobSpec => []CascadeAgrees
<1>1. JobInv => CascadeAgrees
  <2> SUFFICES ASSUME JobInv, job.engine = "cascade", results # <<>> PROVE CascadeAnswer(job, results[1])
    BY DEF CascadeAgrees, CascadeAnswer, Done
  <2> DEFINE answer == BI!execute_cascade(BI!build_dcaa_cascade, job.pools, job.rates)
  <2>1. job \in CascadeJobs /\ results = <<answer>>
    BY JobKinds DEF JobInv
  <2>2. CascadeAnswer(job, answer)
    BY <2>1, CascadeAgreement
  <2> HIDE DEF answer
  <2> QED BY <2>1, <2>2
<1> QED BY <1>1, JobStart, JobStep, PTL DEF JobSpec

\* find_matches, for any target, candidates and tolerance.
THEOREM SuggestionsSoundAlways == JobSpec => []SuggestionsSound
<1>1. JobInv => SuggestionsSound
  <2> SUFFICES ASSUME JobInv, job.engine = "find", results # <<>> PROVE Suggested(job, results[1])
    BY DEF SuggestionsSound, Suggested, Done
  <2> DEFINE answer == MT!find_matches(job.target, job.candidates, job.tolerance)
  <2>1. job \in MatchJobs /\ results = <<answer>>
    BY JobKinds DEF JobInv
  <2>2. Suggested(job, answer)
    BY <2>1, Suggestions
  <2> HIDE DEF answer
  <2> QED BY <2>1, <2>2
<1> QED BY <1>1, JobStart, JobStep, PTL DEF JobSpec

\* classify and the totals of AgingReport, for any documents, any buckets that follow
\* on each other and any number of reports.
THEOREM AgingForwardAlways == JobSpec => []AgingForward
<1>1. JobInv => AgingForward
  <2> SUFFICES ASSUME JobInv, job.engine = "aging" PROVE AgingForward
    BY DEF AgingForward
  <2>1. job \in AgingJobs /\ Aged(job, results)
    BY JobKinds DEF JobInv
  <2>2. ASSUME NEW k \in 1 .. Len(results)
        PROVE  \E day \in Int : results[k] = ReportOf(job, day) /\ results[k].as_of_date = day
    <3>1. results[k] \in {ReportOf(job, day) : day \in AsOfDates}
      BY <2>1, <2>2, Element DEF Aged
    <3>2. PICK day \in AsOfDates : results[k] = ReportOf(job, day)
      BY <3>1
    <3>3. day \in Int
      BY AgingAssumption
    <3> QED BY <2>1, <3>2, <3>3, ReportItems
  <2>3. \A k \in 1 .. Len(results) : NothingLost(results[k])
    BY <2>1, <2>2, LosesNothing
  <2>4. ASSUME NEW k \in 1 .. Len(results) - 1, NEW i \in 1 .. Len(job.documents)
        PROVE  BucketOf(results[k], i) <= BucketOf(results[k + 1], i)
    <3>0. Len(results) \in Nat
      BY <2>1 DEF Aged
    <3>1. k \in 1 .. Len(results) /\ k + 1 \in 1 .. Len(results)
      BY <2>4, <3>0
    <3>2. PICK day \in Int : results[k] = ReportOf(job, day) /\ results[k].as_of_date = day
      BY <2>2, <3>1
    <3>3. PICK later \in Int : results[k + 1] = ReportOf(job, later) /\ results[k + 1].as_of_date = later
      BY <2>2, <3>1
    <3>4. day <= later
      BY <2>1, <2>4, <3>2, <3>3 DEF Aged
    <3>5. BucketOf(ReportOf(job, day), i) <= BucketOf(ReportOf(job, later), i)
      BY <2>1, <3>4, Forward
    <3> QED BY <3>2, <3>3, <3>5
  <2>5. ASSUME job.buckets[1].max_days = 0,
               \A i \in 1 .. Len(job.documents) : job.documents[i].due_date # AG!NoDate,
               NEW k \in 1 .. Len(results)
        PROVE  OverdueIsNotCurrent(results[k])
    BY <2>1, <2>2, <2>5, RestIsOverdue
  <2> QED BY <2>3, <2>4, <2>5 DEF AgingForward
<1> QED BY <1>1, JobStart, JobStep, PTL DEF JobSpec

\* AllocationEngine.allocate, for any amount, any targets and any way that ties of
\* inexact ratios are rounded.
THEOREM AllocationAccountedAlways == JobSpec => []AllocationAccounted
<1>1. JobInv => AllocationAccounted
  <2> SUFFICES ASSUME JobInv, job.engine = "allocation", results # <<>>, results[1].status = "ok"
               PROVE  AllocationOf(job, results[1])
    BY DEF AllocationAccounted, AllocationOf, Ok, Done, EligibleSum, Unlimited, Full, Near
  <2>1. job \in AllocationJobs
    BY JobKinds DEF JobInv
  <2>2. PICK r \in AL!allocate(job.amount, job.targets, job.method, job.index) : results = <<r>>
    BY DEF JobInv
  <2>3. results[1] = r
    BY <2>2
  <2>4. AllocationOf(job, r)
    BY <2>1, <2>2, <2>3, Allocates
  <2> QED BY <2>3, <2>4
<1> QED BY <1>1, JobStart, JobStep, PTL DEF JobSpec

\* TaxCalculator.calculate, its inverse and the shorthands, for any amount and any
\* simple and compound rates: net amount and taxes add up to the gross amount.
THEOREM TaxAddsUpAlways == JobSpec => []TaxAddsUp
<1>1. JobInv => TaxAddsUp
  <2> SUFFICES ASSUME JobInv, job.engine \in {"tax", "onetax"}, NEW k \in 1 .. Len(results),
                      results[k].status = "ok"
               PROVE  results[k].net + SumOfSeq(results[k].lines) = results[k].gross
    BY DEF TaxAddsUp
  <2>1. Taxed(results)
    BY DEF JobInv
  <2>2. AddsUp(results[k])
    <3>1. PICK S : results \in Seq(S) /\ \A r \in S : AddsUp(r)
      BY <2>1 DEF Taxed
    <3>2. results[k] \in S
      BY <3>1, Element
    <3> QED BY <3>1, <3>2
  <2> QED BY <2>2 DEF AddsUp
<1> QED BY <1>1, JobStart, JobStep, PTL DEF JobSpec
=============================================================================
