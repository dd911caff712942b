--------------------------- MODULE BatchJobsProofs ---------------------------
(***************************************************************************)
(* Proofs about BatchJobs, for every set of sessions, schedules and keys,  *)
(* any number of items, any clock and any number of faults.                *)
(***************************************************************************)
EXTENDS BatchJobs, FiniteSetTheorems, FunctionTheorems, WellFoundedInduction, TLAPS

-----------------------------------------------------------------------------
(* Types. *)

ItemStatus == {"SUCCEEDED", "SKIPPED", "FAILED"}
ItemRows == Key \X (1 .. Items) \X ItemStatus
WorkRows == Key \X (1 .. Items)
Labels == {"idle", "submit", "insert", "execute", "items", "executed", "cancel", "commit",
           "evaluate"}
Writes == [job : [Key -> JobRows \cup {None}], items : SUBSET ItemRows,
           effect : SUBSET WorkRows, sched : [Schedule -> Runs \cup {None}]]
Txns == [pc : Labels, at : 0 .. MaxMinute, todo : SUBSET Schedule,
         seen : [Schedule -> Runs], cur : Schedule \cup {None}, key : Key \cup {None},
         next : Nat, broken : BOOLEAN, w : Writes]

\* The type invariant.
TypeOK ==
    /\ now \in 0 .. MaxMinute
    /\ pool \subseteq Session /\ active \subseteq Schedule
    /\ thread \in [Scheduler -> {"running", "stopping", "dead"}]
    /\ sched \in [Schedule -> Runs]
    /\ job \in [Key -> JobRows \cup {None}]
    /\ items \subseteq ItemRows
    /\ effect \subseteq WorkRows
    /\ counter \in Session \cup {None}
    /\ locked \in [Session -> SUBSET Key]
    /\ tx \in [Session -> Txns]

-----------------------------------------------------------------------------
(* The inductive invariant behind JobAccounts and EndedJobStays. *)

Of(k, I, status) == {x \in I : x[1] = k /\ x[3] = status}

\* The counters of row r are the items I of job k, and E is the work of those
\* that succeeded.
Counts(k, r, I, E) ==
    /\ r.succeeded = Cardinality(Of(k, I, "SUCCEEDED"))
    /\ r.failed = Cardinality(Of(k, I, "FAILED"))
    /\ r.skipped = Cardinality(Of(k, I, "SKIPPED"))
    /\ {x \in E : x[1] = k} = {<<y[1], y[2]>> : y \in Of(k, I, "SUCCEEDED")}

\* The row of a job that is not being executed.
Accounts(k, r, I, E) ==
    /\ Counts(k, r, I, E)
    /\ r.status # "RUNNING"
    /\ r.total = r.succeeded + r.failed + r.skipped
    /\ r.status \in {"PENDING", "CANCELLED"} => r.total = 0

NoItems(k, I, E) == (\A x \in I : x[1] # k) /\ (\A x \in E : x[1] # k)

\* A job without a row, or PENDING, has no items.
RowOK(k, r, I, E) ==
    /\ r = None => NoItems(k, I, E)
    /\ r # None /\ r.status = "PENDING" => r = BatchJob("PENDING") /\ NoItems(k, I, E)

CommittedOK(k) ==
    /\ RowOK(k, job[k], items, effect)
    /\ job[k] # None => Accounts(k, job[k], items, effect)

\* Session s executes job k.
Executes(s, k) == tx[s].pc = "items" /\ tx[s].key = k

\* A job that s wrote is new, under the lock of the counter, or was PENDING and
\* is locked.
WrittenOK(s, k) ==
    LET w == tx[s].w IN
    /\ RowOK(k, w.job[k], w.items, w.effect)
    /\ w.job[k] # None => /\ IF job[k] = None THEN counter = s
                             ELSE job[k].status = "PENDING" /\ k \in locked[s]
                          /\ Executes(s, k) \/ Accounts(k, w.job[k], w.items, w.effect)

\* The items of job k in I come before item i.
Below(k, i, I) == \A x \in I : x[1] = k => x[2] < i

\* The items 1 .. next - 1 have been counted.
RunningOK(s) ==
    LET w == tx[s].w
        k == tx[s].key
        r == w.job[k]
    IN  /\ r # None /\ r.status = "RUNNING" /\ r.total = Items
        /\ tx[s].next \in 1 .. Items + 1
        /\ Counts(k, r, w.items, w.effect)
        /\ Below(k, tx[s].next, w.items)
        /\ r.succeeded + r.failed + r.skipped = tx[s].next - 1

CallOK(s) ==
    /\ tx[s].pc \in {"submit", "insert", "execute", "items", "cancel"} => tx[s].key # None
    /\ tx[s].pc = "insert" => tx[s].w.job[tx[s].key] = None
    /\ tx[s].pc \in {"execute", "cancel"} => JobOf(s, tx[s].key) # None
    /\ tx[s].pc = "items" => RunningOK(s)
    /\ s \in Scheduler /\ tx[s].pc \in {"submit", "insert", "execute", "items", "executed"} =>
         tx[s].cur \in Schedule

SessionOK(s) == CallOK(s) /\ \A k \in Key : WrittenOK(s, k)

LocksOK == \A s, o \in Session : s # o => locked[s] \cap locked[o] = {}

IInv ==
    /\ TypeOK
    /\ LocksOK
    /\ \A k \in Key : CommittedOK(k)
    /\ \A s \in Session : SessionOK(s)

-----------------------------------------------------------------------------
(* The inductive invariant behind SoleSchedulerSpacing. *)

\* Sessions that are not at work do nothing.
PoolOK ==
    /\ \A s \in Session \ pool : tx[s] = Idle
    /\ \A s \in Scheduler \ pool : thread[s] = "dead"

\* Operators leave scheduled jobs and the schedules alone.
OperatorOK(s) ==
    /\ tx[s].pc # "evaluate"
    /\ tx[s].pc # "idle" => tx[s].key \in ManualKey
    /\ \A k \in Key : tx[s].w.job[k] # None => k \in ManualKey
    /\ \A sc \in Schedule : tx[s].w.sched[sc] = None

\* What a tick has submitted was due, and is rescheduled or about to be.
TickOK(s) ==
    LET x == tx[s] IN
    /\ x.pc \in {"submit", "insert", "execute", "items", "executed"} =>
         x.cur \in Schedule /\ x.key = <<x.cur, x.at>> /\ should_fire(x.cur, x.seen[x.cur], x.at)
    /\ x.pc = "execute" => x.w.job[x.key] # None /\ x.w.job[x.key].status = "PENDING"
    /\ x.pc \notin {"cancel", "commit"}
    /\ \A sc \in Schedule : x.w.sched[sc] # None =>
         /\ x.w.sched[sc] = [last |-> x.at, next |-> compute_next_run(sc, x.at)]
         /\ should_fire(sc, x.seen[sc], x.at)
    /\ \A sc \in Schedule, t \in 0 .. MaxMinute : x.w.job[<<sc, t>>] # None =>
         /\ t = x.at
         /\ \/ x.w.sched[sc] # None
            \/ x.cur = sc /\ x.pc \in {"execute", "items", "executed"}

\* The schedule of a job that was run knows it.
Rescheduled(sc, t) ==
    job[<<sc, t>>] # None =>
        /\ sched[sc].last # None
        /\ Frequency[sc] # "ONCE" /\ Cron[sc] = {} =>
             sched[sc].next # None /\ t + Delta <= sched[sc].next

\* SoleSchedulerSpacing for two jobs of one schedule.
Spaced(sc, t, u) ==
    t < u /\ job[<<sc, t>>] # None /\ job[<<sc, u>>] # None =>
        Frequency[sc] # "ONCE" /\ (Cron[sc] = {} => u - t >= Delta)

JobsSpaced ==
    \A sc \in Schedule, t \in 0 .. MaxMinute :
        Rescheduled(sc, t) /\ \A u \in 0 .. MaxMinute : Spaced(sc, t, u)

SoleOK(s) == JobsSpaced /\ (tx[s].pc # "idle" => tx[s].seen = sched)

SInv ==
    /\ PoolOK
    /\ \A s \in Operator : OperatorOK(s)
    /\ \A s \in Scheduler : TickOK(s)
    /\ \A s \in Scheduler : pool \cap Scheduler = {s} => SoleOK(s)

-----------------------------------------------------------------------------
(* Facts about the data. *)

\* A set of minutes has a first one.
LEMMA FirstMinute ==
    ASSUME NEW M \in SUBSET Nat, M # {}
    PROVE  \E m \in M : \A n \in M : m <= n
<1> DEFINE R == OpToRel(<, Nat)
<1>1. IsWellFoundedOn(R, Nat)
  BY NatLessThanWellFounded
<1>2. \A x, y \in Nat : <<y, x>> \in R <=> y < x
  BY DEF OpToRel
<1> HIDE DEF R
<1>3. \E x \in M : \A y \in M : ~ (<<y, x>> \in R)
  BY <1>1, WFMin, Zenon
<1>4. \E x \in M : \A y \in M : ~ (y < x)
  BY <1>2, <1>3, Zenon
<1> QED BY <1>4

LEMMA NextRunType ==
    ASSUME NEW sc \in Schedule, NEW t \in Nat
    PROVE  compute_next_run(sc, t) \in Nat \cup {None}
<1> DEFINE ahead == {m \in Cron[sc] : m > t}
<1>1. ahead \in SUBSET Nat /\ t + Delta \in Nat
  BY BatchAssumption
<1>2. ahead # {} => (CHOOSE m \in ahead : \A n \in ahead : m <= n) \in Nat
  BY <1>1, FirstMinute
<1> QED BY <1>1, <1>2 DEF compute_next_run

LEMMA RowFacts ==
    /\ \A st \in Terminal \cup {"PENDING", "RUNNING"} : BatchJob(st) \in JobRows
    /\ [BatchJob("RUNNING") EXCEPT !.total = Items] \in JobRows
    /\ None \notin JobRows /\ None \notin Runs /\ NeverRun \in Runs
    /\ NoWrites \in Writes
    /\ Idle \in Txns
<1>1. None \notin JobRows /\ None \notin Runs /\ NeverRun \in Runs
  BY BatchAssumption DEF Runs, NeverRun
<1>2. /\ \A st \in Terminal \cup {"PENDING", "RUNNING"} : BatchJob(st) \in JobRows
      /\ [BatchJob("RUNNING") EXCEPT !.total = Items] \in JobRows
  BY BatchAssumption DEF BatchJob, JobRows
<1>3. NoWrites \in Writes
  BY DEF NoWrites, Writes
<1>4. Idle \in Txns
  BY <1>1, <1>3, BatchAssumption DEF Idle, Txns, Labels
<1> QED BY <1>1, <1>2, <1>3, <1>4

LEMMA TxnFacts ==
    ASSUME NEW x \in Txns
    PROVE  /\ x.pc \in Labels /\ x.at \in 0 .. MaxMinute /\ x.todo \subseteq Schedule
           /\ x.seen \in [Schedule -> Runs] /\ x.cur \in Schedule \cup {None}
           /\ x.key \in Key \cup {None} /\ x.next \in Nat /\ x.broken \in BOOLEAN
           /\ x.w \in Writes
           /\ x.w.job \in [Key -> JobRows \cup {None}] /\ x.w.items \subseteq ItemRows
           /\ x.w.effect \subseteq WorkRows /\ x.w.sched \in [Schedule -> Runs \cup {None}]
BY DEF Txns, Writes

LEMMA NoItemsCounts ==
    ASSUME NEW k \in Key, NEW I, NEW E, NEW r, NoItems(k, I, E),
           r.succeeded = 0, r.failed = 0, r.skipped = 0
    PROVE  Counts(k, r, I, E)
<1>1. \A st : Of(k, I, st) = {}
  BY DEF NoItems, Of
<1>2. Cardinality({}) = 0
  BY FS_EmptySet
<1>3. {x \in E : x[1] = k} = {}
  BY DEF NoItems
<1> QED BY <1>1, <1>2, <1>3 DEF Counts

LEMMA NoWritesOK ==
    ASSUME NEW s \in Session, tx[s].w = NoWrites, NEW k \in Key
    PROVE  WrittenOK(s, k)
BY DEF WrittenOK, RowOK, NoWrites, NoItems

-----------------------------------------------------------------------------
(* Steps that change nothing committed. *)

\* What the other sessions know stays.
LEMMA SessionStep ==
    ASSUME IInv, NEW s \in Session, NEW x \in Txns, Set(s, x),
           UNCHANGED <<job, items, effect, sched, pool, active>>,
           now' \in 0 .. MaxMinute,
           thread' \in [Scheduler -> {"running", "stopping", "dead"}],
           counter' \in Session \cup {None},
           \A o \in Session \ {s} : counter = o => counter' = o,
           NEW L \in SUBSET Key, locked' = [locked EXCEPT ![s] = L],
           \A o \in Session \ {s} : L \cap locked[o] = {},
           SessionOK(s)'
    PROVE  IInv'
<1>1. /\ TypeOK'
      /\ tx'[s] = x /\ \A o \in Session \ {s} : tx'[o] = tx[o] /\ locked'[o] = locked[o]
  BY DEF IInv, TypeOK, Set
<1>2. LocksOK'
  BY DEF IInv, TypeOK, LocksOK
<1>3. \A k \in Key : CommittedOK(k)'
  BY DEF IInv, CommittedOK
<1>4. ASSUME NEW o \in Session \ {s} PROVE SessionOK(o)'
  <2>1. CallOK(o) /\ \A k \in Key : WrittenOK(o, k)
    BY DEF IInv, SessionOK
  <2>2. CallOK(o)'
    BY <1>1, <2>1 DEF CallOK, RunningOK, JobOf
  <2>3. \A k \in Key : WrittenOK(o, k)'
    BY <1>1, <2>1 DEF WrittenOK, Executes
  <2> QED BY <2>2, <2>3 DEF SessionOK
<1> QED BY <1>1, <1>2, <1>3, <1>4 DEF IInv

\* The transaction's writes stay, but for the schedules.
LEMMA PlainMove ==
    ASSUME IInv, NEW s \in Session, NEW x \in Txns, Set(s, x),
           UNCHANGED <<now, fixed, thread, sched, job, items, effect, counter, locked>>,
           tx[s].pc # "items", x.pc # "items",
           x.w.job = tx[s].w.job, x.w.items = tx[s].w.items, x.w.effect = tx[s].w.effect,
           CallOK(s)'
    PROVE  IInv'
<1>1. tx'[s] = x
  BY DEF IInv, TypeOK, Set
<1>2. ASSUME NEW k \in Key PROVE WrittenOK(s, k)'
  <2>1. WrittenOK(s, k)
    BY DEF IInv, SessionOK
  <2> QED BY <1>1, <2>1 DEF WrittenOK, Executes
<1>3. locked' = [locked EXCEPT ![s] = locked[s]] /\ locked[s] \in SUBSET Key
  BY DEF IInv, TypeOK
<1>4. \A o \in Session \ {s} : locked[s] \cap locked[o] = {}
  BY DEF IInv, LocksOK
<1> QED BY <1>2, <1>3, <1>4, SessionStep DEF IInv, TypeOK, SessionOK, fixed

\* The transaction has written nothing, or what it wrote is rolled back.
LEMMA ResetStep ==
    ASSUME IInv, NEW s \in Session, NEW x \in Txns, Set(s, x),
           UNCHANGED <<fixed, sched, job, items, effect>>,
           now' \in 0 .. MaxMinute,
           thread' \in [Scheduler -> {"running", "stopping", "dead"}],
           UNCHANGED <<counter, locked>> \/ Release(s),
           x.w = NoWrites, CallOK(s)'
    PROVE  IInv'
<1>1. tx'[s] = x
  BY DEF IInv, TypeOK, Set
<1>2. \A k \in Key : WrittenOK(s, k)'
  BY <1>1 DEF WrittenOK, RowOK, NoWrites, NoItems
<1>3. \A o \in Session \ {s} : locked[s] \cap locked[o] = {}
  BY DEF IInv, LocksOK
<1>4. /\ counter' \in Session \cup {None}
      /\ \A o \in Session \ {s} : counter = o => counter' = o
  BY DEF IInv, TypeOK, Release
<1>5. CASE Release(s)
  <2>1. locked' = [locked EXCEPT ![s] = {}]
    BY <1>5 DEF Release
  <2>2. {} \in SUBSET Key /\ \A o \in Session \ {s} : {} \cap locked[o] = {}
    OBVIOUS
  <2> QED BY <1>2, <1>4, <2>1, <2>2, SessionStep DEF SessionOK, fixed
<1>6. CASE UNCHANGED <<counter, locked>>
  <2>1. locked' = [locked EXCEPT ![s] = locked[s]] /\ locked[s] \in SUBSET Key
    BY <1>6 DEF IInv, TypeOK
  <2> QED BY <1>2, <1>3, <1>4, <2>1, SessionStep DEF SessionOK, fixed
<1> QED BY <1>5, <1>6

LEMMA LoopingFacts ==
    ASSUME NEW x \in Txns
    PROVE  /\ Looping(x) \in Txns /\ Looping(x).pc = "evaluate" /\ Looping(x).w = x.w
           /\ Looping(x).seen = x.seen /\ Looping(x).at = x.at
           /\ Broken(x) \in Txns /\ Broken(x).pc = "evaluate" /\ Broken(x).w = NoWrites
           /\ Broken(x).seen = x.seen
BY RowFacts DEF Looping, Broken, Txns, Labels

LEMMA RollbackStep ==
    ASSUME IInv, NEW s \in Session, Rollback(s)
    PROVE  IInv'
<1>1. Idle \in Txns /\ Idle.w = NoWrites /\ Set(s, Idle)
  BY RowFacts DEF Rollback, Idle
<1>2. CallOK(s)'
  BY <1>1 DEF IInv, TypeOK, CallOK, Set, Idle
<1> QED BY <1>1, <1>2, ResetStep DEF Rollback, IInv, TypeOK, fixed

LEMMA DatabaseErrorStep ==
    ASSUME IInv, NEW s \in Session, DatabaseError(s)
    PROVE  IInv'
<1> DEFINE x == IF s \in Operator THEN Idle ELSE Broken(tx[s])
<1>1. x \in Txns /\ x.w = NoWrites /\ x.pc \in {"idle", "evaluate"} /\ Set(s, x)
  BY RowFacts, LoopingFacts DEF IInv, TypeOK, DatabaseError, Idle
<1> HIDE DEF x
<1>2. CallOK(s)'
  BY <1>1 DEF IInv, TypeOK, CallOK, Set
<1> QED BY <1>1, <1>2, ResetStep DEF DatabaseError, IInv, TypeOK, fixed

LEMMA RaiseStep ==
    ASSUME IInv, NEW s \in Session, Raise(s), tx[s].pc # "items"
    PROVE  IInv'
<1>1. CASE s \in Operator
  BY <1>1, RollbackStep DEF Raise
<1>2. CASE s \notin Operator
  <2> DEFINE x == Looping(tx[s])
  <2>1. x \in Txns /\ x.w = tx[s].w /\ x.pc = "evaluate" /\ Set(s, x)
    BY <1>2, LoopingFacts DEF IInv, TypeOK, Raise
  <2> HIDE DEF x
  <2>2. CallOK(s)'
    BY <2>1 DEF IInv, TypeOK, CallOK, Set
  <2> QED BY <1>2, <2>1, <2>2, PlainMove DEF Raise, fixed
<1> QED BY <1>1, <1>2

LEMMA CrashStep ==
    ASSUME IInv, NEW s \in Session, Crash(s)
    PROVE  IInv'
<1>1. Idle \in Txns /\ Idle.w = NoWrites /\ Set(s, Idle)
  BY RowFacts DEF Crash, Idle
<1>2. CallOK(s)'
  BY <1>1 DEF IInv, TypeOK, CallOK, Set, Idle
<1>3. thread' \in [Scheduler -> {"running", "stopping", "dead"}]
  BY DEF Crash, IInv, TypeOK
<1> QED BY <1>1, <1>2, <1>3, ResetStep DEF Crash, IInv, TypeOK, fixed

LEMMA CallStep ==
    ASSUME IInv, NEW s \in Session, NEW k \in ManualKey,
           NEW op \in {"submit", "execute", "cancel"}, Call(s, k, op)
    PROVE  IInv'
<1> DEFINE x == [Idle EXCEPT !.pc = op, !.key = k]
<1>1. x \in Txns /\ x.w = NoWrites /\ x.pc = op /\ x.key = k /\ Set(s, x)
  BY RowFacts DEF Call, Idle, Txns, Labels, Key
<1> HIDE DEF x
<1>2. tx'[s] = x /\ k \in Key
  BY <1>1 DEF IInv, TypeOK, Set, Key
<1>3. NoWrites.job[k] = None
  BY <1>2 DEF NoWrites
<1>4. op # "submit" => JobOf(s, k)' # None
  BY <1>1, <1>2, <1>3 DEF Call, JobOf, Over, IInv, TypeOK
<1>5. k # None
  BY BatchAssumption
<1>6. CallOK(s)'
  <2>1. s \notin Scheduler
    BY BatchAssumption DEF Call
  <2> QED BY <1>1, <1>2, <1>4, <1>5, <2>1 DEF CallOK
<1> QED BY <1>1, <1>6, ResetStep DEF Call, IInv, TypeOK, fixed

LEMMA TickBeginStep ==
    ASSUME IInv, NEW s \in Session, TickBegin(s)
    PROVE  IInv'
<1> DEFINE x == [Idle EXCEPT !.pc = "evaluate", !.at = now, !.todo = active, !.seen = sched]
<1>1. x \in Txns /\ x.w = NoWrites /\ x.pc = "evaluate" /\ Set(s, x)
  BY RowFacts DEF TickBegin, Idle, Txns, Labels, IInv, TypeOK
<1> HIDE DEF x
<1>2. CallOK(s)'
  BY <1>1 DEF IInv, TypeOK, CallOK, Set
<1> QED BY <1>1, <1>2, ResetStep DEF TickBegin, IInv, TypeOK, fixed

LEMMA EvaluateStep ==
    ASSUME IInv, NEW s \in Session, Evaluate(s)
    PROVE  IInv'
<1>1. PICK sc \in tx[s].todo :
         Set(s, IF should_fire(sc, tx[s].seen[sc], tx[s].at)
                THEN [tx[s] EXCEPT !.todo = @ \ {sc}, !.pc = "submit", !.cur = sc,
                                   !.key = <<sc, tx[s].at>>]
                ELSE [tx[s] EXCEPT !.todo = @ \ {sc}])
  BY DEF Evaluate
<1> DEFINE x == IF should_fire(sc, tx[s].seen[sc], tx[s].at)
                THEN [tx[s] EXCEPT !.todo = @ \ {sc}, !.pc = "submit", !.cur = sc,
                                   !.key = <<sc, tx[s].at>>]
                ELSE [tx[s] EXCEPT !.todo = @ \ {sc}]
<1>2. tx[s] \in Txns /\ sc \in Schedule /\ tx[s].pc = "evaluate"
  BY TxnFacts DEF IInv, TypeOK, Evaluate
<1>3. <<sc, tx[s].at>> \in Key /\ <<sc, tx[s].at>> # None
  BY <1>2, TxnFacts, BatchAssumption DEF Key
<1>4. x \in Txns /\ x.w = tx[s].w /\ x.pc \in {"evaluate", "submit"} /\ Set(s, x)
      /\ (x.pc = "submit" => x.key # None /\ x.cur = sc)
  BY <1>1, <1>2, <1>3 DEF Txns, Labels
<1> HIDE DEF x
<1>5. CallOK(s)'
  BY <1>2, <1>4 DEF IInv, TypeOK, CallOK, Set
<1> QED BY <1>2, <1>4, <1>5, PlainMove DEF Evaluate, fixed

LEMMA RescheduleStep ==
    ASSUME IInv, NEW s \in Session, Reschedule(s), tx[s].cur \in Schedule
    PROVE  IInv'
<1> DEFINE sc == tx[s].cur
           t == tx[s].at
           run == [last |-> t, next |-> compute_next_run(sc, t)]
           x == [Looping(tx[s]) EXCEPT !.w.sched[sc] = run]
<1>1. tx[s] \in Txns /\ Looping(tx[s]) \in Txns /\ Looping(tx[s]).pc = "evaluate"
      /\ Looping(tx[s]).w = tx[s].w /\ tx[s].pc = "executed"
  BY LoopingFacts DEF IInv, TypeOK, Reschedule
<1>2. run \in Runs
  BY <1>1, TxnFacts, NextRunType, BatchAssumption DEF Runs
<1> HIDE DEF run
<1>3. x \in Txns /\ x.pc = "evaluate" /\ x.w.job = tx[s].w.job /\ x.w.items = tx[s].w.items
      /\ x.w.effect = tx[s].w.effect
  BY <1>1, <1>2 DEF Txns, Writes
<1>4. Set(s, x)
  BY DEF Reschedule, run
<1> HIDE DEF x
<1>5. CallOK(s)'
  BY <1>3, <1>4 DEF IInv, TypeOK, CallOK, Set
<1> QED BY <1>1, <1>3, <1>4, <1>5, PlainMove DEF Reschedule, fixed

LEMMA SubmitCheckStep ==
    ASSUME IInv, NEW s \in Session, SubmitCheck(s)
    PROVE  IInv'
<1> DEFINE x == [tx[s] EXCEPT !.pc = "insert"]
<1>1. CASE Raise(s)
  BY <1>1, RaiseStep DEF SubmitCheck
<1>2. CASE /\ JobOf(s, tx[s].key) = None /\ Set(s, x)
           /\ UNCHANGED <<now, faults, fixed, thread, sched, job, items, effect,
                          counter, locked>>
  <2>0. tx[s] \in Txns /\ tx[s].pc = "submit"
    BY DEF IInv, TypeOK, SubmitCheck
  <2>1. x \in Txns /\ x.w = tx[s].w /\ x.pc = "insert" /\ x.key = tx[s].key
        /\ tx[s].pc = "submit" /\ x.cur = tx[s].cur
    BY <2>0 DEF Txns, Labels
  <2> HIDE DEF x
  <2>2. tx[s].key # None /\ tx[s].key \in Key
    BY <2>1, TxnFacts DEF IInv, TypeOK, SessionOK, CallOK
  <2>3. tx[s].w.job[tx[s].key] = None
    BY <1>2, <2>2 DEF JobOf, Over, IInv, TypeOK
  <2>4. CallOK(s)'
    <3>1. s \in Scheduler => x.cur \in Schedule
      BY <2>1 DEF IInv, SessionOK, CallOK
    <3> QED BY <1>2, <2>1, <2>2, <2>3, <3>1 DEF IInv, TypeOK, CallOK, Set
  <2> QED BY <1>2, <2>1, <2>4, PlainMove DEF fixed
<1> QED BY <1>1, <1>2 DEF SubmitCheck

-----------------------------------------------------------------------------
(* Steps that write a job. *)

\* What J has beside I is of job k.
Adds(k, I, J) == I \subseteq J /\ \A y \in J \ I : y[1] = k

\* Items of k leave the accounts of the other jobs alone.
LEMMA OtherItems ==
    ASSUME NEW k, NEW j, j # k, NEW r, NEW I, NEW J, NEW E, NEW F,
           Adds(k, I, J), Adds(k, E, F)
    PROVE  /\ Accounts(j, r, I, E) => Accounts(j, r, J, F)
           /\ RowOK(j, r, I, E) => RowOK(j, r, J, F)
<1>1. \A st : Of(j, J, st) = Of(j, I, st)
  BY DEF Of, Adds
<1>2. {y \in F : y[1] = j} = {y \in E : y[1] = j}
  BY DEF Adds
<1>3. NoItems(j, I, E) => NoItems(j, J, F)
  BY DEF NoItems, Adds
<1>4. Counts(j, r, I, E) => Counts(j, r, J, F)
  BY <1>1, <1>2 DEF Counts
<1> QED BY <1>3, <1>4 DEF Accounts, RowOK

\* Session s writes the row and the items of job k.
LEMMA WriteStep ==
    ASSUME IInv, NEW s \in Session, NEW x \in Txns, Set(s, x), NEW k \in Key,
           UNCHANGED <<now, fixed, thread, sched, job, items, effect>>,
           counter' = counter \/ (counter \in {None, s} /\ counter' = s),
           NEW L \in SUBSET Key, locked' = [locked EXCEPT ![s] = L], locked[s] \subseteq L,
           \A o \in Session \ {s} : L \cap locked[o] = {},
           tx[s].pc = "items" => tx[s].key = k,
           \A j \in Key \ {k} : x.w.job[j] = tx[s].w.job[j],
           Adds(k, tx[s].w.items, x.w.items), Adds(k, tx[s].w.effect, x.w.effect),
           WrittenOK(s, k)', CallOK(s)'
    PROVE  IInv'
<1>1. tx'[s] = x /\ locked'[s] = L
  BY DEF IInv, TypeOK, Set
<1>2. counter' \in Session \cup {None}
  BY DEF IInv, TypeOK
<1>3. \A o \in Session \ {s} : counter = o => counter' = o
  BY BatchAssumption DEF Session
<1>4. ASSUME NEW j \in Key \ {k} PROVE WrittenOK(s, j)'
  <2>1. WrittenOK(s, j)
    BY DEF IInv, SessionOK
  <2>0. /\ Accounts(j, x.w.job[j], tx[s].w.items, tx[s].w.effect) =>
             Accounts(j, x.w.job[j], x.w.items, x.w.effect)
        /\ RowOK(j, x.w.job[j], tx[s].w.items, tx[s].w.effect) =>
             RowOK(j, x.w.job[j], x.w.items, x.w.effect)
    <3>1. j # k
      OBVIOUS
    <3> QED BY <3>1, OtherItems
  <2>2. RowOK(j, x.w.job[j], x.w.items, x.w.effect)
    BY <2>0, <2>1 DEF WrittenOK
  <2>3. x.w.job[j] # None => Accounts(j, x.w.job[j], x.w.items, x.w.effect)
    BY <2>0, <2>1 DEF WrittenOK, Executes
  <2>4. x.w.job[j] # None => IF job[j] = None THEN counter' = s
                             ELSE job[j].status = "PENDING" /\ j \in L
    BY <2>1 DEF WrittenOK
  <2> QED BY <1>1, <2>2, <2>3, <2>4 DEF WrittenOK
<1>5. SessionOK(s)'
  BY <1>4 DEF SessionOK
<1> QED BY <1>2, <1>3, <1>5, SessionStep DEF IInv, TypeOK, fixed

LEMMA SubmitInsertStep ==
    ASSUME IInv, NEW s \in Session, SubmitInsert(s)
    PROVE  IInv'
<1>1. CASE job[tx[s].key] # None
  BY <1>1, DatabaseErrorStep DEF SubmitInsert
<1>2. CASE job[tx[s].key] = None
  <2>0. PICK k \in Key : k = tx[s].key /\ k # None
    BY TxnFacts DEF IInv, TypeOK, SessionOK, CallOK, SubmitInsert
  <2> DEFINE to == IF s \in Operator THEN "commit" ELSE "execute"
             x == [tx[s] EXCEPT !.w.job[k] = BatchJob("PENDING"), !.pc = to]
  <2>1. /\ tx[s] \in Txns /\ tx[s].pc = "insert"
        /\ tx[s].w.job[k] = None /\ WrittenOK(s, k) /\ job[k] = None
    BY <1>2, <2>0 DEF IInv, TypeOK, SessionOK, CallOK, SubmitInsert
  <2>2. Set(s, x) /\ counter' = s /\ counter \in {None, s}
        /\ UNCHANGED <<now, fixed, thread, sched, job, items, effect, locked>>
    BY <1>2, <2>0 DEF SubmitInsert
  <2>3. BatchJob("PENDING") \in JobRows /\ BatchJob("PENDING") # None
    BY RowFacts
  <2>4. /\ x \in Txns /\ x.pc = to /\ x.key = k /\ x.cur = tx[s].cur
        /\ x.w.items = tx[s].w.items /\ x.w.effect = tx[s].w.effect
        /\ x.w.job = [tx[s].w.job EXCEPT ![k] = BatchJob("PENDING")]
    BY <2>0, <2>1, <2>3 DEF Txns, Writes, Labels
  <2> HIDE DEF x
  <2>5. tx'[s] = x /\ x.w.job[k] = BatchJob("PENDING")
    BY <2>1, <2>2, <2>4, TxnFacts DEF IInv, TypeOK, Set
  <2>6. NoItems(k, x.w.items, x.w.effect)
    BY <2>1, <2>4 DEF WrittenOK, RowOK
  <2>7. Accounts(k, BatchJob("PENDING"), x.w.items, x.w.effect)
    BY <2>1, <2>6, NoItemsCounts DEF Accounts, BatchJob
  <2>8. WrittenOK(s, k)'
    BY <2>1, <2>2, <2>3, <2>5, <2>6, <2>7 DEF WrittenOK, RowOK
  <2>9. CallOK(s)'
    <3>2. JobOf(s, k)' = BatchJob("PENDING")
      BY <2>1, <2>2, <2>3, <2>5 DEF JobOf, Over, IInv, TypeOK
    <3>3. s \in Scheduler => x.cur \in Schedule
      BY <2>1, <2>4 DEF IInv, SessionOK, CallOK
    <3> QED BY <2>3, <2>4, <2>5, <2>0, <3>2, <3>3 DEF CallOK
  <2>10. locked' = [locked EXCEPT ![s] = locked[s]] /\ locked[s] \in SUBSET Key
         /\ \A o \in Session \ {s} : locked[s] \cap locked[o] = {}
    BY <2>2 DEF IInv, TypeOK, LocksOK
  <2>11. \A j \in Key \ {k} : x.w.job[j] = tx[s].w.job[j]
    BY <2>1, <2>4, TxnFacts
  <2>12. Adds(k, tx[s].w.items, x.w.items) /\ Adds(k, tx[s].w.effect, x.w.effect)
    BY <2>4 DEF Adds
  <2> QED BY <2>1, <2>2, <2>4, <2>8, <2>9, <2>10, <2>11, <2>12, WriteStep
<1> QED BY <1>1, <1>2

\* The call's job is read PENDING under the lock and row r put in its place.
LEMMA ReadPending ==
    ASSUME IInv, NEW s \in Session, NEW k \in Key, JobOf(s, k) # None,
           JobOf(s, k).status = "PENDING",
           \A o \in Session \ {s} : k \notin locked[o]
    PROVE  /\ NoItems(k, tx[s].w.items, tx[s].w.effect)
           /\ JobOf(s, k) = BatchJob("PENDING")
           /\ IF job[k] = None THEN counter = s ELSE job[k].status = "PENDING"
<1>1. WrittenOK(s, k) /\ CommittedOK(k)
  BY DEF IInv, SessionOK
<1>2. JobOf(s, k) = IF tx[s].w.job[k] # None THEN tx[s].w.job[k] ELSE job[k]
  BY DEF JobOf, Over, IInv, TypeOK
<1> QED BY <1>1, <1>2 DEF WrittenOK, CommittedOK, RowOK

LEMMA BeginStep ==
    ASSUME IInv, NEW s \in Session, tx[s].pc = "execute",
           \A o \in Session \ {s} : tx[s].key \notin locked[o],
           JobOf(s, tx[s].key).status = "PENDING",
           NEW r \in JobRows, NEW pc \in {"items", "executed"}, Begin(s, r, pc),
           r.succeeded = 0, r.failed = 0, r.skipped = 0, r.status # "PENDING",
           IF pc = "items" THEN r.status = "RUNNING" /\ r.total = Items
           ELSE r.status = "FAILED" /\ r.total = 0
    PROVE  IInv'
<1>0. PICK k \in Key : k = tx[s].key /\ k # None
  BY TxnFacts DEF IInv, TypeOK, SessionOK, CallOK
<1> DEFINE x == [tx[s] EXCEPT !.w.job[k] = r, !.pc = pc, !.next = 1]
           L == IF job[k] # None THEN locked[s] \cup {k} ELSE locked[s]
<1>1. tx[s] \in Txns /\ JobOf(s, k) # None
  BY <1>0 DEF IInv, TypeOK, SessionOK, CallOK
<1>2. Set(s, x) /\ locked' = [locked EXCEPT ![s] = L]
      /\ UNCHANGED <<now, fixed, thread, sched, job, items, effect, counter>>
  BY <1>0 DEF Begin
<1>3. /\ NoItems(k, tx[s].w.items, tx[s].w.effect)
      /\ IF job[k] = None THEN counter = s ELSE job[k].status = "PENDING"
  BY <1>0, <1>1, ReadPending
<1>4. /\ x \in Txns /\ x.pc = pc /\ x.key = k /\ x.next = 1 /\ x.cur = tx[s].cur
      /\ x.w.items = tx[s].w.items /\ x.w.effect = tx[s].w.effect
      /\ x.w.job = [tx[s].w.job EXCEPT ![k] = r]
  BY <1>0, <1>1 DEF Txns, Writes, Labels
<1> HIDE DEF x
<1>5. tx'[s] = x /\ x.w.job[k] = r /\ r # None
      /\ \A j \in Key \ {k} : x.w.job[j] = tx[s].w.job[j]
  BY <1>1, <1>2, <1>4, TxnFacts, RowFacts DEF IInv, TypeOK, Set
<1>6. /\ L \in SUBSET Key /\ locked[s] \subseteq L /\ locked'[s] = L
      /\ \A o \in Session \ {s} : L \cap locked[o] = {}
  BY <1>0, <1>2 DEF IInv, TypeOK, LocksOK
<1>7. Counts(k, r, x.w.items, x.w.effect)
  BY <1>1, <1>3, <1>4, NoItemsCounts
<1>8. WrittenOK(s, k)'
  <2>1. RowOK(k, r, x.w.items, x.w.effect)
    BY <1>5 DEF RowOK
  <2>2. IF job[k] = None THEN counter = s ELSE job[k].status = "PENDING" /\ k \in locked'[s]
    BY <1>3, <1>6
  <2>3. pc = "items" \/ Accounts(k, r, x.w.items, x.w.effect)
    BY <1>7 DEF Accounts
  <2> QED BY <1>2, <1>4, <1>5, <2>1, <2>2, <2>3 DEF WrittenOK, Executes
<1>9. CallOK(s)'
  <2>2. pc = "items" => RunningOK(s)'
    <3>1. 1 \in 1 .. Items + 1 /\ r.succeeded + r.failed + r.skipped = 1 - 1
      BY BatchAssumption
    <3>2. Below(k, 1, x.w.items)
      BY <1>3, <1>4 DEF NoItems, Below
    <3> QED BY <1>4, <1>5, <1>7, <3>1, <3>2 DEF RunningOK
  <2>3. s \in Scheduler => x.cur \in Schedule
    BY <1>4 DEF IInv, SessionOK, CallOK
  <2> QED BY <1>0, <1>4, <1>5, <2>2, <2>3 DEF CallOK
<1>10. Adds(k, tx[s].w.items, x.w.items) /\ Adds(k, tx[s].w.effect, x.w.effect)
  BY <1>4 DEF Adds
<1> HIDE DEF L
<1> QED BY <1>1, <1>2, <1>4, <1>5, <1>6, <1>8, <1>9, <1>10, WriteStep

LEMMA ExecuteBeginStep ==
    ASSUME IInv, NEW s \in Session, ExecuteBegin(s)
    PROVE  IInv'
<1> DEFINE running == [BatchJob("RUNNING") EXCEPT !.total = Items]
<1>1. tx[s].pc = "execute" /\ \A o \in Session \ {s} : tx[s].key \notin locked[o]
  BY DEF ExecuteBegin
<1>2. CASE Raise(s)
  BY <1>1, <1>2, RaiseStep
<1>3. CASE DatabaseError(s)
  BY <1>3, DatabaseErrorStep
<1>4. CASE JobOf(s, tx[s].key).status = "PENDING" /\ Begin(s, running, "items")
  <2>1. running \in JobRows /\ running.status = "RUNNING" /\ running.total = Items
        /\ running.succeeded = 0 /\ running.failed = 0 /\ running.skipped = 0
    BY RowFacts DEF BatchJob
  <2> HIDE DEF running
  <2> QED BY <1>1, <1>4, <2>1, BeginStep
<1>5. CASE JobOf(s, tx[s].key).status = "PENDING" /\ Begin(s, FailedJob, "executed")
  <2>1. FailedJob \in JobRows /\ FailedJob.status = "FAILED" /\ FailedJob.total = 0
        /\ FailedJob.succeeded = 0 /\ FailedJob.failed = 0 /\ FailedJob.skipped = 0
    BY RowFacts DEF BatchJob, FailedJob, Terminal, Executed
  <2> QED BY <1>1, <1>5, <2>1, BeginStep
<1> QED BY <1>2, <1>3, <1>4, <1>5 DEF ExecuteBegin

LEMMA ItemsFinite ==
    ASSUME NEW k, NEW status, NEW I \in SUBSET ItemRows
    PROVE  IsFiniteSet(Of(k, I, status))
<1> DEFINE index == [y \in Of(k, I, status) |-> y[2]]
<1>1. IsFiniteSet(1 .. Items)
  BY FS_Interval, BatchAssumption
<1>2. index \in [Of(k, I, status) -> 1 .. Items]
  BY DEF Of, ItemRows
<1>3. \A x, y \in Of(k, I, status) : index[x] = index[y] => x = y
  BY DEF Of, ItemRows
<1> HIDE DEF index
<1>4. index \in Injection(Of(k, I, status), 1 .. Items)
  BY <1>2, <1>3, Fun_IsInj
<1> QED BY <1>1, <1>4, FS_Injection

\* One more item of k, behind the others.
LEMMA ItemAdded ==
    ASSUME NEW k \in Key, NEW i \in 1 .. Items, NEW status \in ItemStatus,
           NEW I \in SUBSET ItemRows, Below(k, i, I)
    PROVE  /\ Of(k, I \cup {<<k, i, status>>}, status) = Of(k, I, status) \cup {<<k, i, status>>}
           /\ \A st \in ItemStatus \ {status} : Of(k, I \cup {<<k, i, status>>}, st) = Of(k, I, st)
           /\ \A st \in ItemStatus :
                Cardinality(Of(k, I \cup {<<k, i, status>>}, st)) =
                  Cardinality(Of(k, I, st)) + (IF st = status THEN 1 ELSE 0)
           /\ \A st \in ItemStatus : Cardinality(Of(k, I, st)) \in Nat
<1> DEFINE y == <<k, i, status>>
<1>1. Of(k, I \cup {y}, status) = Of(k, I, status) \cup {y}
  BY DEF Of
<1>2. \A st \in ItemStatus \ {status} : Of(k, I \cup {y}, st) = Of(k, I, st)
  BY DEF Of
<1>3. y \notin Of(k, I, status)
  BY DEF Of, Below
<1>4. \A st : IsFiniteSet(Of(k, I, st))
  BY ItemsFinite
<1>5. \A st : Cardinality(Of(k, I, st)) \in Nat
  BY <1>4, FS_CardinalityType
<1>6. Cardinality(Of(k, I, status) \cup {y}) = Cardinality(Of(k, I, status)) + 1
  BY <1>3, <1>4, FS_AddElement
<1>7. ASSUME NEW st \in ItemStatus
      PROVE  Cardinality(Of(k, I \cup {y}, st)) =
               Cardinality(Of(k, I, st)) + (IF st = status THEN 1 ELSE 0)
  <2>1. CASE st = status
    BY <1>1, <1>6, <2>1
  <2>2. CASE st # status
    <3>1. Of(k, I \cup {y}, st) = Of(k, I, st)
      BY <1>2, <2>2
    <3> QED BY <1>5, <2>2, <3>1
  <2> QED BY <2>1, <2>2
<1> QED BY <1>1, <1>2, <1>5, <1>7

LEMMA CountedFacts ==
    ASSUME NEW r \in JobRows, NEW status \in ItemStatus
    PROVE  LET q == Counted(r, status) IN
           /\ q \in JobRows /\ q.status = r.status /\ q.total = r.total
           /\ q.succeeded = r.succeeded + (IF "SUCCEEDED" = status THEN 1 ELSE 0)
           /\ q.failed = r.failed + (IF "FAILED" = status THEN 1 ELSE 0)
           /\ q.skipped = r.skipped + (IF "SKIPPED" = status THEN 1 ELSE 0)
           /\ q.succeeded + q.failed + q.skipped = r.succeeded + r.failed + r.skipped + 1
<1>1. /\ r.succeeded \in Nat /\ r.failed \in Nat /\ r.skipped \in Nat
      /\ r.total \in Nat /\ r.status \in Terminal \cup {"PENDING", "RUNNING"}
      /\ r = [status |-> r.status, total |-> r.total, succeeded |-> r.succeeded,
              failed |-> r.failed, skipped |-> r.skipped]
  BY DEF JobRows
<1>2. LET q == Counted(r, status) IN
      /\ q.status = r.status /\ q.total = r.total
      /\ q.succeeded = r.succeeded + (IF "SUCCEEDED" = status THEN 1 ELSE 0)
      /\ q.failed = r.failed + (IF "FAILED" = status THEN 1 ELSE 0)
      /\ q.skipped = r.skipped + (IF "SKIPPED" = status THEN 1 ELSE 0)
  BY <1>1 DEF Counted
<1>3. Counted(r, status) \in JobRows
  <2> DEFINE a == r.succeeded + (IF status = "SUCCEEDED" THEN 1 ELSE 0)
             b == r.failed + (IF status = "FAILED" THEN 1 ELSE 0)
             c == r.skipped + (IF status = "SKIPPED" THEN 1 ELSE 0)
  <2>1. a \in Nat /\ b \in Nat /\ c \in Nat
    BY <1>1
  <2>2. Counted(r, status) = [r EXCEPT !.succeeded = a, !.failed = b, !.skipped = c]
    BY <1>1 DEF Counted
  <2> HIDE DEF a, b, c
  <2> QED BY <2>1, <2>2 DEF JobRows
<1> QED BY <1>1, <1>2, <1>3 DEF ItemStatus

LEMMA CountItem ==
    ASSUME NEW k \in Key, NEW i \in 1 .. Items, NEW status \in ItemStatus,
           NEW I \in SUBSET ItemRows, NEW E, NEW r \in JobRows,
           Counts(k, r, I, E), Below(k, i, I)
    PROVE  Counts(k, Counted(r, status), I \cup {<<k, i, status>>},
                  E \cup (IF SurvivesSavepoint(status) THEN {<<k, i>>} ELSE {}))
<1> DEFINE q == Counted(r, status)
           J == I \cup {<<k, i, status>>}
           F == E \cup (IF SurvivesSavepoint(status) THEN {<<k, i>>} ELSE {})
<1>1. /\ q.succeeded = Cardinality(Of(k, J, "SUCCEEDED"))
      /\ q.failed = Cardinality(Of(k, J, "FAILED"))
      /\ q.skipped = Cardinality(Of(k, J, "SKIPPED"))
  <2>1. /\ q.succeeded = r.succeeded + (IF "SUCCEEDED" = status THEN 1 ELSE 0)
        /\ q.failed = r.failed + (IF "FAILED" = status THEN 1 ELSE 0)
        /\ q.skipped = r.skipped + (IF "SKIPPED" = status THEN 1 ELSE 0)
    BY CountedFacts
  <2>2. \A st \in ItemStatus :
          Cardinality(Of(k, J, st)) = Cardinality(Of(k, I, st)) + (IF st = status THEN 1 ELSE 0)
    BY ItemAdded
  <2>3. {"SUCCEEDED", "FAILED", "SKIPPED"} \subseteq ItemStatus
    BY DEF ItemStatus
  <2> HIDE DEF q, J
  <2> QED BY <2>1, <2>2, <2>3 DEF Counts
<1>2. {x \in F : x[1] = k} = {<<y[1], y[2]>> : y \in Of(k, J, "SUCCEEDED")}
  <2>1. {x \in E : x[1] = k} = {<<y[1], y[2]>> : y \in Of(k, I, "SUCCEEDED")}
    BY DEF Counts
  <2>2. CASE status = "SUCCEEDED"
    <3>1. F = E \cup {<<k, i>>}
      BY <2>2 DEF SurvivesSavepoint
    <3>2. Of(k, J, "SUCCEEDED") = Of(k, I, "SUCCEEDED") \cup {<<k, i, status>>}
      BY <2>2, ItemAdded
    <3> DEFINE S == Of(k, I, "SUCCEEDED")
    <3>3. {x \in F : x[1] = k} = {x \in E : x[1] = k} \cup {<<k, i>>}
      BY <3>1
    <3>4. {<<y[1], y[2]>> : y \in S \cup {<<k, i, status>>}} =
            {<<y[1], y[2]>> : y \in S} \cup {<<k, i>>}
      <4> DEFINE z == <<k, i, status>>
      <4>1. <<z[1], z[2]>> = <<k, i>>
        OBVIOUS
      <4> HIDE DEF S, z
      <4>2. {<<y[1], y[2]>> : y \in S \cup {z}} = {<<y[1], y[2]>> : y \in S} \cup {<<z[1], z[2]>>}
        BY Zenon
      <4> QED BY <4>1, <4>2 DEF z
    <3> HIDE DEF F, J
    <3> QED BY <2>1, <3>2, <3>3, <3>4
  <2>3. CASE status # "SUCCEEDED"
    <3>1. F = E
      BY <2>3 DEF SurvivesSavepoint
    <3>2. Of(k, J, "SUCCEEDED") = Of(k, I, "SUCCEEDED")
      <4>1. "SUCCEEDED" \in ItemStatus \ {status}
        BY <2>3 DEF ItemStatus
      <4>2. \A st \in ItemStatus \ {status} : Of(k, J, st) = Of(k, I, st)
        BY ItemAdded
      <4> QED BY <4>1, <4>2, Zenon
    <3> HIDE DEF F, J
    <3> QED BY <2>1, <3>1, <3>2
  <2> QED BY <2>2, <2>3
<1> QED BY <1>1, <1>2 DEF Counts

LEMMA ExecuteItemStep ==
    ASSUME IInv, NEW s \in Session, ExecuteItem(s)
    PROVE  IInv'
<1>0. PICK k \in Key : k = tx[s].key /\ k # None
  BY TxnFacts DEF IInv, TypeOK, SessionOK, CallOK, ExecuteItem
<1>1. PICK i \in Nat : i = tx[s].next /\ i <= Items
  BY TxnFacts DEF IInv, TypeOK, ExecuteItem
<1>2. PICK status \in ItemStatus :
         Set(s, [tx[s] EXCEPT
                 !.next = i + 1,
                 !.w.items = @ \cup {<<k, i, status>>},
                 !.w.effect = @ \cup (IF SurvivesSavepoint(status) THEN {<<k, i>>} ELSE {}),
                 !.w.job[k] = Counted(@, status)])
  BY <1>0, <1>1 DEF ExecuteItem, ItemStatus
<1> DEFINE w == tx[s].w
           r == w.job[k]
           q == Counted(r, status)
           F == IF SurvivesSavepoint(status) THEN {<<k, i>>} ELSE {}
           v == [job |-> [w.job EXCEPT ![k] = q],
                 items |-> w.items \cup {<<k, i, status>>},
                 effect |-> w.effect \cup F,
                 sched |-> w.sched]
           x == [tx[s] EXCEPT !.next = i + 1, !.w = v]
<1>3. /\ tx[s] \in Txns /\ tx[s].pc = "items" /\ RunningOK(s) /\ WrittenOK(s, k)
      /\ UNCHANGED <<now, fixed, thread, sched, job, items, effect, counter, locked>>
  BY DEF IInv, TypeOK, SessionOK, CallOK, ExecuteItem
<1>4. /\ r \in JobRows /\ r # None /\ r.status = "RUNNING" /\ r.total = Items
      /\ i \in 1 .. Items /\ Counts(k, r, w.items, w.effect) /\ Below(k, i, w.items)
      /\ r.succeeded + r.failed + r.skipped = i - 1
  BY <1>0, <1>1, <1>3, TxnFacts, BatchAssumption DEF RunningOK
<1>5. /\ q \in JobRows /\ q # None /\ q.status = "RUNNING" /\ q.total = Items
      /\ q.succeeded + q.failed + q.skipped = i
  <2>1. /\ q \in JobRows /\ q.status = r.status /\ q.total = r.total
        /\ q.succeeded + q.failed + q.skipped = r.succeeded + r.failed + r.skipped + 1
    BY <1>4, CountedFacts
  <2> HIDE DEF q
  <2> QED BY <1>4, <2>1, RowFacts
<1>6. Counts(k, q, w.items \cup {<<k, i, status>>}, w.effect \cup F)
  BY <1>3, <1>4, TxnFacts, CountItem
<1> HIDE DEF q
<1>7. /\ <<k, i, status>> \in ItemRows /\ F \subseteq WorkRows
  BY <1>4 DEF ItemRows, WorkRows
<1>8. /\ x \in Txns /\ x.pc = "items" /\ x.key = k /\ x.next = i + 1 /\ x.cur = tx[s].cur
      /\ x.w.job = [w.job EXCEPT ![k] = q]
      /\ x.w.items = w.items \cup {<<k, i, status>>}
      /\ x.w.effect = w.effect \cup F
  <2> HIDE DEF F
  <2>1. v \in Writes /\ v.job = [w.job EXCEPT ![k] = q]
        /\ v.items = w.items \cup {<<k, i, status>>} /\ v.effect = w.effect \cup F
    <3>1. /\ w.job \in [Key -> JobRows \cup {None}] /\ w.items \subseteq ItemRows
          /\ w.effect \subseteq WorkRows /\ w.sched \in [Schedule -> Runs \cup {None}]
      BY <1>3, TxnFacts
    <3> HIDE DEF w
    <3> QED BY <1>5, <1>7, <3>1 DEF Writes
  <2> HIDE DEF v
  <2>2. i + 1 \in Nat
    OBVIOUS
  <2> QED BY <1>0, <1>1, <1>3, <2>1, <2>2 DEF Txns
<1>9. Set(s, x)
  <2>1. x = [tx[s] EXCEPT !.next = i + 1,
                 !.w.items = @ \cup {<<k, i, status>>},
                 !.w.effect = @ \cup F,
                 !.w.job[k] = Counted(@, status)]
    <3> HIDE DEF F
    <3> QED BY <1>3 DEF Txns, Writes, q
  <2> QED BY <1>2, <2>1
<1>10. Adds(k, w.items, x.w.items) /\ Adds(k, w.effect, x.w.effect)
  BY <1>8 DEF Adds
<1> HIDE DEF x, F
<1>11. tx'[s] = x /\ x.w.job[k] = q
       /\ \A j \in Key \ {k} : x.w.job[j] = w.job[j]
  BY <1>3, <1>8, <1>9, TxnFacts DEF IInv, TypeOK, Set
<1>12. WrittenOK(s, k)'
  <2>1. RowOK(k, q, x.w.items, x.w.effect)
    BY <1>5 DEF RowOK
  <2>2. IF job[k] = None THEN counter = s ELSE job[k].status = "PENDING" /\ k \in locked[s]
    BY <1>3, <1>4 DEF WrittenOK
  <2> QED BY <1>3, <1>8, <1>11, <2>1, <2>2 DEF WrittenOK, Executes
<1>13. CallOK(s)'
  <2>1. Below(k, i + 1, x.w.items)
    BY <1>4, <1>8, BatchAssumption, TxnFacts, <1>3 DEF Below, ItemRows
  <2>2. i + 1 \in 1 .. Items + 1 /\ (i + 1) - 1 = i
    BY <1>4, BatchAssumption
  <2>3. RunningOK(s)'
    BY <1>5, <1>6, <1>8, <1>11, <2>1, <2>2 DEF RunningOK
  <2>4. s \in Scheduler => x.cur \in Schedule
    BY <1>3, <1>8 DEF IInv, SessionOK, CallOK
  <2> QED BY <1>0, <1>8, <1>11, <2>3, <2>4 DEF CallOK
<1>14. locked' = [locked EXCEPT ![s] = locked[s]] /\ locked[s] \in SUBSET Key
       /\ \A o \in Session \ {s} : locked[s] \cap locked[o] = {}
  BY <1>3 DEF IInv, TypeOK, LocksOK
<1> QED BY <1>0, <1>3, <1>8, <1>9, <1>10, <1>11, <1>12, <1>13, <1>14, WriteStep

LEMMA ExecuteFinishStep ==
    ASSUME IInv, NEW s \in Session, ExecuteFinish(s)
    PROVE  IInv'
<1>0. PICK k \in Key : k = tx[s].key /\ k # None
  BY TxnFacts DEF IInv, TypeOK, SessionOK, CallOK, ExecuteFinish
<1> DEFINE w == tx[s].w
           r == w.job[k]
           q == [r EXCEPT !.status = FinalStatus(r)]
           x == [tx[s] EXCEPT !.pc = "executed", !.w.job[k] = q]
<1>1. /\ tx[s] \in Txns /\ tx[s].pc = "items" /\ RunningOK(s) /\ WrittenOK(s, k)
      /\ tx[s].next > Items
      /\ UNCHANGED <<now, fixed, thread, sched, job, items, effect, counter, locked>>
  BY DEF IInv, TypeOK, SessionOK, CallOK, ExecuteFinish
<1>2. /\ r \in JobRows /\ r # None /\ r.total = Items
      /\ Counts(k, r, w.items, w.effect)
      /\ r.succeeded + r.failed + r.skipped = Items
  BY <1>0, <1>1, TxnFacts, BatchAssumption DEF RunningOK
<1>3. FinalStatus(r) \in Executed
  BY DEF FinalStatus, Executed
<1>4. /\ q \in JobRows /\ q # None /\ q.status \in Executed /\ q.total = r.total
      /\ q.succeeded = r.succeeded /\ q.failed = r.failed /\ q.skipped = r.skipped
  <2>1. /\ q \in JobRows /\ q.status = FinalStatus(r) /\ q.total = r.total
        /\ q.succeeded = r.succeeded /\ q.failed = r.failed /\ q.skipped = r.skipped
    BY <1>2, <1>3 DEF JobRows, Terminal
  <2> HIDE DEF q
  <2> QED BY <1>3, <2>1, RowFacts
<1> HIDE DEF q
<1>5. /\ x \in Txns /\ x.pc = "executed" /\ x.key = k /\ x.cur = tx[s].cur
      /\ x.w.job = [w.job EXCEPT ![k] = q]
      /\ x.w.items = w.items /\ x.w.effect = w.effect
  BY <1>0, <1>1, <1>4 DEF Txns, Writes, Labels
<1>6. Set(s, x)
  <2>1. x = [tx[s] EXCEPT !.w.job[k].status = FinalStatus(r), !.pc = "executed"]
    BY <1>0, <1>1 DEF Txns, Writes, q
  <2> QED BY <1>0, <2>1 DEF ExecuteFinish
<1>7. Adds(k, w.items, x.w.items) /\ Adds(k, w.effect, x.w.effect)
  BY <1>5 DEF Adds
<1> HIDE DEF x
<1>8. tx'[s] = x /\ x.w.job[k] = q /\ \A j \in Key \ {k} : x.w.job[j] = w.job[j]
  BY <1>1, <1>5, <1>6, TxnFacts DEF IInv, TypeOK, Set
<1>9. WrittenOK(s, k)'
  <2>1. RowOK(k, q, x.w.items, x.w.effect)
    BY <1>4 DEF RowOK, Executed
  <2>2. IF job[k] = None THEN counter = s ELSE job[k].status = "PENDING" /\ k \in locked[s]
    BY <1>1, <1>2 DEF WrittenOK
  <2>3. Accounts(k, q, x.w.items, x.w.effect)
    BY <1>2, <1>4, <1>5 DEF Accounts, Counts, Executed
  <2> QED BY <1>1, <1>8, <2>1, <2>2, <2>3 DEF WrittenOK
<1>10. CallOK(s)'
  <2>1. s \in Scheduler => x.cur \in Schedule
    BY <1>1, <1>5 DEF IInv, SessionOK, CallOK
  <2> QED BY <1>5, <1>8, <2>1 DEF CallOK
<1>11. locked' = [locked EXCEPT ![s] = locked[s]] /\ locked[s] \in SUBSET Key
       /\ \A o \in Session \ {s} : locked[s] \cap locked[o] = {}
  BY <1>1 DEF IInv, TypeOK, LocksOK
<1> QED BY <1>0, <1>1, <1>5, <1>6, <1>7, <1>8, <1>9, <1>10, <1>11, WriteStep

LEMMA CancelJobStep ==
    ASSUME IInv, NEW s \in Session, CancelJob(s)
    PROVE  IInv'
<1>0. PICK k \in Key : k = tx[s].key /\ k # None
  BY TxnFacts DEF IInv, TypeOK, SessionOK, CallOK, CancelJob
<1>1. /\ tx[s] \in Txns /\ tx[s].pc = "cancel" /\ JobOf(s, k) # None
      /\ \A o \in Session \ {s} : k \notin locked[o]
  BY <1>0 DEF IInv, TypeOK, SessionOK, CallOK, CancelJob
<1>2. CASE Raise(s)
  BY <1>1, <1>2, RaiseStep
<1>3. CASE ~Raise(s)
  <2> DEFINE w == tx[s].w
             q == [JobOf(s, k) EXCEPT !.status = "CANCELLED"]
             x == [tx[s] EXCEPT !.w.job[k] = q, !.pc = "commit"]
  <2>1. /\ Set(s, x) /\ locked' = [locked EXCEPT ![s] = locked[s] \cup {k}]
        /\ JobOf(s, k).status \in {"PENDING", "RUNNING"}
        /\ UNCHANGED <<now, fixed, thread, sched, job, items, effect, counter>>
    BY <1>0, <1>3 DEF CancelJob
  <2>2. WrittenOK(s, k) /\ CommittedOK(k)
        /\ JobOf(s, k) = IF w.job[k] # None THEN w.job[k] ELSE job[k]
    BY DEF IInv, TypeOK, SessionOK, JobOf, Over
  <2>3. JobOf(s, k).status = "PENDING"
    BY <1>1, <2>1, <2>2 DEF WrittenOK, CommittedOK, Accounts, Executes
  <2>4. /\ NoItems(k, w.items, w.effect) /\ JobOf(s, k) = BatchJob("PENDING")
        /\ IF job[k] = None THEN counter = s ELSE job[k].status = "PENDING"
    BY <1>1, <2>3, ReadPending
  <2>5. q = BatchJob("CANCELLED") /\ q \in JobRows /\ q # None
    BY <2>4, RowFacts DEF BatchJob, Terminal
  <2> HIDE DEF q
  <2>6. /\ x \in Txns /\ x.pc = "commit" /\ x.key = k
        /\ x.w.job = [w.job EXCEPT ![k] = q]
        /\ x.w.items = w.items /\ x.w.effect = w.effect
    BY <1>0, <1>1, <2>5 DEF Txns, Writes, Labels
  <2>7. Adds(k, w.items, x.w.items) /\ Adds(k, w.effect, x.w.effect)
    BY <2>6 DEF Adds
  <2> HIDE DEF x
  <2>8. tx'[s] = x /\ x.w.job[k] = q /\ \A j \in Key \ {k} : x.w.job[j] = w.job[j]
    BY <1>1, <2>1, <2>6, TxnFacts DEF IInv, TypeOK, Set
  <2> DEFINE L == locked[s] \cup {k}
  <2>9. /\ locked' = [locked EXCEPT ![s] = L] /\ locked'[s] = L
        /\ L \in SUBSET Key /\ locked[s] \subseteq L
        /\ \A o \in Session \ {s} : L \cap locked[o] = {}
    BY <1>1, <2>1 DEF IInv, TypeOK, LocksOK
  <2> HIDE DEF L
  <2>10. WrittenOK(s, k)'
    <3>1. RowOK(k, q, x.w.items, x.w.effect)
      BY <2>5 DEF RowOK, BatchJob
    <3>2. IF job[k] = None THEN counter = s ELSE job[k].status = "PENDING" /\ k \in locked'[s]
      BY <2>4, <2>9 DEF L
    <3>3. Accounts(k, q, x.w.items, x.w.effect)
      BY <2>4, <2>5, <2>6, NoItemsCounts DEF Accounts, BatchJob
    <3> QED BY <2>1, <2>8, <3>1, <3>2, <3>3 DEF WrittenOK
  <2>11. CallOK(s)'
    BY <2>6, <2>8 DEF CallOK
  <2> QED BY <1>1, <2>1, <2>6, <2>7, <2>8, <2>9, <2>10, <2>11, WriteStep
<1> QED BY <1>2, <1>3

-----------------------------------------------------------------------------
(* Commit *)

\* Items of other jobs do not matter to the accounts of k.
LEMMA Merged ==
    ASSUME NEW k, NEW r, NEW I, NEW J, NEW E, NEW F, NoItems(k, I, E)
    PROVE  /\ Accounts(k, r, J, F) => Accounts(k, r, I \cup J, E \cup F)
           /\ RowOK(k, r, J, F) => RowOK(k, r, I \cup J, E \cup F)
<1>1. \A st : Of(k, I \cup J, st) = Of(k, J, st)
  BY DEF Of, NoItems
<1>2. {y \in E \cup F : y[1] = k} = {y \in F : y[1] = k}
  BY DEF NoItems
<1>3. NoItems(k, J, F) => NoItems(k, I \cup J, E \cup F)
  BY DEF NoItems
<1>4. Counts(k, r, J, F) => Counts(k, r, I \cup J, E \cup F)
  BY <1>1, <1>2 DEF Counts
<1> QED BY <1>3, <1>4 DEF Accounts, RowOK

LEMMA CommitFacts ==
    ASSUME IInv, NEW s \in Session, tx[s].pc # "items", Commit(s)
    PROVE  /\ TypeOK' /\ LocksOK'
           /\ \A k \in Key : job'[k] = IF tx[s].w.job[k] # None THEN tx[s].w.job[k] ELSE job[k]
           /\ tx'[s] = Idle /\ locked'[s] = {}
           /\ \A o \in Session \ {s} :
                tx'[o] = tx[o] /\ locked'[o] = locked[o] /\ (counter = o => counter' = o)
<1>1. tx[s] \in Txns
  BY DEF IInv, TypeOK
<1>2. /\ job' \in [Key -> JobRows \cup {None}]
      /\ \A k \in Key : job'[k] = IF tx[s].w.job[k] # None THEN tx[s].w.job[k] ELSE job[k]
  <2>1. tx[s].w.job \in [Key -> JobRows \cup {None}] /\ job \in [Key -> JobRows \cup {None}]
    BY <1>1, TxnFacts DEF IInv, TypeOK
  <2>2. job' = Over(tx[s].w.job, job) /\ None \notin JobRows
    BY RowFacts DEF Commit
  <2> HIDE DEF JobRows
  <2> QED BY <2>1, <2>2 DEF Over
<1>3. sched' \in [Schedule -> Runs]
  <2>1. sched \in [Schedule -> Runs] /\ tx[s].w.sched \in [Schedule -> Runs \cup {None}]
    BY <1>1, TxnFacts DEF IInv, TypeOK
  <2>2. sched' = Over(tx[s].w.sched, sched) /\ None \notin Runs
    BY RowFacts DEF Commit
  <2> QED BY <2>1, <2>2 DEF Over
<1>4. items' \subseteq ItemRows /\ effect' \subseteq WorkRows
  BY <1>1, TxnFacts DEF IInv, TypeOK, Commit
<1>5. counter' \in Session \cup {None} /\ locked' \in [Session -> SUBSET Key]
      /\ locked'[s] = {}
      /\ \A o \in Session \ {s} : locked'[o] = locked[o] /\ (counter = o => counter' = o)
  BY DEF IInv, TypeOK, Commit, Release
<1>6. tx' \in [Session -> Txns] /\ tx'[s] = Idle /\ \A o \in Session \ {s} : tx'[o] = tx[o]
  BY RowFacts DEF IInv, TypeOK, Commit, Set
<1>7. LocksOK'
  BY <1>5 DEF IInv, LocksOK
<1>8. TypeOK'
  BY <1>2, <1>3, <1>4, <1>5, <1>6 DEF IInv, TypeOK, Commit, fixed
<1> QED BY <1>2, <1>5, <1>6, <1>7, <1>8

LEMMA CommitStep ==
    ASSUME IInv, NEW s \in Session, tx[s].pc # "items", Commit(s)
    PROVE  IInv'
<1> DEFINE w == tx[s].w
<1>1. /\ items' = items \cup w.items /\ effect' = effect \cup w.effect
      /\ items' = w.items \cup items /\ effect' = w.effect \cup effect
  BY DEF Commit
<1>2. ASSUME NEW k \in Key PROVE CommittedOK(k)'
  <2>1. WrittenOK(s, k) /\ CommittedOK(k)
    BY DEF IInv, SessionOK
  <2>2. CASE w.job[k] = None
    <3>1. job'[k] = job[k]
      BY <2>2, CommitFacts
    <3>2. NoItems(k, w.items, w.effect)
      BY <2>1, <2>2 DEF WrittenOK, RowOK
    <3>3. /\ Accounts(k, job[k], items, effect) => Accounts(k, job[k], items', effect')
          /\ RowOK(k, job[k], items, effect) => RowOK(k, job[k], items', effect')
      BY <1>1, <3>2, Merged
    <3> QED BY <2>1, <3>1, <3>3 DEF CommittedOK
  <2>3. CASE w.job[k] # None
    <3>1. job'[k] = w.job[k]
      BY <2>3, CommitFacts
    <3>2. NoItems(k, items, effect)
      BY <2>1, <2>3 DEF WrittenOK, CommittedOK, RowOK
    <3>3. /\ Accounts(k, w.job[k], w.items, w.effect)
          /\ RowOK(k, w.job[k], w.items, w.effect)
      BY <2>1, <2>3 DEF WrittenOK, Executes
    <3>4. /\ Accounts(k, w.job[k], items', effect')
          /\ RowOK(k, w.job[k], items', effect')
      BY <1>1, <3>2, <3>3, Merged
    <3> QED BY <3>1, <3>4 DEF CommittedOK
  <2> QED BY <2>2, <2>3
<1>3. SessionOK(s)'
  <2>1. tx'[s].w = NoWrites /\ tx'[s].pc = "idle"
    BY CommitFacts DEF Idle
  <2>2. CallOK(s)'
    BY <2>1 DEF CallOK
  <2>3. \A k \in Key : WrittenOK(s, k)'
    BY <2>1 DEF WrittenOK, RowOK, NoWrites, NoItems
  <2> QED BY <2>2, <2>3 DEF SessionOK
<1>4. ASSUME NEW o \in Session \ {s} PROVE SessionOK(o)'
  <2>1. CallOK(o) /\ \A k \in Key : WrittenOK(o, k)
    BY DEF IInv, SessionOK
  <2>2. tx'[o] = tx[o] /\ locked'[o] = locked[o] /\ (counter = o => counter' = o)
    BY CommitFacts
  <2>3. ASSUME NEW k \in Key PROVE WrittenOK(o, k)'
    <3>1. tx[o].w.job[k] # None => w.job[k] = None
      <4>1. WrittenOK(s, k) /\ WrittenOK(o, k) /\ locked[s] \cap locked[o] = {}
        BY DEF IInv, SessionOK, LocksOK
      <4> QED BY <4>1 DEF WrittenOK
    <3>2. tx[o].w.job[k] # None => job'[k] = job[k]
      BY <3>1, CommitFacts
    <3> QED BY <2>1, <2>2, <3>2 DEF WrittenOK, Executes
  <2>4. CallOK(o)'
    <3>1. tx[o] \in Txns /\ TypeOK'
      BY CommitFacts DEF IInv, TypeOK
    <3>2. tx[o].pc = "items" => RunningOK(o)'
      BY <2>1, <2>2 DEF CallOK, RunningOK
    <3>3. tx[o].pc \in {"execute", "cancel"} => JobOf(o, tx[o].key)' # None
      <4> SUFFICES ASSUME tx[o].pc \in {"execute", "cancel"}
                   PROVE  JobOf(o, tx[o].key)' # None
        OBVIOUS
      <4>1. tx[o].key \in Key /\ JobOf(o, tx[o].key) # None
        BY <2>1, <3>1, TxnFacts DEF CallOK
      <4>2. PICK k \in Key : k = tx[o].key /\ k = tx'[o].key
        BY <2>2, <4>1
      <4>3. JobOf(o, k) = IF tx[o].w.job[k] # None THEN tx[o].w.job[k] ELSE job[k]
        BY DEF IInv, TypeOK, JobOf, Over
      <4>4. JobOf(o, k)' = IF tx[o].w.job[k] # None THEN tx[o].w.job[k] ELSE job'[k]
        BY <2>2, <3>1 DEF TypeOK, JobOf, Over
      <4>5. job[k] # None => job'[k] # None
        BY CommitFacts
      <4> QED BY <4>1, <4>2, <4>3, <4>4, <4>5
    <3> QED BY <2>1, <2>2, <3>2, <3>3 DEF CallOK
  <2> QED BY <2>3, <2>4 DEF SessionOK
<1> QED BY <1>2, <1>3, <1>4, CommitFacts DEF IInv

LEMMA TickEndStep ==
    ASSUME IInv, NEW s \in Session, TickEnd(s)
    PROVE  IInv'
<1>1. tx[s].pc # "items" /\ (Rollback(s) \/ Commit(s))
  BY DEF TickEnd
<1> QED BY <1>1, RollbackStep, CommitStep

LEMMA CallCommitStep ==
    ASSUME IInv, NEW s \in Session, CallCommit(s)
    PROVE  IInv'
<1>1. tx[s].pc # "items" /\ Commit(s)
  BY DEF CallCommit
<1> QED BY <1>1, CommitStep

LEMMA InitStep == Init => IInv
<1> SUFFICES ASSUME Init PROVE IInv
  OBVIOUS
<1>1. pool \subseteq Session /\ active \subseteq Schedule
  BY BatchAssumption DEF Init, Session
<1>2. TypeOK
  BY <1>1, RowFacts, BatchAssumption DEF Init, TypeOK
<1>3. LocksOK
  BY DEF Init, LocksOK
<1>4. \A k \in Key : CommittedOK(k)
  BY DEF Init, CommittedOK, RowOK, NoItems
<1>5. ASSUME NEW s \in Session PROVE SessionOK(s)
  <2>1. tx[s].w = NoWrites /\ tx[s].pc = "idle"
    BY DEF Init, Idle
  <2> QED BY <2>1, NoWritesOK DEF SessionOK, CallOK
<1> QED BY <1>2, <1>3, <1>4, <1>5 DEF IInv

\* The clock and the threads.
LEMMA OutsideStep ==
    ASSUME IInv, UNCHANGED <<fixed, sched, job, items, effect, counter, locked, tx>>,
           now' \in 0 .. MaxMinute, thread' \in [Scheduler -> {"running", "stopping", "dead"}]
    PROVE  IInv'
<1>1. TypeOK' /\ LocksOK'
  BY DEF IInv, TypeOK, LocksOK, fixed
<1>2. \A k \in Key : CommittedOK(k)'
  BY DEF IInv, CommittedOK
<1>3. ASSUME NEW s \in Session PROVE SessionOK(s)'
  <2>1. SessionOK(s)
    BY DEF IInv
  <2> QED BY <2>1 DEF SessionOK, CallOK, RunningOK, WrittenOK, Executes, JobOf
<1> QED BY <1>1, <1>2, <1>3 DEF IInv

LEMMA NextStep == IInv /\ [Next]_vars => IInv'
<1> SUFFICES ASSUME IInv, [Next]_vars PROVE IInv'
  OBVIOUS
<1>1. CASE UNCHANGED vars
  BY <1>1, OutsideStep DEF vars, fixed, IInv, TypeOK
<1>2. CASE Minute
  <2>1. now' \in 0 .. MaxMinute
    BY <1>2, BatchAssumption DEF Minute, IInv, TypeOK
  <2> QED BY <1>2, <2>1, OutsideStep DEF Minute, IInv, TypeOK
<1>3. ASSUME NEW s \in Session, ThreadExit(s) \/ Stop(s) \/ Start(s) PROVE IInv'
  <2>1. thread' \in [Scheduler -> {"running", "stopping", "dead"}]
    BY <1>3 DEF ThreadExit, Stop, Start, IInv, TypeOK
  <2>2. UNCHANGED <<now, fixed, sched, job, items, effect, counter, locked, tx>>
    BY <1>3 DEF ThreadExit, Stop, Start
  <2> QED BY <2>1, <2>2, OutsideStep DEF IInv, TypeOK
<1>4. ASSUME NEW s \in Session, Step(s) PROVE IInv'
  <2>1. CASE Reschedule(s)
    <3>1. tx[s].cur \in Schedule
      BY <2>1 DEF Reschedule, IInv, SessionOK, CallOK
    <3> QED BY <2>1, <3>1, RescheduleStep
  <2> QED BY <1>4, <2>1, SubmitCheckStep, SubmitInsertStep, ExecuteBeginStep, ExecuteItemStep,
             ExecuteFinishStep, CancelJobStep, CallCommitStep, EvaluateStep, TickEndStep DEF Step
<1>5. ASSUME NEW s \in Session, NEW k \in ManualKey, NEW op \in {"submit", "execute", "cancel"},
             Call(s, k, op)
      PROVE  IInv'
  BY <1>5, CallStep
<1>6. ASSUME NEW s \in Session, TickBegin(s) \/ Crash(s) PROVE IInv'
  BY <1>6, TickBeginStep, CrashStep
<1> QED BY <1>1, <1>2, <1>3, <1>4, <1>5, <1>6 DEF Next

\* IInv is an inductive invariant: what a transaction of submit_job, execute_job
\* or cancel_job has flushed is what its commit may publish.
THEOREM Inductive == Spec => []IInv
<1>1. Init => IInv
  BY InitStep
<1>2. IInv /\ [Next]_vars => IInv'
  BY NextStep
<1> QED BY <1>1, <1>2, PTL DEF Spec

-----------------------------------------------------------------------------
(* What it shows. *)

\* The rows of batch_jobs, batch_items and job_schedules, the locks and the
\* sessions of finance_batch keep their types.
THEOREM TypeCorrect == Spec => []TypeOK
<1>1. IInv => TypeOK
  BY DEF IInv
<1> QED BY <1>1, Inductive, PTL

\* A committed job tells the truth about its items (execute_job, BT-1, BT-8).
THEOREM JobAccountsHolds == Spec => []JobAccounts
<1>1. IInv => JobAccounts
  <2> SUFFICES ASSUME IInv, NEW k \in Key, job[k] # None
               PROVE  Accounts(k, job[k], items, effect)
    BY DEF JobAccounts, Accounts, Counts, Of, ItemsOf
  <2> QED BY DEF IInv, CommittedOK
<1> QED BY <1>1, Inductive, PTL

\* A job that ended stays as it ended (the FOR UPDATE of execute_job and
\* cancel_job, BT-8).
THEOREM EndedJobStaysHolds == Spec => EndedJobStays
<1> DEFINE A == \A k \in Key : job[k] # None /\ job[k].status \in Terminal =>
         /\ job'[k] = job[k]
         /\ {r \in items' : r[1] = k} = {r \in items : r[1] = k}
         /\ {r \in effect' : r[1] = k} = {r \in effect : r[1] = k}
<1>1. IInv /\ [Next]_vars => [A]_vars
  <2> SUFFICES ASSUME IInv, [Next]_vars, NEW k \in Key, job[k] # None, job[k].status \in Terminal
               PROVE  /\ job'[k] = job[k]
                      /\ {r \in items' : r[1] = k} = {r \in items : r[1] = k}
                      /\ {r \in effect' : r[1] = k} = {r \in effect : r[1] = k}
    OBVIOUS
  <2>1. CASE UNCHANGED <<job, items, effect>>
    BY <2>1
  <2>2. ASSUME NEW s \in Session, tx[s].pc # "items", Commit(s)
        PROVE  /\ job'[k] = job[k]
               /\ {r \in items' : r[1] = k} = {r \in items : r[1] = k}
               /\ {r \in effect' : r[1] = k} = {r \in effect : r[1] = k}
    <3>1. WrittenOK(s, k)
      BY DEF IInv, SessionOK
    <3>2. tx[s].w.job[k] = None
      BY <3>1 DEF WrittenOK, Terminal, Executed
    <3>3. NoItems(k, tx[s].w.items, tx[s].w.effect)
      BY <3>1, <3>2 DEF WrittenOK, RowOK
    <3>4. job'[k] = job[k]
      BY <2>2, <3>2, CommitFacts
    <3>5. items' = items \cup tx[s].w.items /\ effect' = effect \cup tx[s].w.effect
      BY <2>2 DEF Commit
    <3> QED BY <3>3, <3>4, <3>5 DEF NoItems
  <2>3. UNCHANGED <<job, items, effect>> \/ \E s \in Session : tx[s].pc # "items" /\ Commit(s)
    <3>1. ASSUME NEW s \in Session, Step(s)
          PROVE  UNCHANGED <<job, items, effect>> \/ (tx[s].pc # "items" /\ Commit(s))
      BY <3>1 DEF Step, SubmitCheck, SubmitInsert, ExecuteBegin, Begin, ExecuteItem, ExecuteFinish,
            CancelJob, CallCommit, Evaluate, Reschedule, TickEnd, Raise, Rollback, DatabaseError
    <3>2. ASSUME NEW s \in Session, Crash(s) PROVE UNCHANGED <<job, items, effect>>
      BY <3>2 DEF Crash
    <3>3. ASSUME NEW s \in Session,
                 \/ TickBegin(s) \/ ThreadExit(s) \/ Stop(s) \/ Start(s)
                 \/ \E j \in ManualKey, op \in {"submit", "execute", "cancel"} : Call(s, j, op)
          PROVE  UNCHANGED <<job, items, effect>>
      BY <3>3 DEF TickBegin, ThreadExit, Stop, Start, Call
    <3>4. CASE Minute \/ UNCHANGED vars
      BY <3>4 DEF Minute, vars
    <3> QED BY <3>1, <3>2, <3>3, <3>4 DEF Next
  <2> QED BY <2>1, <2>2, <2>3
<1> QED BY <1>1, Inductive, PTL DEF Spec, EndedJobStays

-----------------------------------------------------------------------------
(* SoleSchedulerSpacing. *)

LEMMA IntervalRun ==
    ASSUME NEW sc \in Schedule, NEW t \in Nat, Frequency[sc] # "ONCE", Cron[sc] = {}
    PROVE  compute_next_run(sc, t) = t + Delta
BY DEF compute_next_run

\* A step of session s on the way to its commit.
LEMMA PlannedStep ==
    ASSUME IInv, IInv', SInv, NEW s \in pool,
           UNCHANGED <<pool, sched, job>>,
           \A o \in Session \ {s} : tx'[o] = tx[o],
           \A o \in Scheduler \ {s} : thread'[o] = thread[o],
           s \in Operator => OperatorOK(s)', s \in Scheduler => TickOK(s)',
           tx'[s].pc # "idle" => tx'[s].seen = sched \/ (tx[s].pc # "idle" /\ tx'[s].seen = tx[s].seen)
    PROVE  SInv'
<1>1. PoolOK'
  BY DEF SInv, PoolOK, Session
<1>2. \A o \in Operator : OperatorOK(o)'
  BY DEF SInv, OperatorOK, Session
<1>3. ASSUME NEW o \in Scheduler PROVE TickOK(o)'
  <2>1. CASE o = s
    BY <2>1
  <2>2. CASE o # s
    <3>1. TickOK(o) /\ tx'[o] = tx[o]
      BY <2>2 DEF SInv, Session
    <3> QED BY <3>1 DEF TickOK
  <2> QED BY <2>1, <2>2
<1>4. ASSUME NEW o \in Scheduler, pool \cap Scheduler = {o} PROVE SoleOK(o)'
  <2>1. SoleOK(o)
    BY <1>4 DEF SInv
  <2>2. JobsSpaced'
    BY <2>1 DEF SoleOK, JobsSpaced, Rescheduled, Spaced
  <2>3. tx'[o].pc # "idle" => tx'[o].seen = sched
    BY <2>1 DEF SoleOK, Session
  <2> QED BY <2>2, <2>3 DEF SoleOK
<1> QED BY <1>1, <1>2, <1>3, <1>4 DEF SInv

\* A session without writes that is not in a call.
LEMMA RestingOK ==
    ASSUME NEW s \in Session, tx[s].w = NoWrites,
           tx[s].pc = "idle" \/ (tx[s].pc = "evaluate" /\ s \notin Operator)
    PROVE  (s \in Operator => OperatorOK(s)) /\ (s \in Scheduler => TickOK(s))
<1>1. (\A k \in Key : tx[s].w.job[k] = None) /\ \A sc \in Schedule : tx[s].w.sched[sc] = None
  BY DEF NoWrites
<1>2. \A sc \in Schedule, t \in 0 .. MaxMinute : tx[s].w.job[<<sc, t>>] = None
  BY <1>1 DEF Key
<1> QED BY <1>1, <1>2 DEF OperatorOK, TickOK

LEMMA AtWork ==
    ASSUME SInv, NEW s \in Session, tx[s].pc # "idle"
    PROVE  s \in pool
BY DEF SInv, PoolOK, Idle

\* The transaction of s ends without a commit, or is broken.
LEMMA GivenUpStep ==
    ASSUME IInv, IInv', SInv, NEW s \in Session, tx[s].pc # "idle",
           NEW x, tx'[s] = x, x.w = NoWrites,
           x.pc = "idle" \/ (x.pc = "evaluate" /\ s \notin Operator /\ x.seen = tx[s].seen),
           UNCHANGED <<pool, sched, job>>,
           \A o \in Session \ {s} : tx'[o] = tx[o],
           \A o \in Scheduler \ {s} : thread'[o] = thread[o]
    PROVE  SInv'
<1>1. (s \in Operator => OperatorOK(s)') /\ (s \in Scheduler => TickOK(s)')
  <2>1. (\A k \in Key : x.w.job[k] = None) /\ \A sc \in Schedule : x.w.sched[sc] = None
    BY DEF NoWrites
  <2>2. \A sc \in Schedule, t \in 0 .. MaxMinute : x.w.job[<<sc, t>>] = None
    BY <2>1 DEF Key
  <2> QED BY <2>1, <2>2 DEF OperatorOK, TickOK
<1> QED BY <1>1, AtWork, PlannedStep

\* The writes of the transaction stay; its next call, if any, is of a due schedule.
LEMMA RoundStep ==
    ASSUME IInv, IInv', SInv, NEW s \in pool, s \in Session, tx[s].pc \in {"evaluate", "submit"},
           UNCHANGED <<pool, sched, job, thread>>,
           \A o \in Session \ {s} : tx'[o] = tx[o],
           tx'[s].w = tx[s].w, tx'[s].at = tx[s].at, tx'[s].seen = tx[s].seen,
           s \in Operator => tx'[s].key = tx[s].key /\ tx'[s].pc = "insert",
           tx'[s].pc \in {"evaluate", "submit", "insert"},
           s \in Scheduler /\ tx'[s].pc \in {"submit", "insert"} =>
             /\ tx'[s].cur \in Schedule /\ tx'[s].key = <<tx'[s].cur, tx'[s].at>>
             /\ should_fire(tx'[s].cur, tx'[s].seen[tx'[s].cur], tx'[s].at)
    PROVE  SInv'
<1>1. s \in Operator => OperatorOK(s)'
  BY DEF SInv, OperatorOK
<1>2. ASSUME s \in Scheduler PROVE TickOK(s)'
  <2>1. TickOK(s)
    BY <1>2 DEF SInv
  <2> QED BY <1>2, <2>1 DEF TickOK
<1> QED BY <1>1, <1>2, PlannedStep

\* What submit_job, execute_job and cancel_job write on the way: the row of
\* their job.
JobWrite(s) ==
    /\ tx[s].pc \in {"insert", "execute", "items", "cancel"}
    /\ tx'[s].pc \in {"execute", "items", "executed", "commit"}
    /\ tx'[s].pc = "commit" => s \in Operator
    /\ tx'[s].pc = "execute" => /\ tx'[s].w.job[tx[s].key] # None
                                /\ tx'[s].w.job[tx[s].key].status = "PENDING"
    /\ tx'[s].key = tx[s].key /\ tx'[s].cur = tx[s].cur
    /\ tx'[s].at = tx[s].at /\ tx'[s].seen = tx[s].seen
    /\ tx'[s].w.sched = tx[s].w.sched
    /\ \A j \in Key \ {tx[s].key} : tx'[s].w.job[j] = tx[s].w.job[j]
    /\ \A o \in Session \ {s} : tx'[o] = tx[o]
    /\ UNCHANGED <<pool, sched, job, thread>>

LEMMA JobWriteStep ==
    ASSUME IInv, IInv', SInv, NEW s \in Session, JobWrite(s)
    PROVE  SInv'
<1>1. s \in pool
  BY AtWork DEF JobWrite
<1>2. ASSUME s \in Operator PROVE OperatorOK(s)'
  <2>1. OperatorOK(s)
    BY <1>2 DEF SInv
  <2> QED BY <2>1 DEF OperatorOK, JobWrite
<1>3. ASSUME s \in Scheduler PROVE TickOK(s)'
  <2>1. TickOK(s) /\ s \notin Operator
    BY <1>3, BatchAssumption DEF SInv
  <2>2. /\ tx[s].cur \in Schedule /\ tx[s].key = <<tx[s].cur, tx[s].at>>
        /\ should_fire(tx[s].cur, tx[s].seen[tx[s].cur], tx[s].at)
    BY <2>1 DEF TickOK, JobWrite
  <2>3. ASSUME NEW sc \in Schedule, NEW t \in 0 .. MaxMinute, tx'[s].w.job[<<sc, t>>] # None
        PROVE  t = tx[s].at /\ (tx[s].w.sched[sc] # None \/ tx[s].cur = sc)
    <3>1. CASE <<sc, t>> = tx[s].key
      BY <2>2, <3>1
    <3>2. CASE <<sc, t>> # tx[s].key
      <4>1. tx[s].w.job[<<sc, t>>] # None
        BY <2>3, <3>2 DEF JobWrite, Key
      <4> QED BY <2>1, <4>1 DEF TickOK
    <3> QED BY <3>1, <3>2
  <2> QED BY <2>1, <2>2, <2>3 DEF TickOK, JobWrite
<1> QED BY <1>1, <1>2, <1>3, PlannedStep DEF JobWrite

LEMMA ErrorStep ==
    ASSUME IInv, IInv', SInv, NEW s \in Session, tx[s].pc # "idle",
           Rollback(s) \/ DatabaseError(s) \/ Crash(s)
    PROVE  SInv'
<1>1. UNCHANGED <<pool, sched, job>> /\ \A o \in Scheduler \ {s} : thread'[o] = thread[o]
  BY DEF Rollback, DatabaseError, Crash, fixed, IInv, TypeOK
<1>2. CASE Set(s, Idle)
  <2>1. tx'[s] = Idle /\ \A o \in Session \ {s} : tx'[o] = tx[o]
    BY <1>2 DEF Set, IInv, TypeOK
  <2>2. Idle.w = NoWrites /\ Idle.pc = "idle"
    BY DEF Idle
  <2> QED BY <1>1, <2>1, <2>2, GivenUpStep
<1>3. CASE s \notin Operator /\ Set(s, Broken(tx[s]))
  <2>1. tx'[s] = Broken(tx[s]) /\ \A o \in Session \ {s} : tx'[o] = tx[o]
    BY <1>3 DEF Set, IInv, TypeOK
  <2>2. Broken(tx[s]).w = NoWrites /\ Broken(tx[s]).pc = "evaluate"
        /\ Broken(tx[s]).seen = tx[s].seen
    BY LoopingFacts DEF IInv, TypeOK
  <2> QED BY <1>1, <1>3, <2>1, <2>2, GivenUpStep
<1> QED BY <1>2, <1>3 DEF Rollback, DatabaseError, Crash

\* An exception is met before the tick has written, or in an operator's call.
LEMMA ExceptionStep ==
    ASSUME IInv, IInv', SInv, NEW s \in Session, Raise(s),
           tx[s].pc = "submit" \/ (tx[s].pc # "idle" /\ s \in Operator)
    PROVE  SInv'
<1>1. CASE s \in Operator
  BY <1>1, ErrorStep DEF Raise
<1>2. CASE s \notin Operator
  <2>1. Set(s, Looping(tx[s])) /\ UNCHANGED <<pool, thread, sched, job>>
    BY <1>2 DEF Raise, fixed
  <2>2. tx'[s] = Looping(tx[s]) /\ \A o \in Session \ {s} : tx'[o] = tx[o]
    BY <2>1 DEF Set, IInv, TypeOK
  <2>3. Looping(tx[s]).pc = "evaluate" /\ Looping(tx[s]).w = tx[s].w
        /\ Looping(tx[s]).at = tx[s].at /\ Looping(tx[s]).seen = tx[s].seen
    BY LoopingFacts DEF IInv, TypeOK
  <2>4. s \in pool
    BY <1>2, AtWork
  <2> QED BY <1>2, <2>1, <2>2, <2>3, <2>4, RoundStep
<1> QED BY <1>1, <1>2

LEMMA SubmitPlanned ==
    ASSUME IInv, IInv', SInv, NEW s \in Session, SubmitCheck(s) \/ SubmitInsert(s)
    PROVE  SInv'
<1>1. tx[s] \in Txns
  BY DEF IInv, TypeOK
<1>2. CASE SubmitCheck(s)
  <2>1. CASE Raise(s)
    BY <1>2, <2>1, ExceptionStep DEF SubmitCheck
  <2>2. CASE /\ Set(s, [tx[s] EXCEPT !.pc = "insert"])
             /\ UNCHANGED <<now, faults, fixed, thread, sched, job, items, effect,
                            counter, locked>>
    <3>1. tx'[s] = [tx[s] EXCEPT !.pc = "insert"] /\ \A o \in Session \ {s} : tx'[o] = tx[o]
      BY <2>2 DEF Set, IInv, TypeOK
    <3>2. /\ tx'[s].pc = "insert" /\ tx'[s].w = tx[s].w /\ tx'[s].at = tx[s].at
          /\ tx'[s].seen = tx[s].seen /\ tx'[s].key = tx[s].key /\ tx'[s].cur = tx[s].cur
      BY <1>1, <3>1 DEF Txns
    <3>3. s \in pool /\ tx[s].pc = "submit" /\ UNCHANGED <<pool, sched, job, thread>>
      BY <1>2, <2>2, AtWork DEF SubmitCheck, fixed
    <3>4. s \in Scheduler => TickOK(s)
      BY DEF SInv
    <3> QED BY <3>1, <3>2, <3>3, <3>4, RoundStep DEF TickOK
  <2> QED BY <1>2, <2>1, <2>2 DEF SubmitCheck
<1>3. CASE SubmitInsert(s)
  <2>1. CASE DatabaseError(s)
    BY <1>3, <2>1, ErrorStep DEF SubmitInsert
  <2>2. CASE ~DatabaseError(s)
    <3> DEFINE k == tx[s].key
               to == IF s \in Operator THEN "commit" ELSE "execute"
               x == [tx[s] EXCEPT !.w.job[k] = BatchJob("PENDING"), !.pc = to]
    <3>1. Set(s, x) /\ tx[s].pc = "insert" /\ UNCHANGED <<pool, sched, job, thread>>
      BY <1>3, <2>2 DEF SubmitInsert, fixed
    <3>2. tx'[s] = x /\ \A o \in Session \ {s} : tx'[o] = tx[o]
      BY <3>1 DEF Set, IInv, TypeOK
    <3>3. k \in Key
      BY <1>1, <3>1, TxnFacts DEF IInv, SessionOK, CallOK
    <3>4. /\ x.pc = to /\ x.key = k /\ x.cur = tx[s].cur /\ x.at = tx[s].at
          /\ x.seen = tx[s].seen /\ x.w.sched = tx[s].w.sched
          /\ x.w.job = [tx[s].w.job EXCEPT ![k] = BatchJob("PENDING")]
      BY <1>1 DEF Txns, Writes
    <3>5. x.w.job[k] = BatchJob("PENDING") /\ BatchJob("PENDING") # None
          /\ \A j \in Key \ {k} : x.w.job[j] = tx[s].w.job[j]
      BY <1>1, <3>3, <3>4, TxnFacts, RowFacts
    <3> HIDE DEF x
    <3>6. BatchJob("PENDING").status = "PENDING"
      BY DEF BatchJob
    <3>7. JobWrite(s)
      BY <3>1, <3>2, <3>4, <3>5, <3>6 DEF JobWrite
    <3> QED BY <3>7, JobWriteStep
  <2> QED BY <2>1, <2>2
<1> QED BY <1>2, <1>3

LEMMA ExecutePlanned ==
    ASSUME IInv, IInv', SInv, NEW s \in Session, ExecuteBegin(s)
    PROVE  SInv'
<1> DEFINE k == tx[s].key
<1>1. tx[s] \in Txns /\ tx[s].pc = "execute" /\ k \in Key
  BY TxnFacts DEF IInv, TypeOK, ExecuteBegin, SessionOK, CallOK
<1>2. CASE JobOf(s, k).status # "PENDING" /\ Raise(s)
  <2>1. s \in Operator
    <3> SUFFICES ASSUME s \in Scheduler PROVE FALSE
      BY DEF Session
    <3>1. tx[s].w.job[k] # None /\ tx[s].w.job[k].status = "PENDING"
      BY <1>1 DEF SInv, TickOK
    <3>2. JobOf(s, k) = tx[s].w.job[k]
      BY <1>1, <3>1 DEF JobOf, Over, IInv, TypeOK
    <3> QED BY <1>2, <3>1, <3>2
  <2> QED BY <1>1, <1>2, <2>1, ExceptionStep
<1>3. CASE DatabaseError(s)
  BY <1>1, <1>3, ErrorStep
<1>4. ASSUME NEW r, NEW pc \in {"items", "executed"}, Begin(s, r, pc) PROVE SInv'
  <2> DEFINE x == [tx[s] EXCEPT !.w.job[k] = r, !.pc = pc, !.next = 1]
  <2>1. Set(s, x) /\ UNCHANGED <<pool, sched, job, thread>>
    BY <1>4 DEF Begin, fixed
  <2>2. tx'[s] = x /\ \A o \in Session \ {s} : tx'[o] = tx[o]
    BY <2>1 DEF Set, IInv, TypeOK
  <2>3. /\ x.pc = pc /\ x.key = k /\ x.cur = tx[s].cur /\ x.at = tx[s].at
        /\ x.seen = tx[s].seen /\ x.w.sched = tx[s].w.sched
        /\ x.w.job = [tx[s].w.job EXCEPT ![k] = r]
    BY <1>1 DEF Txns, Writes
  <2>4. \A j \in Key \ {k} : x.w.job[j] = tx[s].w.job[j]
    BY <1>1, <2>3, TxnFacts
  <2> HIDE DEF x
  <2>5. JobWrite(s)
    BY <1>1, <2>1, <2>2, <2>3, <2>4 DEF JobWrite
  <2> QED BY <2>5, JobWriteStep
<1> QED BY <1>2, <1>3, <1>4 DEF ExecuteBegin

LEMMA ItemsPlanned ==
    ASSUME IInv, IInv', SInv, NEW s \in Session, ExecuteItem(s) \/ ExecuteFinish(s)
    PROVE  SInv'
<1> DEFINE k == tx[s].key
<1>1. tx[s] \in Txns /\ tx[s].pc = "items" /\ k \in Key
      /\ UNCHANGED <<pool, sched, job, thread>>
  BY TxnFacts DEF IInv, TypeOK, ExecuteItem, ExecuteFinish, SessionOK, CallOK, fixed
<1>2. ASSUME NEW x, NEW q, Set(s, x), x.pc \in {"items", "executed"}, x.key = k,
             x.cur = tx[s].cur, x.at = tx[s].at, x.seen = tx[s].seen,
             x.w.sched = tx[s].w.sched, x.w.job = [tx[s].w.job EXCEPT ![k] = q]
      PROVE  SInv'
  <2>1. tx'[s] = x /\ \A o \in Session \ {s} : tx'[o] = tx[o]
    BY <1>2 DEF Set, IInv, TypeOK
  <2>2. \A j \in Key \ {k} : x.w.job[j] = tx[s].w.job[j]
    BY <1>1, <1>2, TxnFacts
  <2>3. JobWrite(s)
    BY <1>1, <1>2, <2>1, <2>2 DEF JobWrite
  <2> QED BY <2>3, JobWriteStep
<1>3. CASE ExecuteItem(s)
  <2>1. PICK status \in ItemStatus :
         Set(s, [tx[s] EXCEPT
                 !.next = tx[s].next + 1,
                 !.w.items = @ \cup {<<k, tx[s].next, status>>},
                 !.w.effect = @ \cup (IF SurvivesSavepoint(status) THEN {<<k, tx[s].next>>} ELSE {}),
                 !.w.job[k] = Counted(@, status)])
    BY <1>3 DEF ExecuteItem, ItemStatus
  <2> DEFINE x == [tx[s] EXCEPT
                 !.next = tx[s].next + 1,
                 !.w.items = @ \cup {<<k, tx[s].next, status>>},
                 !.w.effect = @ \cup (IF SurvivesSavepoint(status) THEN {<<k, tx[s].next>>} ELSE {}),
                 !.w.job[k] = Counted(@, status)]
  <2>2. /\ x.pc = "items" /\ x.key = k /\ x.cur = tx[s].cur /\ x.at = tx[s].at
        /\ x.seen = tx[s].seen /\ x.w.sched = tx[s].w.sched
        /\ x.w.job = [tx[s].w.job EXCEPT ![k] = Counted(tx[s].w.job[k], status)]
    BY <1>1 DEF Txns, Writes
  <2> QED BY <1>2, <2>1, <2>2
<1>4. CASE ExecuteFinish(s)
  <2> DEFINE r == tx[s].w.job[k]
             x == [tx[s] EXCEPT !.w.job[k].status = FinalStatus(r), !.pc = "executed"]
  <2>1. Set(s, x)
    BY <1>4 DEF ExecuteFinish
  <2>2. /\ x.pc = "executed" /\ x.key = k /\ x.cur = tx[s].cur /\ x.at = tx[s].at
        /\ x.seen = tx[s].seen /\ x.w.sched = tx[s].w.sched
        /\ x.w.job = [tx[s].w.job EXCEPT ![k] = [r EXCEPT !.status = FinalStatus(r)]]
    BY <1>1 DEF Txns, Writes
  <2> QED BY <1>2, <2>1, <2>2
<1> QED BY <1>3, <1>4

LEMMA CancelPlanned ==
    ASSUME IInv, IInv', SInv, NEW s \in Session, CancelJob(s)
    PROVE  SInv'
<1> DEFINE k == tx[s].key
<1>1. tx[s] \in Txns /\ tx[s].pc = "cancel" /\ k \in Key
  BY TxnFacts DEF IInv, TypeOK, CancelJob, SessionOK, CallOK
<1>2. s \in Operator
  BY <1>1 DEF SInv, TickOK, Session
<1>3. CASE Raise(s)
  BY <1>1, <1>2, <1>3, ExceptionStep
<1>4. CASE ~Raise(s)
  <2> DEFINE q == [JobOf(s, k) EXCEPT !.status = "CANCELLED"]
             x == [tx[s] EXCEPT !.w.job[k] = q, !.pc = "commit"]
  <2>1. Set(s, x) /\ UNCHANGED <<pool, sched, job, thread>>
    BY <1>4 DEF CancelJob, fixed
  <2>2. tx'[s] = x /\ \A o \in Session \ {s} : tx'[o] = tx[o]
    BY <2>1 DEF Set, IInv, TypeOK
  <2> HIDE DEF q
  <2>3. /\ x.pc = "commit" /\ x.key = k /\ x.cur = tx[s].cur /\ x.at = tx[s].at
        /\ x.seen = tx[s].seen /\ x.w.sched = tx[s].w.sched
        /\ x.w.job = [tx[s].w.job EXCEPT ![k] = q]
    BY <1>1 DEF Txns, Writes
  <2>4. \A j \in Key \ {k} : x.w.job[j] = tx[s].w.job[j]
    BY <1>1, <2>3, TxnFacts
  <2> HIDE DEF x
  <2>5. JobWrite(s)
    BY <1>1, <1>2, <2>1, <2>2, <2>3, <2>4 DEF JobWrite
  <2> QED BY <2>5, JobWriteStep
<1> QED BY <1>3, <1>4

LEMMA CallPlanned ==
    ASSUME IInv, IInv', SInv, NEW s \in Session, NEW k \in ManualKey,
           NEW op \in {"submit", "execute", "cancel"}, Call(s, k, op)
    PROVE  SInv'
<1>1. s \in Operator /\ s \in pool /\ s \notin Scheduler /\ UNCHANGED <<pool, sched, job, thread>>
  BY BatchAssumption DEF Call, fixed
<1>2. tx'[s] = [Idle EXCEPT !.pc = op, !.key = k] /\ \A o \in Session \ {s} : tx'[o] = tx[o]
  BY DEF Call, Set, IInv, TypeOK
<1>3. tx'[s].pc = op /\ tx'[s].key = k /\ tx'[s].w = NoWrites
  BY <1>2 DEF Idle
<1>4. OperatorOK(s)'
  <2>1. (\A j \in Key : NoWrites.job[j] = None) /\ \A sc \in Schedule : NoWrites.sched[sc] = None
    BY DEF NoWrites
  <2> QED BY <1>3, <2>1 DEF OperatorOK
<1>5. PoolOK'
  BY <1>1, <1>2 DEF SInv, PoolOK, Session
<1>6. ASSUME NEW o \in Operator PROVE OperatorOK(o)'
  <2>1. CASE o # s
    <3>1. tx'[o] = tx[o] /\ OperatorOK(o)
      BY <1>2, <2>1 DEF SInv, Session
    <3> QED BY <3>1 DEF OperatorOK
  <2> QED BY <1>4, <2>1
<1>7. ASSUME NEW o \in Scheduler
      PROVE  TickOK(o)' /\ (pool' \cap Scheduler = {o} => SoleOK(o)')
  <2>1. TickOK(o) /\ (pool \cap Scheduler = {o} => SoleOK(o)) /\ tx'[o] = tx[o]
    BY <1>1, <1>2 DEF SInv, Session
  <2>2. TickOK(o)'
    BY <2>1 DEF TickOK
  <2>3. pool' \cap Scheduler = {o} => SoleOK(o)'
    BY <1>1, <2>1 DEF SoleOK, JobsSpaced, Rescheduled, Spaced
  <2> QED BY <2>2, <2>3
<1> QED BY <1>5, <1>6, <1>7 DEF SInv

LEMMA TickBeginPlanned ==
    ASSUME IInv, IInv', SInv, NEW s \in Session, TickBegin(s)
    PROVE  SInv'
<1>1. s \in Scheduler /\ s \notin Operator /\ UNCHANGED <<pool, sched, job, thread>>
  BY BatchAssumption DEF TickBegin, fixed
<1>2. s \in pool
  BY <1>1 DEF TickBegin, SInv, PoolOK
<1>3. /\ tx'[s] = [Idle EXCEPT !.pc = "evaluate", !.at = now, !.todo = active, !.seen = sched]
      /\ \A o \in Session \ {s} : tx'[o] = tx[o]
  BY DEF TickBegin, Set, IInv, TypeOK
<1>4. tx'[s].pc = "evaluate" /\ tx'[s].seen = sched /\ tx'[s].w = NoWrites
  BY <1>3 DEF Idle
<1>5. TickOK(s)'
  <2>1. (\A j \in Key : NoWrites.job[j] = None) /\ \A sc \in Schedule : NoWrites.sched[sc] = None
    BY DEF NoWrites
  <2>2. \A sc \in Schedule, t \in 0 .. MaxMinute : NoWrites.job[<<sc, t>>] = None
    BY <2>1 DEF Key
  <2> QED BY <1>4, <2>1, <2>2 DEF TickOK
<1> QED BY <1>1, <1>2, <1>3, <1>4, <1>5, PlannedStep

LEMMA EvaluatePlanned ==
    ASSUME IInv, IInv', SInv, NEW s \in Session, Evaluate(s)
    PROVE  SInv'
<1>1. PICK sc \in tx[s].todo :
         Set(s, IF should_fire(sc, tx[s].seen[sc], tx[s].at)
                THEN [tx[s] EXCEPT !.todo = @ \ {sc}, !.pc = "submit", !.cur = sc,
                                   !.key = <<sc, tx[s].at>>]
                ELSE [tx[s] EXCEPT !.todo = @ \ {sc}])
  BY DEF Evaluate
<1>2. /\ tx[s] \in Txns /\ sc \in Schedule /\ tx[s].pc = "evaluate"
      /\ UNCHANGED <<pool, sched, job, thread>>
  BY TxnFacts DEF IInv, TypeOK, Evaluate, fixed
<1>3. s \in pool /\ s \notin Operator /\ \A o \in Session \ {s} : tx'[o] = tx[o]
  BY <1>1, <1>2, AtWork DEF Set, IInv, TypeOK, SInv, OperatorOK
<1>4. CASE should_fire(sc, tx[s].seen[sc], tx[s].at)
  <2>1. tx'[s] = [tx[s] EXCEPT !.todo = @ \ {sc}, !.pc = "submit", !.cur = sc,
                               !.key = <<sc, tx[s].at>>]
    BY <1>1, <1>4 DEF Set, IInv, TypeOK
  <2>2. /\ tx'[s].pc = "submit" /\ tx'[s].cur = sc /\ tx'[s].key = <<sc, tx[s].at>>
        /\ tx'[s].w = tx[s].w /\ tx'[s].at = tx[s].at /\ tx'[s].seen = tx[s].seen
    BY <1>2, <2>1 DEF Txns
  <2> QED BY <1>2, <1>3, <1>4, <2>2, RoundStep
<1>5. CASE ~should_fire(sc, tx[s].seen[sc], tx[s].at)
  <2>1. tx'[s] = [tx[s] EXCEPT !.todo = @ \ {sc}]
    BY <1>1, <1>5 DEF Set, IInv, TypeOK
  <2>2. /\ tx'[s].pc = "evaluate" /\ tx'[s].key = tx[s].key
        /\ tx'[s].w = tx[s].w /\ tx'[s].at = tx[s].at /\ tx'[s].seen = tx[s].seen
    BY <1>2, <2>1 DEF Txns
  <2> QED BY <1>2, <1>3, <2>2, RoundStep
<1> QED BY <1>4, <1>5

LEMMA ReschedulePlanned ==
    ASSUME IInv, IInv', SInv, NEW s \in Session, Reschedule(s)
    PROVE  SInv'
<1> DEFINE sc == tx[s].cur
           run == [last |-> tx[s].at, next |-> compute_next_run(sc, tx[s].at)]
           x == [Looping(tx[s]) EXCEPT !.w.sched[sc] = run]
<1>1. /\ s \in Scheduler /\ s \notin Operator /\ s \in pool /\ tx[s].pc = "executed"
      /\ tx[s] \in Txns /\ TickOK(s) /\ UNCHANGED <<pool, sched, job, thread>>
  BY AtWork, BatchAssumption DEF Reschedule, SInv, IInv, TypeOK, fixed
<1>2. sc \in Schedule /\ should_fire(sc, tx[s].seen[sc], tx[s].at)
  BY <1>1 DEF TickOK
<1>3. tx'[s] = x /\ \A o \in Session \ {s} : tx'[o] = tx[o]
  BY DEF Reschedule, Set, IInv, TypeOK
<1>4. /\ Looping(tx[s]) \in Txns /\ Looping(tx[s]).pc = "evaluate" /\ Looping(tx[s]).w = tx[s].w
      /\ Looping(tx[s]).seen = tx[s].seen /\ Looping(tx[s]).at = tx[s].at
  BY <1>1, LoopingFacts
<1> HIDE DEF run
<1>5. /\ x.pc = "evaluate" /\ x.w.job = tx[s].w.job /\ x.seen = tx[s].seen /\ x.at = tx[s].at
      /\ x.w.sched = [tx[s].w.sched EXCEPT ![sc] = run]
  BY <1>4 DEF Txns, Writes
<1> HIDE DEF x
<1>6. x.w.sched[sc] = run /\ \A z \in Schedule \ {sc} : x.w.sched[z] = tx[s].w.sched[z]
  BY <1>1, <1>2, <1>5, TxnFacts
<1>7. run # None
  <2>1. run \in Runs
    BY <1>1, <1>2, TxnFacts, NextRunType, BatchAssumption DEF Runs, run
  <2> QED BY <2>1, RowFacts
<1>8. TickOK(s)'
  <2>1. ASSUME NEW z \in Schedule, x.w.sched[z] # None
        PROVE  /\ x.w.sched[z] = [last |-> x.at, next |-> compute_next_run(z, x.at)]
               /\ should_fire(z, x.seen[z], x.at)
    <3>1. CASE z = sc
      BY <1>2, <1>5, <1>6, <3>1 DEF run
    <3>2. CASE z # sc
      BY <1>1, <1>5, <1>6, <2>1, <3>2 DEF TickOK
    <3> QED BY <3>1, <3>2
  <2>2. ASSUME NEW z \in Schedule, NEW t \in 0 .. MaxMinute, x.w.job[<<z, t>>] # None
        PROVE  t = x.at /\ x.w.sched[z] # None
    <3>1. t = tx[s].at /\ (tx[s].w.sched[z] # None \/ sc = z)
      BY <1>1, <1>5, <2>2 DEF TickOK
    <3> QED BY <1>5, <1>6, <1>7, <3>1
  <2> QED BY <1>3, <1>5, <2>1, <2>2 DEF TickOK
<1> QED BY <1>1, <1>3, <1>5, <1>8, PlannedStep

\* The commit of a tick of the only scheduler keeps the jobs apart.
LEMMA TickPublished ==
    ASSUME IInv, IInv', SInv, NEW s \in Scheduler, pool \cap Scheduler = {s},
           tx[s].pc = "evaluate", Commit(s)
    PROVE  JobsSpaced'
<1> DEFINE x == tx[s]
<1>1. TickOK(s) /\ JobsSpaced /\ x.seen = sched /\ s \in Session
  BY DEF SInv, SoleOK, Session
<1>2. /\ x \in Txns /\ x.at \in Nat /\ x.at \in 0 .. MaxMinute
      /\ sched \in [Schedule -> Runs] /\ Delta \in Nat \ {0}
  BY <1>1, TxnFacts, BatchAssumption DEF IInv, TypeOK
<1>3. ASSUME NEW sc \in Schedule
      PROVE  sched'[sc] = IF x.w.sched[sc] # None THEN x.w.sched[sc] ELSE sched[sc]
  BY <1>2 DEF Commit, Over
<1>4. ASSUME NEW sc \in Schedule, NEW t \in 0 .. MaxMinute
      PROVE  job'[<<sc, t>>] = IF x.w.job[<<sc, t>>] # None THEN x.w.job[<<sc, t>>] ELSE job[<<sc, t>>]
  <2>1. <<sc, t>> \in Key
    BY DEF Key
  <2> QED BY <1>1, <2>1, CommitFacts
<1>5. ASSUME NEW sc \in Schedule, NEW t \in 0 .. MaxMinute, x.w.job[<<sc, t>>] # None
      PROVE  t = x.at /\ x.w.sched[sc] # None
  BY <1>1, <1>5 DEF TickOK
<1>6. ASSUME NEW sc \in Schedule, x.w.sched[sc] # None
      PROVE  /\ sched'[sc] = [last |-> x.at, next |-> compute_next_run(sc, x.at)]
             /\ should_fire(sc, sched[sc], x.at)
  BY <1>1, <1>3, <1>6 DEF TickOK
<1>7. ASSUME NEW sc \in Schedule, NEW t \in 0 .. MaxMinute, x.w.sched[sc] # None,
             job[<<sc, t>>] # None
      PROVE  Frequency[sc] # "ONCE" /\ (Cron[sc] = {} => t + Delta <= x.at)
  <2>1. Rescheduled(sc, t) /\ should_fire(sc, sched[sc], x.at)
    BY <1>1, <1>6, <1>7 DEF JobsSpaced
  <2>2. sched[sc].last # None
    BY <1>7, <2>1 DEF Rescheduled
  <2>3. Frequency[sc] # "ONCE"
    BY <2>1, <2>2 DEF should_fire
  <2>4. ASSUME Cron[sc] = {} PROVE t + Delta <= x.at
    <3>1. sched[sc].next # None /\ t + Delta <= sched[sc].next
      BY <1>7, <2>1, <2>3, <2>4 DEF Rescheduled
    <3>2. sched[sc].next <= x.at
      BY <2>1, <2>3, <3>1 DEF should_fire
    <3>3. sched[sc].next \in Nat
      BY <1>2, <3>1 DEF Runs
    <3> QED BY <1>2, <3>1, <3>2, <3>3
  <2> QED BY <2>3, <2>4
<1>8. ASSUME NEW sc \in Schedule, NEW t \in 0 .. MaxMinute, job'[<<sc, t>>] # None
      PROVE  /\ sched'[sc].last # None
             /\ Frequency[sc] # "ONCE" /\ Cron[sc] = {} =>
                  sched'[sc].next # None /\ t + Delta <= sched'[sc].next
  <2>1. CASE x.w.sched[sc] = None
    <3>1. job[<<sc, t>>] # None /\ sched'[sc] = sched[sc]
      BY <1>3, <1>4, <1>5, <1>8, <2>1
    <3> QED BY <1>1, <3>1 DEF JobsSpaced, Rescheduled
  <2>2. CASE x.w.sched[sc] # None
    <3>1. sched'[sc].last = x.at /\ sched'[sc].next = compute_next_run(sc, x.at)
      <4>1. sched'[sc] = [last |-> x.at, next |-> compute_next_run(sc, x.at)]
        BY <1>6, <2>2
      <4> HIDE DEF x
      <4> QED BY <4>1
    <3>2. x.at # None
      BY <1>2, BatchAssumption
    <3>3. ASSUME Frequency[sc] # "ONCE", Cron[sc] = {}
          PROVE  sched'[sc].next # None /\ t + Delta <= sched'[sc].next
      <4>1. sched'[sc].next = x.at + Delta
        BY <1>2, <3>1, <3>3, IntervalRun
      <4>2. t = x.at \/ t + Delta <= x.at
        BY <1>4, <1>5, <1>7, <1>8, <2>2, <3>3
      <4>3. x.at + Delta \in Nat /\ t \in Nat
        BY <1>2
      <4> QED BY <1>2, <4>1, <4>2, <4>3, BatchAssumption
    <3> QED BY <3>1, <3>2, <3>3
  <2> QED BY <2>1, <2>2
<1>9. ASSUME NEW sc \in Schedule, NEW t \in 0 .. MaxMinute, NEW u \in 0 .. MaxMinute, t < u,
             job'[<<sc, t>>] # None, job'[<<sc, u>>] # None
      PROVE  Frequency[sc] # "ONCE" /\ (Cron[sc] = {} => u - t >= Delta)
  <2>1. CASE job[<<sc, t>>] # None /\ job[<<sc, u>>] # None
    BY <1>1, <1>9, <2>1 DEF JobsSpaced, Spaced
  <2>2. CASE job[<<sc, t>>] # None /\ job[<<sc, u>>] = None
    <3>1. u = x.at /\ x.w.sched[sc] # None
      BY <1>4, <1>5, <1>9, <2>2
    <3> QED BY <1>2, <1>7, <2>2, <3>1
  <2>3. CASE job[<<sc, t>>] = None /\ job[<<sc, u>>] # None
    <3>1. t = x.at /\ x.w.sched[sc] # None
      BY <1>4, <1>5, <1>9, <2>3
    <3>2. Frequency[sc] # "ONCE" /\ (Cron[sc] = {} => u + Delta <= x.at)
      BY <1>7, <2>3, <3>1
    <3> QED BY <1>2, <1>9, <3>1, <3>2
  <2>4. CASE job[<<sc, t>>] = None /\ job[<<sc, u>>] = None
    <3>1. t = x.at /\ u = x.at
      BY <1>4, <1>5, <1>9, <2>4
    <3> QED BY <1>2, <1>9, <3>1
  <2> QED BY <2>1, <2>2, <2>3, <2>4
<1> QED BY <1>8, <1>9 DEF JobsSpaced, Rescheduled, Spaced

\* A commit of an operator touches no schedule; one of a tick publishes it.
LEMMA CommitPlanned ==
    ASSUME IInv, IInv', SInv, NEW s \in Session, tx[s].pc \notin {"idle", "items"},
           s \in Scheduler => tx[s].pc = "evaluate", Commit(s)
    PROVE  SInv'
<1>1. UNCHANGED <<pool, thread>> /\ tx'[s] = Idle /\ \A o \in Session \ {s} : tx'[o] = tx[o]
  BY DEF Commit, Set, fixed, IInv, TypeOK
<1>2. Idle.pc = "idle" /\ Idle.w = NoWrites
  BY DEF Idle
<1>3. (s \in Operator => OperatorOK(s)') /\ (s \in Scheduler => TickOK(s)')
  <2>1. (\A k \in Key : NoWrites.job[k] = None) /\ \A sc \in Schedule : NoWrites.sched[sc] = None
    BY DEF NoWrites
  <2>2. \A sc \in Schedule, t \in 0 .. MaxMinute : NoWrites.job[<<sc, t>>] = None
    BY <2>1 DEF Key
  <2> QED BY <1>1, <1>2, <2>1, <2>2 DEF OperatorOK, TickOK
<1>4. PoolOK'
  BY <1>1 DEF SInv, PoolOK
<1>5. ASSUME NEW o \in Operator PROVE OperatorOK(o)'
  <2>1. CASE o # s
    <3>1. tx'[o] = tx[o] /\ OperatorOK(o)
      BY <1>1, <2>1 DEF SInv, Session
    <3> QED BY <3>1 DEF OperatorOK
  <2> QED BY <1>3, <2>1
<1>6. ASSUME NEW o \in Scheduler PROVE TickOK(o)'
  <2>1. CASE o # s
    <3>1. tx'[o] = tx[o] /\ TickOK(o)
      BY <1>1, <2>1 DEF SInv, Session
    <3> QED BY <3>1 DEF TickOK
  <2> QED BY <1>3, <2>1
<1>7. ASSUME NEW o \in Scheduler, pool' \cap Scheduler = {o} PROVE SoleOK(o)'
  <2>1. pool \cap Scheduler = {o} /\ SoleOK(o)
    BY <1>1, <1>7 DEF SInv
  <2>2. CASE s \in Scheduler
    <3>1. o = s
      BY <2>1, <2>2, AtWork
    <3>2. JobsSpaced'
      BY <2>1, <2>2, <3>1, TickPublished
    <3> QED BY <1>1, <1>2, <3>1, <3>2 DEF SoleOK
  <2>3. CASE s \in Operator
    <3>1. OperatorOK(s) /\ o # s
      BY <2>3, BatchAssumption DEF SInv
    <3>2. sched' = sched
      BY <3>1 DEF Commit, Over, OperatorOK, IInv, TypeOK
    <3>3. ASSUME NEW sc \in Schedule, NEW t \in 0 .. MaxMinute
          PROVE  job'[<<sc, t>>] = job[<<sc, t>>]
      <4>1. <<sc, t>> \in Key
        BY DEF Key
      <4>2. <<sc, t>> \notin ManualKey
        BY BatchAssumption
      <4>3. tx[s].w.job[<<sc, t>>] = None
        BY <3>1, <4>1, <4>2 DEF OperatorOK
      <4> QED BY <4>1, <4>3, CommitFacts
    <3>4. JobsSpaced'
      BY <2>1, <3>2, <3>3 DEF SoleOK, JobsSpaced, Rescheduled, Spaced
    <3>5. tx'[o] = tx[o]
      BY <1>1, <3>1 DEF Session
    <3> QED BY <2>1, <3>2, <3>4, <3>5 DEF SoleOK
  <2> QED BY <2>2, <2>3 DEF Session
<1> QED BY <1>4, <1>5, <1>6, <1>7 DEF SInv

LEMMA EndPlanned ==
    ASSUME IInv, IInv', SInv, NEW s \in Session, TickEnd(s) \/ CallCommit(s)
    PROVE  SInv'
<1>1. CASE TickEnd(s)
  BY <1>1, CommitPlanned, ErrorStep DEF TickEnd
<1>2. CASE CallCommit(s)
  BY <1>2, CommitPlanned, BatchAssumption DEF CallCommit
<1> QED BY <1>1, <1>2

\* The clock, and the threads of schedulers at work.
LEMMA OutsidePlanned ==
    ASSUME IInv, SInv,
           \/ UNCHANGED vars \/ Minute
           \/ \E s \in Session : ThreadExit(s) \/ Stop(s) \/ Start(s)
    PROVE  SInv'
<1>1. UNCHANGED <<pool, sched, job, tx>>
  BY DEF vars, Minute, ThreadExit, Stop, Start, fixed
<1>2. \A o \in Scheduler \ pool : thread'[o] = "dead"
  BY DEF vars, Minute, ThreadExit, Stop, Start, fixed, SInv, PoolOK, IInv, TypeOK
<1>3. PoolOK'
  BY <1>1, <1>2 DEF SInv, PoolOK
<1>4. \A o \in Operator : OperatorOK(o)'
  BY <1>1 DEF SInv, OperatorOK
<1>5. ASSUME NEW o \in Scheduler PROVE TickOK(o)'
  <2>1. TickOK(o)
    BY DEF SInv
  <2> QED BY <1>1, <2>1 DEF TickOK
<1>6. ASSUME NEW o \in Scheduler, pool' \cap Scheduler = {o} PROVE SoleOK(o)'
  <2>1. SoleOK(o)
    BY <1>1, <1>6 DEF SInv
  <2> QED BY <1>1, <2>1 DEF SoleOK, JobsSpaced, Rescheduled, Spaced
<1> QED BY <1>3, <1>4, <1>5, <1>6 DEF SInv

LEMMA InitPlanned == Init => SInv
<1> SUFFICES ASSUME Init PROVE SInv
  OBVIOUS
<1>1. \A s \in Session : tx[s] = Idle
  BY DEF Init
<1>2. Idle.pc = "idle" /\ Idle.w = NoWrites
  BY DEF Idle
<1>3. PoolOK
  BY <1>1 DEF Init, PoolOK
<1>4. ASSUME NEW s \in Session
      PROVE  (s \in Operator => OperatorOK(s)) /\ (s \in Scheduler => TickOK(s))
  BY <1>1, <1>2, RestingOK
<1>5. \A sc \in Schedule, t \in 0 .. MaxMinute : job[<<sc, t>>] = None
  BY DEF Init, Key
<1>6. JobsSpaced
  BY <1>5 DEF JobsSpaced, Rescheduled, Spaced
<1> QED BY <1>1, <1>2, <1>3, <1>4, <1>6 DEF SInv, SoleOK, Session

LEMMA NextPlanned == IInv /\ IInv' /\ SInv /\ [Next]_vars => SInv'
<1> SUFFICES ASSUME IInv, IInv', SInv, [Next]_vars PROVE SInv'
  OBVIOUS
<1>1. CASE UNCHANGED vars \/ Minute
  BY <1>1, OutsidePlanned
<1>2. ASSUME NEW s \in Session, Step(s) PROVE SInv'
  BY <1>2, SubmitPlanned, ExecutePlanned, ItemsPlanned, CancelPlanned, EvaluatePlanned,
     ReschedulePlanned, EndPlanned DEF Step
<1>3. ASSUME NEW s \in Session, ThreadExit(s) \/ Stop(s) \/ Start(s) PROVE SInv'
  BY <1>3, OutsidePlanned
<1>4. ASSUME NEW s \in Session, TickBegin(s) PROVE SInv'
  BY <1>4, TickBeginPlanned
<1>5. ASSUME NEW s \in Session, Crash(s) PROVE SInv'
  BY <1>5, ErrorStep DEF Crash
<1>6. ASSUME NEW s \in Session, NEW k \in ManualKey,
             NEW op \in {"submit", "execute", "cancel"}, Call(s, k, op)
      PROVE  SInv'
  BY <1>6, CallPlanned
<1> QED BY <1>1, <1>2, <1>3, <1>4, <1>5, <1>6 DEF Next

\* With one scheduler at work, whatever crashes, is stopped and started again,
\* two jobs of an interval schedule are at least Delta apart and a ONCE schedule
\* has one job.
THEOREM SoleSchedulerSpacingHolds == Spec => []SoleSchedulerSpacing
<1>1. SInv => SoleSchedulerSpacing
  <2> SUFFICES ASSUME SInv, Cardinality(pool \cap Scheduler) = 1,
                      NEW sc \in Schedule, NEW t \in 0 .. MaxMinute, NEW u \in 0 .. MaxMinute
               PROVE  Spaced(sc, t, u)
    BY DEF SoleSchedulerSpacing, Spaced
  <2>1. IsFiniteSet(pool \cap Scheduler)
    BY FS_Subset, BatchAssumption
  <2>2. PICK s : pool \cap Scheduler = {s}
    BY <2>1, FS_Singleton
  <2>3. s \in Scheduler
    BY <2>2
  <2>4. JobsSpaced
    BY <2>2, <2>3 DEF SInv, SoleOK
  <2> QED BY <2>4 DEF JobsSpaced
<1>2. Init => SInv
  BY InitPlanned
<1>3. IInv /\ IInv' /\ SInv /\ [Next]_vars => SInv'
  BY NextPlanned
<1> QED BY <1>1, <1>2, <1>3, Inductive, PTL DEF Spec

=============================================================================
