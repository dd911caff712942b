----------------------------- MODULE BatchJobs -----------------------------
(***************************************************************************)
(* finance_batch: BatchExecutor (submit_job, execute_job, cancel_job) and  *)
(* the polling BatchScheduler, in concurrent database transactions.        *)
(*                                                                         *)
(* A tick of a scheduler is one transaction for all due schedules; a call  *)
(* of an operator is a transaction of its own in a fresh session.  A       *)
(* transaction's writes are in tx[s].w until it commits.  The counter row  *)
(* of the "batch_job" sequence is locked from its first allocation until   *)
(* the transaction ends, and so is the job row read FOR UPDATE.            *)
(***************************************************************************)
EXTENDS Integers, FiniteSets

CONSTANTS
    Scheduler,      \* scheduler processes
    Operator,       \* sessions of users that call the executor
    Deployments,    \* the sessions at work and the active schedules of an installation
    Schedule, ManualKey,
    Frequency,      \* Frequency[sc]: the frequency of the schedule
    Cron,           \* Cron[sc]: the minutes its cron expression matches, {} if none
    Delta,          \* minutes between two runs of an interval frequency
    Items,          \* a job has the items 1..Items
    Unregistered,   \* schedules whose task_type is not in the TaskRegistry
    MaxMinute,      \* the clock stops here
    MaxFaults,      \* crashes, database errors and stops in a behaviour
    None

\* Rows of batch_jobs and, for the scheduler's columns, of job_schedules.
Executed == {"COMPLETED", "FAILED", "PARTIALLY_COMPLETED"}
Terminal == Executed \cup {"CANCELLED"}
JobRows == [status : Terminal \cup {"PENDING", "RUNNING"}, total : Nat,
            succeeded : Nat, failed : Nat, skipped : Nat]
Runs == [last : Nat \cup {None}, next : Nat \cup {None}]

ASSUME BatchAssumption ==
    /\ Items \in Nat /\ MaxMinute \in Nat /\ Delta \in Nat \ {0}
    /\ None \notin Scheduler \cup Operator \cup Schedule \cup ManualKey \cup Nat
    /\ None \notin JobRows /\ None \notin Runs /\ None \notin Schedule \X Nat
    /\ ManualKey \cap (Schedule \X Nat) = {}
    /\ Cron \in [Schedule -> SUBSET Nat]
    /\ Scheduler \cap Operator = {} /\ IsFiniteSet(Scheduler)
    /\ Deployments \subseteq [sessions : SUBSET (Scheduler \cup Operator),
                              schedules : SUBSET Schedule]

VARIABLES
    now, faults,
    pool,       \* the sessions at work
    active,     \* the schedules with is_active
    thread,     \* thread[s]: "running", "stopping" (stop_event is set) or "dead"
    sched,      \* committed JobScheduleModel rows
    job,        \* job[k]: the committed BatchJobModel row with idempotency_key k, or None
    items,      \* committed BatchItemModel rows: <<key, index, status>>
    effect,     \* committed work of the tasks' execute_item: <<key, index>>
    counter,    \* the session that holds the batch_job counter row, or None
    locked,     \* locked[s]: the keys of committed job rows s holds FOR UPDATE
    tx          \* tx[s]: the transaction of session s

vars == <<now, faults, pool, active, thread, sched, job, items, effect, counter, locked, tx>>

\* What an installation never changes.
fixed == <<pool, active>>

Session == Scheduler \cup Operator

\* A scheduled job's key is its schedule and the minute of the tick.
Key == ManualKey \cup (Schedule \X (0 .. MaxMinute))

NeverRun == [last |-> None, next |-> None]
NoWrites == [job |-> [k \in Key |-> None], items |-> {}, effect |-> {},
             sched |-> [sc \in Schedule |-> None]]
Idle == [pc |-> "idle", at |-> 0, todo |-> {}, seen |-> [sc \in Schedule |-> NeverRun],
         cur |-> None, key |-> None, next |-> 0, broken |-> FALSE, w |-> NoWrites]

BatchJob(status) == [status |-> status, total |-> 0,
                     succeeded |-> 0, failed |-> 0, skipped |-> 0]

\* The rows old with those of new written over them.
Over(new, old) == [x \in DOMAIN old |-> IF new[x] # None THEN new[x] ELSE old[x]]

\* The row of key k as session s reads it: its own writes, else the database.
JobOf(s, k) == Over(tx[s].w.job, job)[k]

\* Back in the loop of _evaluate_schedules.
Looping(r) == [r EXCEPT !.pc = "evaluate", !.cur = None, !.key = None, !.next = 0]
Broken(r) == [Looping(r) EXCEPT !.broken = TRUE, !.todo = {}, !.w = NoWrites]

Init ==
    /\ now = 0 /\ faults = 0
    /\ \E d \in Deployments : pool = d.sessions /\ active = d.schedules
    /\ thread = [s \in Scheduler |-> IF s \in pool THEN "running" ELSE "dead"]
    /\ sched = [sc \in Schedule |-> NeverRun]
    /\ job = [k \in Key |-> None] /\ items = {} /\ effect = {}
    /\ counter = None
    /\ locked = [s \in Session |-> {}]
    /\ tx = [s \in Session |-> Idle]

-----------------------------------------------------------------------------
(* domain/schedule.py *)

matches_cron(sc, t) == t \in Cron[sc]

should_fire(sc, row, t) ==
    /\ Frequency[sc] \notin {"ON_DEMAND", "PERIOD_END"}
    /\ IF Frequency[sc] = "ONCE"
       THEN row.last = None
       ELSE /\ row.next = None \/ row.next <= t
            /\ Cron[sc] = {} \/ matches_cron(sc, t)

\* Mutant: the schedule is due again at once.
compute_next_run_early(sc, t) == IF Frequency[sc] = "ONCE" THEN None ELSE t

\* compute_next_run with base = t.  A cron expression without a match ahead
\* falls back to the interval of the frequency.
compute_next_run(sc, t) ==
    LET ahead == {m \in Cron[sc] : m > t}
    IN  CASE Frequency[sc] = "ONCE" -> None
          [] ahead # {} -> CHOOSE m \in ahead : \A n \in ahead : m <= n
          [] OTHER -> t + Delta

-----------------------------------------------------------------------------
(* Transactions *)

Set(s, r) == tx' = [tx EXCEPT ![s] = r]

Release(s) ==
    /\ counter' = IF counter = s THEN None ELSE counter
    /\ locked' = [locked EXCEPT ![s] = {}]

Commit(s) ==
    /\ job' = Over(tx[s].w.job, job)
    /\ items' = items \cup tx[s].w.items
    /\ effect' = effect \cup tx[s].w.effect
    /\ sched' = Over(tx[s].w.sched, sched)
    /\ Set(s, Idle) /\ Release(s)
    /\ UNCHANGED <<now, faults, fixed, thread>>

Rollback(s) ==
    /\ Set(s, Idle) /\ Release(s)
    /\ UNCHANGED <<now, faults, fixed, thread, sched, job, items, effect>>

\* An exception in a call of an operator ends its transaction; in a tick it is
\* logged and the loop goes on.  When the database refused a statement, the
\* transaction is already rolled back and the next access to the session raises
\* until tick rolls it back.
Raise(s) ==
    IF s \in Operator THEN Rollback(s)
    ELSE /\ Set(s, Looping(tx[s]))
         /\ UNCHANGED <<now, faults, fixed, thread, sched, job, items, effect,
                        counter, locked>>

DatabaseError(s) ==
    /\ Set(s, IF s \in Operator THEN Idle ELSE Broken(tx[s]))
    /\ Release(s)
    /\ UNCHANGED <<now, fixed, thread, sched, job, items, effect>>

-----------------------------------------------------------------------------
(* BatchExecutor *)

\* submit_job up to the idempotency check.
SubmitCheck(s) ==
    /\ tx[s].pc = "submit"
    /\ IF tx[s].cur \in Unregistered \/ JobOf(s, tx[s].key) # None
       THEN Raise(s)
       ELSE /\ Set(s, [tx[s] EXCEPT !.pc = "insert"])
            /\ UNCHANGED <<now, faults, fixed, thread, sched, job, items, effect,
                           counter, locked>>

\* submit_job from next_value("batch_job") on: the counter row is locked, the
\* PENDING job inserted.  A job another session committed meanwhile under the
\* same key makes the INSERT fail.
SubmitInsert(s) ==
    /\ tx[s].pc = "insert"
    /\ counter \in {None, s}
    /\ IF job[tx[s].key] # None
       THEN DatabaseError(s) /\ UNCHANGED faults
       ELSE /\ counter' = s
            /\ Set(s, [tx[s] EXCEPT !.w.job[tx[s].key] = BatchJob("PENDING"),
                                    !.pc = IF s \in Operator THEN "commit" ELSE "execute"])
            /\ UNCHANGED <<now, faults, fixed, thread, sched, job, items, effect, locked>>

\* _fail_job: the job ends without items.
FailedJob == BatchJob("FAILED")

\* The job row of the call becomes r under its lock.
Begin(s, r, pc) ==
    LET k == tx[s].key
    IN  /\ Set(s, [tx[s] EXCEPT !.w.job[k] = r, !.pc = pc, !.next = 1])
        /\ locked' = [locked EXCEPT ![s] = IF job[k] # None THEN @ \cup {k} ELSE @]
        /\ UNCHANGED <<now, faults, fixed, thread, sched, job, items, effect, counter>>

\* execute_job up to prepare_items: the row is read FOR UPDATE and must be
\* PENDING.  prepare_items answers, raises (the job is FAILED without items),
\* or meets a database error, after which _fail_job's flush raises as well.
ExecuteBegin(s) ==
    /\ tx[s].pc = "execute"
    /\ \A o \in Session \ {s} : tx[s].key \notin locked[o]
    /\ IF JobOf(s, tx[s].key).status # "PENDING" THEN Raise(s)
       ELSE \/ Begin(s, [BatchJob("RUNNING") EXCEPT !.total = Items], "items")
            \/ Begin(s, FailedJob, "executed")
            \/ /\ faults < MaxFaults /\ faults' = faults + 1
               /\ DatabaseError(s)

\* Mutant: only SKIPPED rolls the SAVEPOINT back.
SurvivesSavepointUnlessSkipped(status) == status # "SKIPPED"

\* The work of an item survives its SAVEPOINT only when the item SUCCEEDED; an
\* exception counts as FAILED.
SurvivesSavepoint(status) == status = "SUCCEEDED"

Counted(r, status) ==
    [r EXCEPT !.succeeded = @ + (IF status = "SUCCEEDED" THEN 1 ELSE 0),
              !.failed = @ + (IF status = "FAILED" THEN 1 ELSE 0),
              !.skipped = @ + (IF status = "SKIPPED" THEN 1 ELSE 0)]

ExecuteItem(s) ==
    /\ tx[s].pc = "items" /\ tx[s].next <= Items
    /\ \E status \in {"SUCCEEDED", "SKIPPED", "FAILED"} :
         LET k == tx[s].key
             i == tx[s].next
         IN  Set(s, [tx[s] EXCEPT
                 !.next = i + 1,
                 !.w.items = @ \cup {<<k, i, status>>},
                 !.w.effect = @ \cup (IF SurvivesSavepoint(status) THEN {<<k, i>>} ELSE {}),
                 !.w.job[k] = Counted(@, status)])
    /\ UNCHANGED <<now, faults, fixed, thread, sched, job, items, effect, counter, locked>>

FinalStatus(r) ==
    CASE r.failed = 0 /\ r.skipped = 0 -> "COMPLETED"
      [] r.succeeded = 0 /\ r.skipped = 0 -> "FAILED"
      [] OTHER -> "PARTIALLY_COMPLETED"

ExecuteFinish(s) ==
    /\ tx[s].pc = "items" /\ tx[s].next > Items
    /\ LET k == tx[s].key
           r == tx[s].w.job[k]
       IN  Set(s, [tx[s] EXCEPT !.w.job[k].status = FinalStatus(r), !.pc = "executed"])
    /\ UNCHANGED <<now, faults, fixed, thread, sched, job, items, effect, counter, locked>>

\* Mutant: cancel_job without FOR UPDATE.
CancelJobUnlocked(s) ==
    /\ tx[s].pc = "cancel"
    /\ JobOf(s, tx[s].key).status \in {"PENDING", "RUNNING"}
    /\ Set(s, [tx[s] EXCEPT !.w.job[tx[s].key] =
                  [JobOf(s, tx[s].key) EXCEPT !.status = "CANCELLED"],
                            !.pc = "commit"])
    /\ UNCHANGED <<now, faults, fixed, thread, sched, job, items, effect, counter, locked>>

\* cancel_job, in one transaction: FOR UPDATE, then the status check.
CancelJob(s) ==
    /\ tx[s].pc = "cancel"
    /\ \A o \in Session \ {s} : tx[s].key \notin locked[o]
    /\ IF JobOf(s, tx[s].key).status \in {"PENDING", "RUNNING"}
       THEN /\ locked' = [locked EXCEPT ![s] = @ \cup {tx[s].key}]
            /\ Set(s, [tx[s] EXCEPT !.w.job[tx[s].key] =
                          [JobOf(s, tx[s].key) EXCEPT !.status = "CANCELLED"],
                                    !.pc = "commit"])
            /\ UNCHANGED <<now, faults, fixed, thread, sched, job, items, effect, counter>>
       ELSE Raise(s)

\* An operator's call: submit_job, execute_job or cancel_job in its session.
Call(s, k, op) ==
    /\ s \in Operator \cap pool /\ tx[s].pc = "idle"
    /\ op = "submit" \/ job[k] # None
    /\ Set(s, [Idle EXCEPT !.pc = op, !.key = k])
    /\ UNCHANGED <<now, faults, fixed, thread, sched, job, items, effect, counter, locked>>

CallCommit(s) ==
    /\ s \in Operator /\ tx[s].pc \in {"commit", "executed"}
    /\ Commit(s)

-----------------------------------------------------------------------------
(* BatchScheduler *)

\* tick and the SELECT of _evaluate_schedules, while stop_event is clear.
TickBegin(s) ==
    /\ s \in Scheduler /\ thread[s] = "running" /\ tx[s].pc = "idle"
    /\ Set(s, [Idle EXCEPT !.pc = "evaluate", !.at = now, !.todo = active, !.seen = sched])
    /\ UNCHANGED <<now, faults, fixed, thread, sched, job, items, effect, counter, locked>>

\* One round of the loop up to submit_job.  The SELECT has no ORDER BY.
Evaluate(s) ==
    /\ tx[s].pc = "evaluate" /\ tx[s].todo # {} /\ ~tx[s].broken
    /\ thread[s] = "running"
    /\ \E sc \in tx[s].todo :
         Set(s, IF should_fire(sc, tx[s].seen[sc], tx[s].at)
                THEN [tx[s] EXCEPT !.todo = @ \ {sc}, !.pc = "submit", !.cur = sc,
                                   !.key = <<sc, tx[s].at>>]
                ELSE [tx[s] EXCEPT !.todo = @ \ {sc}])
    /\ UNCHANGED <<now, faults, fixed, thread, sched, job, items, effect, counter, locked>>

\* The rest of the round, after execute_job returned.
Reschedule(s) ==
    /\ s \in Scheduler /\ tx[s].pc = "executed"
    /\ LET sc == tx[s].cur
           t == tx[s].at
       IN  Set(s, [Looping(tx[s]) EXCEPT
                   !.w.sched[sc] = [last |-> t, next |-> compute_next_run(sc, t)]])
    /\ UNCHANGED <<now, faults, fixed, thread, sched, job, items, effect, counter, locked>>

\* Mutant: tick has no rollback.
TickEndNoRollback(s) ==
    /\ tx[s].pc = "evaluate"
    /\ tx[s].todo = {} \/ thread[s] = "stopping"
    /\ ~tx[s].broken
    /\ Commit(s)

\* The end of tick: commit, or, in a broken session, rollback.  A set
\* stop_event ends the loop early and the thread with it.
TickEnd(s) ==
    /\ tx[s].pc = "evaluate"
    /\ tx[s].todo = {} \/ tx[s].broken \/ thread[s] = "stopping"
    /\ IF tx[s].broken THEN Rollback(s) ELSE Commit(s)

\* _run_loop leaves when it sees stop_event.
ThreadExit(s) ==
    /\ s \in Scheduler /\ thread[s] = "stopping" /\ tx[s].pc = "idle"
    /\ thread' = [thread EXCEPT ![s] = "dead"]
    /\ UNCHANGED <<now, faults, fixed, sched, job, items, effect, counter, locked, tx>>

\* stop: the event is set; join gives up after its timeout.
Stop(s) ==
    /\ s \in Scheduler /\ thread[s] = "running"
    /\ faults < MaxFaults /\ faults' = faults + 1
    /\ thread' = [thread EXCEPT ![s] = "stopping"]
    /\ UNCHANGED <<now, fixed, sched, job, items, effect, counter, locked, tx>>

\* start: nothing when the thread is still alive.
Start(s) ==
    /\ s \in Scheduler \cap pool /\ thread[s] = "dead"
    /\ thread' = [thread EXCEPT ![s] = "running"]
    /\ UNCHANGED <<now, faults, fixed, sched, job, items, effect, counter, locked, tx>>

\* The process of the session dies; the database rolls its transaction back.
Crash(s) ==
    /\ tx[s].pc # "idle"
    /\ faults < MaxFaults /\ faults' = faults + 1
    /\ thread' = IF s \in Scheduler THEN [thread EXCEPT ![s] = "dead"] ELSE thread
    /\ Set(s, Idle) /\ Release(s)
    /\ UNCHANGED <<now, fixed, sched, job, items, effect>>

Minute ==
    /\ now < MaxMinute /\ now' = now + 1
    /\ UNCHANGED <<faults, fixed, thread, sched, job, items, effect, counter, locked, tx>>

-----------------------------------------------------------------------------

Step(s) ==
    \/ SubmitCheck(s) \/ SubmitInsert(s)
    \/ ExecuteBegin(s) \/ ExecuteItem(s) \/ ExecuteFinish(s)
    \/ CancelJob(s) \/ CallCommit(s)
    \/ Evaluate(s) \/ Reschedule(s) \/ TickEnd(s)

Next ==
    \/ Minute
    \/ \E s \in Session :
         \/ Step(s)
         \/ TickBegin(s) \/ ThreadExit(s) \/ Stop(s) \/ Start(s) \/ Crash(s)
         \/ \E k \in ManualKey, op \in {"submit", "execute", "cancel"} : Call(s, k, op)

\* The threads run, the database answers, a scheduler that was stopped or has
\* died is started again, and the clock advances.
Fairness ==
    /\ WF_vars(Minute)
    /\ \A s \in Session : WF_vars(Step(s))
    /\ \A s \in Scheduler :
         WF_vars(TickBegin(s)) /\ WF_vars(ThreadExit(s)) /\ WF_vars(Start(s))

Spec == Init /\ [][Next]_vars /\ Fairness

-----------------------------------------------------------------------------
(* Properties *)

ItemsOf(k, status) == {r \in items : r[1] = k /\ r[3] = status}

\* BT-1, BT-8: a committed job tells the truth about its items.  Its counters
\* are its item rows, one for every item when it was executed and none
\* otherwise; the committed work is that of its SUCCEEDED items, whatever
\* crashed, was cancelled or was refused by the database meanwhile; and no job
\* is ever committed RUNNING (execute_job is one transaction).
JobAccounts ==
    \A k \in {x \in Key : job[x] # None} :
      LET r == job[k] IN
      /\ r.status # "RUNNING"
      /\ r.succeeded = Cardinality(ItemsOf(k, "SUCCEEDED"))
      /\ r.failed = Cardinality(ItemsOf(k, "FAILED"))
      /\ r.skipped = Cardinality(ItemsOf(k, "SKIPPED"))
      /\ r.total = r.succeeded + r.failed + r.skipped
      /\ {x \in effect : x[1] = k} = {<<y[1], y[2]>> : y \in ItemsOf(k, "SUCCEEDED")}
      /\ r.status \in {"PENDING", "CANCELLED"} => r.total = 0

\* BT-8: a job that ended stays as it ended: no second execution and no
\* cancellation overwrites it, and its items and its work stay.
EndedJobStays ==
    [][\A k \in Key : job[k] # None /\ job[k].status \in Terminal =>
         /\ job'[k] = job[k]
         /\ {r \in items' : r[1] = k} = {r \in items : r[1] = k}
         /\ {r \in effect' : r[1] = k} = {r \in effect : r[1] = k}]_vars

\* With one scheduler, restarted after crashes and stops, a schedule runs at
\* most once per interval, and a ONCE schedule once.  (Two schedulers whose
\* ticks overlap break this: the key holds the minute of the tick, and the
\* schedule row is not locked.)
SoleSchedulerSpacing ==
    Cardinality(pool \cap Scheduler) = 1 =>
      \A sc \in Schedule, t, u \in 0..MaxMinute :
        t < u /\ job[<<sc, t>>] # None /\ job[<<sc, u>>] # None =>
          Frequency[sc] # "ONCE" /\ (Cron[sc] = {} => u - t >= Delta)

\* A schedule without a cron expression that is due is run, or at least no
\* longer due at that minute, in spite of crashes, stops and database errors
\* that end at some time.  (A cron schedule that no tick meets in its minute
\* waits for the next match.)
DueScheduleRuns ==
    \A sc \in {x \in Schedule \ Unregistered : Cron[x] = {}} :
      \A t \in 0..MaxMinute - 1 :
        (now = t /\ sc \in active /\ should_fire(sc, sched[sc], t)) ~> ~should_fire(sc, sched[sc], t)

=============================================================================
