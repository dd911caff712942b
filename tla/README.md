# A TLA+ model of the accounting system

This directory holds TLA+ modules for the accounting system: how sequence
numbers and audit rows are allocated, how a business event becomes a posted
journal entry, how entries are reversed, how outcomes are retried, how a fiscal
period is closed, how batch jobs, imports and approvals run, what the eighteen
business modules post, and what the calculation engines compute. TLC checks the
modules on small instances; TLAPS proves the central facts about the audit trail,
the posting pipeline, the outcomes, the period close, the batch jobs, the
approvals, the imports and events from outside for every instance. Paths below are relative to the repository root.

## 1. The system

The system is a set of Python packages over one PostgreSQL database, used
through SQLAlchemy at READ COMMITTED with `expire_on_commit=False`
(`finance_kernel/db/engine.py`). Apart
from the batch scheduler's polling thread there are no threads or messages
inside the program: concurrency is between database sessions (processes,
workers, CLI users), and synchronisation is row locks, unique indexes and
triggers.

| Component | State | Operations | What makes it correct |
|---|---|---|---|
| Sequence allocation (`finance_kernel/services/sequence_service.py`) | one counter row per name | `next_value`, `initialize_sequences`, `current_value`, `reset` | strictly increasing, no duplicate (R9) |
| Audit trail (`auditor_service.py`) | `audit_events`: seq, prev_hash, hash | `record_*`, `validate_chain`, `get_trace` | the hash chain is intact for every reader (R11); append-only (R1) |
| Event ingestion (`ingestor_service.py`) | `events` | `ingest` | one row and one payload per event_id (R2, R3) |
| Module posting (`module_posting_service.py`) | none of its own | `post_event` | what it answers is what is in the ledger |
| Interpretation coordinator, outcome recorder, retry | `interpretation_outcomes` | `interpret_and_post`, `record_*`, `transition_*`, retries | one outcome per accepted event (P15), bounded retries, POSTED means entries (L5) |
| Policies, guards, meaning (`policy_selector.py`, `meaning_builder.py`, `policy_bridge.py`) | registry of policies | select, guard, build intent | one policy per event, balanced intents |
| Journal writer (`journal_writer.py`) | `journal_entries`, lines | `write`, `write_reversal` | all ledgers of an intent or none (P11) |
| Reversal (`reversal_service.py`) | reversal entries, links | `reverse_in_same_period`, `reverse_in_current_period` | an entry is reversed at most once |
| Fiscal periods (`period_service.py`) | `fiscal_periods.status` | create, begin_closing, cancel_closing, close, lock, checks | OPEN → CLOSING → CLOSED → LOCKED, never back from CLOSED |
| Period close (`finance_services/period_close_orchestrator.py`) | the run, in Python variables; certificate as an audit row | `close_period_full`, `cancel_close` | one close at a time (R25), a true certificate (R24) |
| Subledger close (`subledger_period_service.py`) | status row per subledger and period | `close_subledger_period` | closed only when reconciled (SL-G6) |
| Batch executor, scheduler (`finance_batch`) | jobs, items, schedules | submit, execute, cancel, tick, start, stop | a failed item leaves nothing behind; ended jobs stay; a due schedule runs |
| Import and promotion (`finance_ingestion`) | batches, staged records | load, validate, correct, delete, promote | a record is promoted once, with its live row |
| Approval, workflow (`approval_service.py`, `workflow_executor.py`) | requests, decisions | create, decide, cancel, expire, apply | what is applied was approved by somebody entitled |
| Business modules (`finance_modules/*`) | document rows, cost lots, links | some two hundred service methods | document and posting stand or fall together; subledgers tie to control accounts |
| Integration (`finance_services/integration.py`, `finance_kernel/domain/schemas`) | none of its own | `post_event_from_external` | schema, policy and idempotency fit together |
| Engines (`finance_engines`) | none | pure functions | arithmetic identities |
| Links, corrections (`link_graph_service.py`, `correction_service.py`) | `economic_links` | establish, unwind | acyclic, unwound once |
| Configuration, selectors, scripts | reference data, YAML | | outside the ledger's state |

**How they interact.** A business module runs a workflow guard, calls
`post_event`, which in one transaction checks the period, ingests the event
(locking the audit counter), interprets it, writes one entry per ledger (locking
the journal counter) and records the outcome; the module then commits a success
and rolls back anything else (`commit_or_rollback`). With `auto_commit=True`,
the constructor's default, `post_event` commits a success itself and returns
anything else inside the open transaction. A close runs its phases in one
transaction that the caller commits, and calls the GL module, hence `post_event`
and `commit_or_rollback`, from the middle of it. Batch items and promoted
records run inside savepoints of a larger transaction.

**What is hard.** Locks last until the end of a transaction whose end lies in
another component; several checks are plain SELECTs whose answer is used much
later, some answered by the session's identity map; rollback happens inside
callees; every audited operation queues on one row; policies, schemas and
subledger mappings are maintained apart and have to agree. `PROJECT.json` lists
the places with their lines and with the properties aimed at them.

## 2. Modules

| Module | Models | Role |
|---|---|---|
| `AuditLog` | | abstract: a sequence of facts that only grows at its end |
| `AuditChain` | `SequenceService`, `AuditorService`, savepoints | detailed; theorems in `BaseProofs` |
| `GeneralLedger` | | abstract: one step posts an event to every ledger or reverses one entry |
| `Posting`, `PostingProofs` | `ModulePostingService`, `IngestorService`, `InterpretationCoordinator`, `JournalWriter`, `OutcomeRecorder`, `ReversalService`, `PeriodService.close_period` | composition of the posting pipeline; theorems |
| `OutcomeLifecycle`, `OutcomeProofs` | `OutcomeRecorder.transition_*`, `RetryService`, `transition_blocked_to_posted`, idempotency of `JournalWriter.write` | detailed; theorems |
| `PeriodClose`, `PeriodCloseProofs` | `PeriodService`, `PeriodCloseOrchestrator`, `SubledgerPeriodService`, the CLI's commits | composition of the close with the postings around it; theorems |
| `BatchJobs`, `BatchJobsProofs` | `BatchExecutor`, `BatchScheduler`, schedule arithmetic | detailed; theorems |
| `Approvals`, `ApprovalsProofs` | `ApprovalService`, `WorkflowExecutor`'s approval gate, approval engine | detailed; theorems |
| `Imports`, `ImportsProofs` | `ImportService`, `PromotionService`, account and journal promoters | detailed; theorems |
| `PolicyPosting` | policy selection, guards, intents, workflows, and the vocabulary of service methods | operators |
| `AccountsPayable`, `AccountsReceivable`, `Cash`, `Contracts`, `Expense`, `FixedAssets`, `GLEntries`, `Inventory`, `Lease`, `Payroll`, `Procurement`, `Project`, `Revenue`, `Tax`, `WorkInProcess` | `profiles.py`, `workflows.py`, `service.py` of one business module each; `GLEntries` of four, the general ledger, intercompany, credit loss and budget | operators: its policies, workflows and methods |
| `PolicyRegistry` | `register_all_modules` | composes the eighteen business modules |
| `ModuleCalls` | sessions that call the service methods; links, lots, commits | composition of business modules and posting |
| `EventSchemas`, `Integration` | event schemas, their validation, `post_event_from_external` | composition of contract and policies; `Integration` with a theorem |
| `MoneyMath`, `Allocation`, `TaxEngine`, `Matching`, `Billing`, `Aging`, `Engines` | `finance_engines` | pure algorithms; `Engines` calls them; theorems in `BaseProofs` |
| `BaseProofs` | | theorems about the two parts that use no other, `AuditChain` and `Engines` |
| `MCBatchJobs`, `MCApprovals`, `MCEngines` | | constants of the instances for TLC; the other modules are instantiated by their `.cfg` alone |

Common conventions. An action is one SQL statement that another session can
observe or that can wait, with the Python around it. A session's uncommitted
rows are kept apart from the committed ones; a SELECT sees the union. A lock is
a variable naming its holder; taking it is a guard (`Free`), so a waiting
statement is a disabled action. A definition introduced by "Mutant" is a faulty
variant of the one after it, used by no specification: each shows that some
property would notice the fault.

### 2.1 AuditChain

`counter`/`created` are the committed counter row, `owner` the transaction that
locked or inserted it, `log` the committed rows, `val[s]`/`pend[s]` what the
transaction of `s` flushed, `sp`/`savedVal`/`savedPend` its savepoint, `pc[s]`
the next statement of `_create_audit_event`.

* `LockCounter`, `CounterAbsent`, `CreateCounter`, `CreateConflict`, `Increment`
  are the statements of `next_value`: SELECT ... FOR UPDATE with
  `populate_existing`, the insert on first use in a nested savepoint, its
  IntegrityError and the second SELECT, the increment and flush.
* `GetLastHash`, `InsertRow` finish `_create_audit_event`.
* `BeginSavepoint`, `ReleaseSavepoint`, `RollbackSavepoint` are the item
  savepoints of `BatchExecutor.execute_job` and `PromotionService`. Rolling back
  releases a lock only if it was taken after the savepoint, as PostgreSQL does.
* `Commit`, `Rollback` are the caller's; `Rollback` is enabled at every
  statement, so it also stands for a lost connection or a crash.

A hash is the pair of what was hashed, i.e. SHA-256 without collisions.
`MaxSeq` bounds the counter.

### 2.2 Posting

A call is a path through labels: `period` → `ingest` → `insert` →
`audit_ingested` → `interpret` → `write` → `outcome` → `ok` for a post,
`rev_lock` → `rev_period` → `rev_write` → `rev_audit` → `ok` for a reversal,
`close` → `ok` for a close; `failed` is a result that is not a success, `raise`
an exception. `holder` maps each resource (the two counter rows, event ids,
entries, period rows) to the transaction that locks it. `req[s]` holds the
call's arguments, `tx[s]` its flushed rows, `jval[s]` its counter, `acked` what
callers were told.

Validators, the import gate, controls, profiles, guards and the intent are pure
functions of data the model does not have; each is a choice between going on
and the refusal the code would return (`PostRefused`, `IngestInvalid`,
`InterpretFails`, `WriteFails`). `Abort` ends a transaction at any statement.
`auto` (auto_commit, either value from the start) selects between `ReturnFailure` and
`ReturnUncommitted`. After
`ReturnUncommitted` the next call of that session continues the transaction.
Entries numbered up to `MaxReversible` can be reversed. Resubmission is
bounded by the small sets of events and periods.

### 2.3 PeriodClose

One period. `row` and `audit` are the locks on the period row and the audit
counter row; `wstatus`, `wclosed`, `wcert` are what a transaction has written;
`run[s]` what `close_period_full` keeps in Python variables, which a database
rollback does not undo. `entries` counts the period's committed entries; a
trial balance or a ledger hash is identified with the number of entries it
covers, since the journal only grows. A posting is reduced to its period check,
its audit lock and its commit; `Posting` has the rest.

`contracts` is fixed at the start: whether the compiled pack declares subledger
contracts, and with them a `SubledgerPeriodService`. Without one phase 1 is
skipped (`Phase1Skipped`). With one it always fails (`Phase1`): what
`close_subledger_period` returns carries its status as a string, `.value` of which
raises at `period_close_orchestrator.py:506`, after the close of the subledger was
flushed. At year-end phase 4 always fails too (`Phase4Raises`):
`scripts/cli/close.py:20` passes the clock where `GeneralLedgerService` expects
the workflow executor, `record_closing_entry` raises at its guard, before it
posts, and its handler rolls the session of the close back.

`Commit` of a `failed` run is the CLI's unconditional `session.commit()`
(`scripts/cli/close.py`): it leaves the period in CLOSING, with the subledgers
phase 1 flushed, or, after `Phase4Raises`, commits nothing. Phase 3 does nothing
because no caller passes an adjustment callback. `MaxEntries` bounds the postings.

### 2.4 OutcomeLifecycle

`outcome[e]` is the committed row, `cache[s][e]` the row as the identity map of
`s` has it: a session reads a row once and decides on that copy until it rolls
back. `holder[e]` is the row lock an UPDATE takes, `keys[s]` the idempotency keys
inserted and not committed, `write[s]` the loop of `JournalWriter.write` over
`Ledgers`, the numbers 1 .. `LedgerCount` in the order of the intent. `Record`, `GetOutcome`, `InitiateRetry`, `CompleteRetryFailure`,
`Abandon`, `TransitionToRejected` and `TransitionToPosted` are the recorder's and
the retry service's methods; `StartWrite`, `SkipExisting`, `CreateEntry` and
`ConcurrentInsert` the writer, the last one with its `session.rollback()` inside
the loop.

### 2.5 BatchJobs

`now` is the clock in minutes, `thread[s]` the scheduler's thread, `sched`, `job`,
`items`, `effect` the committed rows and the committed work of the items, and
`tx[s]` a transaction: a whole tick of a scheduler, or one call of an operator.
The rows of jobs are a function of `Key`, `None` where there is no row: a key is
one that an operator chose or a schedule with the minute of the tick. `Over` reads
a transaction's writes over the committed rows.
`TickBegin` → `Evaluate` → submit → execute, item by item in savepoints →
`TickEnd`; `Stop`, `ThreadExit`, `Start` and `Crash` are the thread's life. A
deployment fixes which schedulers and operators are at work. `MaxMinute` and
`MaxFaults` bound the clock and the faults.

### 2.6 Approvals

`db` and `cache[s]` are the committed request rows and those in identity maps,
`txn[s]` an open transaction, `auditLock` the audit counter row every change of
status takes, `applied` the requests on whose strength a transition was applied.
`RequestTransition` is `execute_transition` up to `create_request` (policy,
matching rule, auto-approval), `RecordDecision`, `cancel_request`,
`expire_stale_requests` with `ExpireNext` for each row of its loop (in any order:
its query has no ORDER BY), and `ApplyTransition` the resumed transition. The two policies are those of the
shipped configuration set.

### 2.7 Imports

`batches`, `records`, `entities` are committed; `tx[s]` is the transaction of a
validation or a promotion: `wrote` its record updates, `new` its inserted live
rows, `todo` the records the loop has still to visit, in the order of their source
row. `Data` is what a row of a file may say, and a file is any assignment of it
to rows. `CheckRecord`, `InsertRecord`, `InsertConflicts`, `PromotionFails` are one
round of the loop of `promote_batch` under its savepoint; in `InsertConflicts`
the ingestor's handler rolls back the whole session, savepoint and all, and the
loop goes on. The party, vendor, customer and item promoters take the account
promoter's path.

### 2.8 PolicyPosting, the business modules and ModuleCalls

A policy is its event type, its where clause, its guards and its ledger lines. A
workflow is its transitions with guards. A service method is a sequence of steps
(`guard`, `require`, `apply`, `consume`, `post`, `add`, `set`, `commit`, ...) in
the order of the code; `Calls` of a module lists its methods with inputs that
take each of their paths. `_do_post_event` evaluates selection, guards and
balance on the policies of all eighteen modules, as `register_all_modules` puts
them into one registry.

`ModuleCalls` gives the steps their meaning: `Start` is a client's call, `Begin`
the steps before the first write (they read without locks), `Complete` the rest
under the kernel's sequence lock, `Crash` the loss of the session. `lots` and
`links` are the cost lots and economic links that payment application and lot
consumption read.

### 2.9 EventSchemas and Integration

`EventSchemas` has every schema of the contract, with required fields, types,
enumerations and limits. `Integration` submits, under one event id, payloads
around those limits: `Submit` is `post_event_from_external`, `Close` the end of
the caller's session.

### 2.10 Engines

`Allocation`, `TaxEngine`, `Matching`, `Billing` and `Aging` are operators on
integers (cents, percents, days); `MoneyMath` has the roundings the Decimal code
uses and Python's `sorted` (`Sorted`, keys of two numbers, stable). A ratio that is
no finite decimal is rounded before it is multiplied, so a tie may fall on either
side (`QuantizedShare`). Several simple tax rates that are all zero make
`_calculate_inclusive` divide 0 by 0, which Decimal refuses
(`InvalidOperation`). A behaviour of `Engines` is one job: one call, or a sequence of billings or
aging reports in which each call depends on the ones before. `billed` is what the
caller of the billing engine passes as `cumulative_billed`. What the inputs have to
be is assumed by name: limits are absent or not negative, buckets are as the
docstring of `classify` asks (`Contiguous`), documents carry integers, eligible
amounts, weights and tax rates are not negative.

## 3. Runs

Passing runs:

| Run | Instance | Properties |
|---|---|---|
| `audit_chain` | 3 sessions, 2 contents, 3 values; 70 032 states | `TypeOK`, `ChainValid`, `SeqMonotonic`, `ImplementsAuditLog` |
| `posting` | 2 sessions, 1 event, 2 payloads, 2 ledgers, auto_commit on and off; 143 736 states | `PostedAtomically`, `OutcomePerEvent`, `AckedIsPosted`, `OneReversal`, `ImplementsLedger`, `EveryCallReturns` |
| `period_close` | 3 sessions, 2 subledgers, 2 postings, ordinary and year-end closes, with and without contracts; 80 178 states | `TypeOK`, `ExclusiveClose`, `CertificateTrue`, `OneCertificate`, `ClosedStaysClosed`, `CertificateCurrent` |
| `outcome` | 2 sessions, 1 event, 2 intents, 2 ledgers, 2 retries; 17 989 states | `RetryLimit`, `PostedHasEntries` |
| `batch` | 2 schedulers, 2 operators, 4 schedules, 3 minutes, 1 fault; 59 492 states | `JobAccounts`, `SoleSchedulerSpacing`, `EndedJobStays`, `DueScheduleRuns` |
| `business` | 18 modules, 2 sessions, 2 calls; 123 696 states | `PostingHasRow`, `AckedSurvives`, `ControlTies`, `ConsumedIsExpensed` |
| `integration` | every event type, 3 submissions; 68 038 states | `ContractHandled`, `SuccessIsPosted` |
| `approvals` | 2 sessions, 3 actors, 2 documents, 2 requests, 4 calls; 738 007 states | `AuditTellsStatus`, `AppliedWasApproved`, `ResolvedUnlessStale` |
| `engines` | bounded inputs, 3 billings, 2 reports; 615 374 states | `AllocationAccounted`, `TaxExact`, `SuggestionsSound`, `BillingWithinLimits`, `CascadeAgrees`, `AgingForward` |
| `imports` | 2 sessions, 2 batches of 2 rows, every file over 2 data, 4 calls; 1 052 056 states | `PromotedIsReal`, `ImportedOnce`, `NoOrphanEntity` |

What they show:

* The audit chain survives every interleaving because the counter lock covers
  the allocation, the read of the last hash and the insert up to the commit. The
  numbers increase for every reader (`SeqMonotonic`), and since a rolled back one is
  given out again, the committed log has no gap (`ImplementsAuditLog`).
* An event's entries in all ledgers and its POSTED outcome appear in one step
  or not at all; the journal refines the atomic ledger of `GeneralLedger`,
  with gap-free numbers, also when auto_commit leaves refused work in an open
  transaction.
* With `commit_or_rollback`, a caller that was told POSTED or ALREADY_POSTED
  can rely on the entries, even when the answer came from an insert conflict:
  the insert waits for the other transaction, which commits only successes.
* Two reversals of one entry are serialised by the lock on the original; the
  unique index behind it never has to act.
* Two closes never overlap, although phase 4 of a year-end run gives up its locks:
  it fails at once. A certificate is of an ordinary close without subledger
  contracts; no subledger is closed beside it and it lists none
  (`CertificateTrue`). That no posting commits between
  the verified trial balance, the hash and the commit is not due to the period
  lock but to the audit counter lock that `record_close_begun` took
  (`CertificateCurrent`).
* Retries decided on stale rows never push the counter past `MAX_RETRIES`, and a
  POSTED outcome has its entries in every ledger in spite of the rollback inside
  the writer's loop, because the outcome row is read again after it.
* A job's counters, items and work agree at every commit, whatever crashed; a
  scheduler that is restarted runs a due schedule, and a sole scheduler runs it
  once per interval.
* No posting of a module commits without its document, nor twice for one, for every
  method, also when calls are repeated; the payables and receivables subledgers tie to their
  control accounts but for the two methods named below.
* An event accepted by its schema finds a policy and not two, but for the values
  `Unhandled` names, and passes its guard, but for a bill of nothing. Whether the
  intent can then be built is not claimed.
* A transition applied on the strength of an approval was approved by an actor
  entitled by the rule the engine picked. A resolved request is changed only by a session that had loaded
  it while it was open: the code has no lock against that session.
* It is known where each cent of an allocation goes, also when its total is not the
  amount; the cascade and contract billing agree, on a base of overhead without
  other direct cost; taxes, billings and aging reports account for every cent under
  the conditions their properties state.
* A promoted record has its live row and a live row its record, whatever failed.

Two runs end in a counterexample, against statements of the repository that
`PROJECT.json` quotes under `findings`:

* `approval_roles` (`RangeRuleApproved`): an auto-approve rule has no range, so it
  matches every amount, comes first by priority and asks for no role: an invoice of
  3000, which the rule for managers is written for, is released on the approval of a
  clerk.
* `terminal_status` (`TerminalIsFinal`): a session that loaded a request while it
  was open overwrites the terminal status another one has committed. What does hold
  is `ResolvedUnlessStale`.

Four more findings are differences between the code and what the repository says of
it that a passing property states the code's way: a rolled back sequence value is
used again (`ImplementsAuditLog`; `finance_kernel/README.md:253-254`); no certificate comes
with a closed subledger (`CertificateTrue`; `period_close_orchestrator.py:26-27`);
the total of an allocation is not always the amount (`AllocationAccounted`;
`allocation.py:171`); overhead is not applied to direct cost other than labor
(`CascadeAgrees`; `allocation_cascade.py:32`).

**Met while modelling, without a run of their own.** Places where what the code
does differs from what a reader of the repository might expect; the models keep
the behaviour of the code, and the properties are stated so that they hold of it.

* Kernel. A posting that passed the period check can commit into
  a period closed directly in the meantime. An insert conflict on an event_id is
  answered as a duplicate without comparing payload hashes
  (`ingestor_service.py:253`). With auto_commit the event row of a refused post
  stays flushed, is committed by the session's next success without an outcome,
  and its retry is answered ALREADY_POSTED. Posting takes the audit counter, then
  the journal counter; reversal the other way round: a deadlock that PostgreSQL
  breaks. Two sessions can create overlapping periods.
* Period close. The docstring of `PeriodCloseOrchestrator` calls the close
  idempotent, the code raises `PeriodAlreadyClosedError`; it says that a failed
  subledger close continues to the next phase, the code stops; the CLI prints
  that the period remains in CLOSING after a failed run also when phase 4 rolled
  it back to OPEN. No year-end close completes, and none of a period with
  subledger contracts. BLOCKED and REJECTED outcomes, and the audit rows of rejected
  events, are rolled back by `commit_or_rollback` with everything else.
* Batch. The idempotency key of a scheduled job holds the minute of the tick, and
  the schedule row is not locked: two schedulers with overlapping ticks run one
  occurrence twice.
* Approvals. One APPROVE resolves a request whose rule says `min_approvers: 2`
  (`docs/CONFIG_AUTHORING_GUIDE.md:483`); `models/approval.py:8` names a trigger
  that does not exist; a resumed transition does not compare the approval's
  document or amount with its own.
* Imports. A journal file imported again in a new batch is not skipped: the batch
  id is part of the payload, its hash differs, and the rows fail to promote. The
  batch's counter of promoted records counts rows that the ingestor's session
  rollback took away. `retry_record` of a promoted journal row with other content
  posts a second entry.
* Business modules. `record_asset_transfer`, `record_revaluation`,
  `receive_with_variance` and `record_benefits_deduction` return POSTED without a
  commit. `apply_prepayment` leaves the supplier subledger alone and
  `record_refund` moves the customer subledger the other way. Two sessions
  together can apply more than an invoice or consume more than a lot, and a
  repeated inventory issue posts its cost again. `approve_travel_authorization`
  and payroll's `submit_timesheet` always raise; `generate_recurring_entry` fails
  the second time. Some policies build intents that do not balance (purchase
  order invoice with tax, receipt with discount, disposal by sale) and are
  refused by the writer.
* Engines. The percent tolerance of a match with a negative target is never exceeded
  (`matching.py:436`); the ceiling is ignored for fixed-price contracts (`billing.py:18`).

**Bounds.** Two sessions are enough for each pairwise race, and three let a
third act while two are in conflict (a commit between a lock and a read, a
waiter behind a ring). Two payloads, ledgers, subledgers, intents, batches and
documents are the least for which "the other one", "a different one" and "only
some of them" exist. Three sequence values allow a committed row, a rolled back
one and a reuse. Two reversible entries are the two entries of one event. Two postings let one be
committed before a close and one race it. Two
calls of a business module let each pair of methods overlap, and calls that post
several times or retry have several attempts. Three submissions are a refusal, a
success and a repetition. Three minutes with an interval of two let a schedule be
due, run, not be due, and be due again. The engines' inputs (`MCEngines`) are
chosen around the roundings and borders of their code.

**Fairness.** `posting`: `Progress(s)` is strongly fair: a running call
issues its next statement, and PostgreSQL grants a released lock to its waiters
in order, so a waiter whose lock is free again and again gets it.
`BreakDeadlock(s)` is weakly fair: the detector runs after `deadlock_timeout`.
Nothing is assumed of `Start` and `Abort`. The property is not claimed for
auto_commit: there an idle session may keep its locks for as long as it likes.
`batch`: the clock advances, a session takes its next statement, a running thread
ticks, a stopping thread exits and a scheduler that is down is started again, all
weakly fair; nothing is assumed of operators, and faults are bounded.

**Deadlock checking** is on for `AuditChain`, `Posting`, `PeriodClose` and
`OutcomeLifecycle`. In the other runs the behaviours end when the bounded calls,
jobs, minutes or submissions are used up, which is no deadlock of the system.

## 4. Proofs

### 4.1 AuditChain

`BaseProofs` proves, for every set of sessions and contents and every
bound:

| Theorem | Statement |
|---|---|
| `TypeCorrect` | `Spec => []TypeOK` |
| `ChainAlwaysValid` | `Spec => []ChainValid` |
| `SequenceMonotonic` | `Spec => []SeqMonotonic` |
| `Refinement` | `Spec => ImplementsAuditLog` |

Assumptions: `NoSession` is not a session, `MaxSeq` is a natural number.

None of the properties is inductive: `ChainValid` says nothing of the sequence
value a session has been given but not used, of the hash it has read, or of
what a savepoint will restore. The inductive invariant is

    IInv == TypeOK /\ LogInv /\ LockInv /\ ViewInv /\ SaveInv

* `LogInv`: the committed rows carry the numbers 1 .. counter once each, and
  each links to the row numbered one less (`GoodRows`);
* `LockInv`: a session that does not own the counter row has no pending rows,
  is not past the lock, and has no savepoint taken under the lock;
* `ViewInv`: the owner's view is `GoodRows` up to the last number it filled, at
  least `counter`, and the hash it has read is that of the last row;
* `SaveInv`: a savepoint taken under the lock restores a view that was
  `GoodRows`; one taken before restores nothing pending.

`AppendRow` and `GoodRowsValid` are the facts about rows: appending the next
number keeps `GoodRows`, and `GoodRows` passes `validate_chain`. Then one lemma
per action shows that `IInv` is preserved. For the refinement,
`CommitPublishes` shows that a commit extends the published sequence and every
other action leaves it alone.

### 4.2 PeriodCloseProofs

| Theorem | Statement |
|---|---|
| `TypeCorrect` | `Spec => []TypeOK` |
| `ClosedForGood` | `Spec => ClosedStaysClosed` |
| `CertifiedOnce` | `Spec => []OneCertificate` |
| `OneCloseAtATime` | `Spec => []ExclusiveClose` |
| `CertificateIsTrue` | `Spec => []CertificateTrue` |
| `CertificateIsCurrent` | `Spec => CertificateCurrent` |

Assumptions: `None` is neither a session nor a status; `MaxEntries` is a natural
number. Sessions and subledgers are any, with or without contracts, and ordinary and
year-end closes run side by side.

`IInv == TypeOK /\ RowInv /\ LateInv /\ CertInv`. Its core is `RowInv`: whoever has
written a status and not committed it holds the row, and the committed status is not
closed. It is what makes `ClosedStaysClosed` true: a commit changes the status only
by publishing such a write. `LateInv` (what phases 1 to 6 have written) and `CertInv`
(a certificate travels with the close of its period, and the committed ones are one)
add what the certificate needs.

`CloseInv == HoldInv /\ SubledgerInv /\ LedgerInv`, inductive relative to `IInv`, is
about a run under way: it keeps the period row and the audit counter row to its end
(`HoldInv`); with contracts it does not get past phase 1, and without them no
subledger is closed (`SubledgerInv`); the ledger has not
moved since it was verified and hashed, since a posting commits only while it owns
the audit counter row (`LedgerInv`).

### 4.3 PostingProofs

For every set of sessions, events, payloads, ledgers and periods, and for both
values of auto_commit:

| Theorem | Statement |
|---|---|
| `TypeCorrect` | `Spec => []TypeOK` |
| `PostedAtomicallyHolds` | `Spec => []PostedAtomically` |
| `OutcomePerEventHolds` | `Spec => []OutcomePerEvent` |
| `AckedIsPostedHolds` | `Spec => []AckedIsPosted` |
| `OneReversalHolds` | `Spec => []OneReversal` |
| `LedgerRefinement` | `Spec => ImplementsLedger` |

Assumptions: `None` is neither a session nor an event, `MaxReversible` is a
natural number.

The properties speak of committed rows, and a commit publishes whatever a
transaction has flushed. The inductive invariant therefore says, label by label,
what a transaction may hold:

    IInv == TypeOK /\ RowsOK /\ NumberedOK /\ PostedAtomically
              /\ \A s \in Session : SessionOK(s)

* `RowsOK`, `NumberedOK`: one committed row per event id, one outcome per event,
  one reversal per entry; the journal's numbers are 1 .. `jcount`, once each.
* `EventsOK`: an uncommitted event row is new and its id locked, so that no other
  transaction can commit the same id in between.
* `OutcomesOK`, `EntriesOK`: an uncommitted POSTED outcome belongs to the running
  call, and comes with its entries in all ledgers; entries exist only at the
  labels that write them and only under the journal counter's lock. This is what
  rules out that a later success publishes half of an earlier refused call when
  auto_commit leaves one in the open transaction.
* `ReversalOK`: from `_load_and_validate` to the commit the original is locked
  and has no committed reversal.
* `NumbersOK`: the holder of the journal counter has numbered its entries behind
  the committed ones without a gap.
* `OwnedOK`: where the caller owns the commit no row outlives its call; it carries
  the promise of `AckedIsPosted`.

`MoveStep` serves all the actions that only read or lock; each of the others has
a lemma, and the commit one per part of the invariant. For the refinement,
`PostingNumbers` counts: a posting's entries are as many as there are ledgers and
take the next numbers; `CommitIsLedgerStep` then shows that a commit is a step of
`GeneralLedger` or changes nothing it sees.

### 4.4 OutcomeProofs

| Theorem | Statement |
|---|---|
| `TypeCorrect` | `Spec => []TypeOK` |
| `RetryLimitHolds` | `Spec => []RetryLimit` |
| `PostedHasEntriesHolds` | `Spec => []PostedHasEntries` |

Assumptions: `MaxRetries` is a natural number, there is at least one ledger,
`None` is not a session, an event or an intent.

`IInv == TypeOK /\ KeysUnique /\ EntriesOK /\ PostedHasEntries`. `TypeOK` bounds
the retry counter of the identity maps' copies too: a retry is decided on such a
copy, and the copy is what a flush writes. `EntriesOK` is about the writer's
loop: outside of it the entries of an intent are committed, or flushed, in all
ledgers or in none (`Whole`); inside, either the look-up found them all, or
another session has committed them, or exactly the ledgers before the current
one have theirs (`WriteOK`). The rollback inside the loop takes every key of the
transaction, the loop goes on, and it preserves `EntriesOK` because the key it
ran into is committed, hence with it those of all ledgers.

### 4.5 ApprovalsProofs

| Theorem | Statement |
|---|---|
| `TypeCorrect` | `Spec => []TypeOK` |
| `AuditTellsStatusHolds` | `Spec => []AuditTellsStatus` |
| `AppliedWasApprovedHolds` | `Spec => []AppliedWasApproved` |
| `ResolvedUnlessStaleHolds` | `Spec => ResolvedUnlessStale` |

Assumption: `None` is not a session, a request row, an audit action or a pending
audit event. Roles, workflows, versions and amounts are arbitrary; the policies
are the shipped ones.

`IInv` is `TypeOK`, `CommittedOK` for each request and `SessionOK` for each
request and session: the row lock belongs to whoever wrote the row (`LockOK`);
the audit event that tells the status of a written row is there or is the
statement that comes next (`AuditedOK`); a written row was open when its session
loaded it, and a copy differs from the committed row in its status only
(`LoadedOK`); an approval in an identity map rests on a decision of the session or
a committed one (`BackedOK`). `LoadedOK` is where `ResolvedUnlessStale` comes from: the
code does not read the row again before it writes.

### 4.6 ImportsProofs

| Theorem | Statement |
|---|---|
| `TypeCorrect` | `Spec => []TypeOK` |
| `PromotedIsRealHolds` | `Spec => []PromotedIsReal` |
| `ImportedOnceHolds` | `Spec => []ImportedOnce` |
| `NoOrphanEntityHolds` | `Spec => NoOrphanEntity` |

Assumption: the bounds are natural numbers, what a row says is a set of natural
numbers, `None` is none of the values it stands beside.

    IInv == TypeOK /\ PromotedIsReal /\ ImportedOnce /\ \A b : BatchOK(b)
              /\ \A s : TxnOK(tx[s]) /\ \A s, t : s # t => Apart(tx[s], tx[t])

In `TxnOK`, an inserted live row is named by the record about to be promoted and
the records to come are untouched (`WritesOK`), `promote_record` is about one
record (`SingleOK`), and no inserted key is taken by a live row or another
inserted one (`KeysOK`, `CheckedOK`). `Apart` says the same of two transactions:
the promoter's check reads committed rows and its own, so it is the unique index
that keeps them apart. `InsertConflictsStep` is the interesting case: the session
rollback takes inserted rows and the updates of their records together.

### 4.7 BatchJobsProofs

| Theorem | Statement |
|---|---|
| `TypeCorrect` | `Spec => []TypeOK` |
| `JobAccountsHolds` | `Spec => []JobAccounts` |
| `EndedJobStaysHolds` | `Spec => EndedJobStays` |
| `SoleSchedulerSpacingHolds` | `Spec => []SoleSchedulerSpacing` |

Assumption (`BatchAssumption`): the bounds are natural numbers and `Delta` is not
zero; no session is both a scheduler and an operator, and there are finitely many
schedulers; an operator's key is never that of a tick; cron expressions match
minutes; `None` is none of the values it stands beside. Frequencies, cron
expressions, deployments and the numbers of items, minutes and faults are
arbitrary.

    IInv == TypeOK /\ LocksOK /\ \A k : CommittedOK(k) /\ \A s : SessionOK(s)

`CommittedOK` is `JobAccounts` with one fact more: a job that is PENDING or has no
row has no items and no work. `WrittenOK` says of each job a transaction wrote that
it is new, and the transaction holds the counter row, or was committed PENDING and
is locked FOR UPDATE; two sessions can therefore never have written the same job
(`LocksOK`), and a commit adds items only to a job that had none. `RunningOK` is
the loop invariant of `execute_job`: items 1 .. next - 1 are counted, each once.
`EndedJobStays` follows: a committed row that ended is in no transaction's writes.

`SoleSchedulerSpacing` has an invariant of its own, inductive relative to `IInv`:

    SInv == PoolOK /\ \A s : OperatorOK(s) /\ \A s : TickOK(s)
              /\ \A s : pool \cap Scheduler = {s} => SoleOK(s)

Sessions outside the installation do nothing and operators write no scheduled job
and no schedule row. In a tick, a job that was submitted was due by the schedule
row read at its start (`seen`), and is rescheduled or about to be (`TickOK`). With
a single scheduler that copy is still the committed row (`SoleOK`), and
every committed job has pushed `next` at least `Delta` past its minute
(`Rescheduled`), so the next one is that far away; `TickPublished` is the commit
of the tick. Reading `seen` is where a second scheduler breaks the property.

### 4.8 Integration

`SuccessIsPostedHolds` is `Spec => []SuccessIsPosted`, at the end of `Integration`
itself. Assumption: `None` is not a payload. The proof uses nothing of the schemas
and policies but that posting an unknown event is never answered ALREADY_POSTED
(`StatusFacts`), so it holds whatever they say, for any number of submissions. Of
`IInv`, `flushed # None => stored = None` is the part TLC's runs do not ask for:
without it a resubmission could be answered from an event row in the session that
contradicts the committed one.

### 4.9 Engines

`BaseProofs` proves, for every set of jobs that satisfies the assumptions of
`Engines`, of any size, and for any number of calls:

| Theorem | Statement |
|---|---|
| `BilledWithinLimits` | `JobSpec => []BillingWithinLimits` |
| `CascadeAgreesAlways` | `JobSpec => []CascadeAgrees` |
| `SuggestionsSoundAlways` | `JobSpec => []SuggestionsSound` |
| `AgingForwardAlways` | `JobSpec => []AgingForward` |
| `AllocationAccountedAlways` | `JobSpec => []AllocationAccounted` |
| `TaxAddsUpAlways` | `JobSpec => []TaxAddsUp`, the first half of `TaxExact` |

These are statements about lists of any length, so they need induction. The
library's induction theorems cannot be applied here; `Induction` proves the
principle for a *set* of numbers from the least element of its complement
(`WFMin`), and `{n \in Nat : ...}` is then the property. From it come

* sums: running totals exist, and whatever starts at 0 and grows by the elements is
  the sum (`RunningTotals`, `SumIs`); sums are additive (`SumAdds`); amounts entered
  in one column each have the same total over columns as over rows (`SumByColumn`),
  so a sum does not depend on the order of its elements (`SumArranged`);
* a sorted order of any set of indices exists (`CanArrange`), so the order `Sorted`
  chooses has the properties it is chosen by (`SortedOrder`);
* recursive functions: steps from whole numbers to whole numbers can be taken any
  number of times (`Recursion`), so `running_total`, `running_gross` and `remaining`
  are what their equations say, and the steps add up to what they change
  (`SumOfSteps`);
* contiguous buckets begin after every earlier one has ended (`BucketsFollow`), so an
  age is in one bucket and an older age in no earlier one (`SlotOfAge`,
  `SlotsForward`).

The invariant `JobInv` says that a billing job is within its limits (`Within`), that
an allocation, cascade or search has no answer yet or one of the engine's, that the
answers of an aging job are reports on days that do not go back (`Aged`), and that
each answer of a tax job adds up (`Taxed`), from which the calculation back starts. `BillingWithinLimits` is
inductive by itself once `billed` is an integer: each kind of contract bills
`Limited` of something (`GrossWithin`). `CascadePools` follows the three steps of
the cascade and finds the bases of `calculate_indirect_costs` in them, so both round
the same products. A candidate within tolerance scores 90 or more, and 100 only if
its date agrees or its reference makes up for it; full marks are never given
outside tolerance (`Evaluation`), which is why none outside can come first.
`AgingForward` combines `SumByColumn` (`LosesNothing`), `SlotsForward` (`Forward`)
and, for the overdue amount, that the first bucket ends on the due date
(`RestIsOverdue`).

For `AllocationAccounted`, what remains after some targets in sequence is the amount
less all they can take, or nothing (`RemainingIs`); since the order takes each target
once, the total follows from `SumArranged`, and a target gets something only when
something remained after the one before it (`Serving`). By ratio, `Near` says that a
share is within so many half cents of its exact part: one for a rounded share,
whichever way its tie falls (`ShareNear`), k for the first k together (`SharesNear`),
and so n - 1 for the last target, which takes the rest (`RestNear`). The targets up to
the rounding target add up to the amount wherever it stands (`UpToRounding`). Pro rata within
the eligible total no share passes its target by more than that (`NearWithin`), which
bounds what the caps leave unallocated (`ByRatio`). For taxes, the lines of an
exclusive calculation add up because each compound tax is a step of the running
total (`Compounding`, `Exclusive`); of an inclusive one because the compound taxes
are what is taken out of the gross amount (`TakingOut`) and the last simple tax is
the rest (`Splits`).

## 5. Only model-checked

* `EveryCallReturns` and `DueScheduleRuns`: liveness under fairness is out of the
  prover's reach.
* The properties of `ModuleCalls`, and `ContractHandled` of `Integration`: what the
  policies of all modules make of an event is evaluated, by folds over the
  registry, not derived.
* `TaxUndone`, the second half of `TaxExact`: half a cent of the net amount is
  multiplied by all rates on the way back, so the cent per tax holds for rates as in
  the run and not for every rate.

## 6. Not modelled

* `SequenceService.reset` (tests only), `create_period`, `enable_adjustments` and
  `disable_adjustments`.
* Cycle detection, child limits and cascading unwinds of the link graph, and the link
  rows no modelled code reads (FULFILLED_BY of the three-way match, SOURCED_FROM of
  cost lots); corrections; bank and lifecycle reconciliation.
* The remaining engines (incurred cost submission, ICE schedules, compliance rule
  lists, earned value, revaluation): report assembly with many fields and little
  control.
* Parties, contracts, snapshots: single-row reference data.
* Configuration loading and compilation, selectors and reports, the user
  interface: no concurrent state, or read only.
* Several currencies in one entry: amounts are of one currency.
* Triggers on reference data; the ones on the ledger, the audit trail and the
  periods are what `AuditLog`, `GeneralLedger` and `ClosedStaysClosed` state.

## 7. Plan

Done: all modules above, with the proofs of section 4.

Next, in order:

1. `LinkGraph`: acyclicity and child limits under concurrent inserts, and
   corrections on top of it; `create_period`.
