-------------------------- MODULE OutcomeLifecycle --------------------------
(***************************************************************************)
(* The life of an InterpretationOutcome after its event was interpreted:   *)
(* OutcomeRecorder's transitions, RetryService, the resolution of a        *)
(* BLOCKED outcome by InterpretationCoordinator, and the idempotent        *)
(* JournalWriter.write it calls, in concurrent sessions.                   *)
(*                                                                         *)
(* A session reads an outcome once: its identity map answers every later   *)
(* SELECT of the row with the values loaded first (expire_on_commit is     *)
(* off), until the session rolls back or is closed.  An UPDATE waits for   *)
(* the row and then overwrites it.                                         *)
(***************************************************************************)
EXTENDS Naturals

CONSTANTS
    Session, Event,
    Intent,         \* econ_event_id values: one per AccountingIntent a caller built
    LedgerCount,    \* the number of ledger_intents of an intent, one per ledger
    MaxRetries,     \* RetryService.MAX_RETRIES
    None

ASSUME MaxRetriesAssumption == MaxRetries \in Nat
ASSUME LedgerAssumption == LedgerCount \in Nat \ {0}
ASSUME NoneAssumption == None \notin Session \cup Event \cup Intent

VARIABLES
    outcome,    \* outcome[e]: the committed row of event e, or None
    journal,    \* committed entries, by idempotency key <<intent, ledger>>
    holder,     \* holder[e]: the session whose transaction wrote the row of e
    keys,       \* keys[s]: idempotency keys inserted by s and not committed
    cache,      \* cache[s][e]: the row as the identity map of s has it, or None
    write       \* write[s]: the JournalWriter.write under way in s, or NoWrite

vars == <<outcome, journal, holder, keys, cache, write>>

NoWrite == [event |-> None, intent |-> None, next |-> 0, new |-> {}]

Row(st, n, x) == [status |-> st, retries |-> n, intent |-> x]

\* A ledger is its place in ledger_intents.
Ledgers == 1 .. LedgerCount
KeysOf(x) == {<<x, l>> : l \in Ledgers}

VALID_TRANSITIONS ==
    [BLOCKED     |-> {"POSTED", "REJECTED", "FAILED"},
     PROVISIONAL |-> {"POSTED", "REJECTED"},
     FAILED      |-> {"RETRYING", "ABANDONED"},
     RETRYING    |-> {"POSTED", "FAILED"},
     POSTED |-> {}, REJECTED |-> {}, NON_POSTING |-> {}, ABANDONED |-> {}]

Idle(s) == write[s] = NoWrite
Known(s, e) == cache[s][e] # None
Free(s, e) == holder[e] \in {None, s}
Put(s, e, r) ==
    /\ holder' = [holder EXCEPT ![e] = s]
    /\ cache' = [cache EXCEPT ![s][e] = r]

\* session.rollback(): the rows of s are gone, its locks released and its
\* identity map expired.
Discard(s) ==
    /\ holder' = [e \in Event |-> IF holder[e] = s THEN None ELSE holder[e]]
    /\ keys' = [keys EXCEPT ![s] = {}]
    /\ cache' = [cache EXCEPT ![s] = [e \in Event |-> None]]

Init ==
    /\ outcome = [e \in Event |-> None]
    /\ journal = {}
    /\ holder = [e \in Event |-> None]
    /\ keys = [s \in Session |-> {}]
    /\ cache = [s \in Session |-> [e \in Event |-> None]]
    /\ write = [s \in Session |-> NoWrite]

-----------------------------------------------------------------------------
(* OutcomeRecorder *)

\* record_rejected, record_blocked, record_provisional, record_non_posting
\* and record_failed: _check_not_exists, then the INSERT.  The session that
\* inserted the event is the only one to get here.
Record(s, e, st) ==
    /\ Idle(s)
    /\ outcome[e] = None
    /\ holder[e] = None
    /\ Put(s, e, Row(st, 0, None))
    /\ UNCHANGED <<outcome, journal, keys, write>>

\* get_outcome: SELECT of a row that the session has not loaded yet.
GetOutcome(s, e) ==
    /\ outcome[e] # None
    /\ ~Known(s, e)
    /\ cache' = [cache EXCEPT ![s][e] = outcome[e]]
    /\ UNCHANGED <<outcome, journal, holder, keys, write>>

\* _validate_and_transition and the UPDATE.
Transition(s, e, r) ==
    /\ Known(s, e)
    /\ r.status \in VALID_TRANSITIONS[cache[s][e].status]
    /\ Free(s, e)
    /\ Put(s, e, r)

\* transition_to_rejected.
TransitionToRejected(s, e) ==
    /\ Idle(s)
    /\ Transition(s, e, [cache[s][e] EXCEPT !.status = "REJECTED"])
    /\ UNCHANGED <<outcome, journal, keys, write>>

(* RetryService *)

\* Mutant of InitiateRetry: the limit is off by one.
InitiateRetryPastLimit(s, e) ==
    /\ Idle(s)
    /\ Known(s, e)
    /\ cache[s][e].status = "FAILED"
    /\ cache[s][e].retries <= MaxRetries
    /\ Transition(s, e, [cache[s][e] EXCEPT !.status = "RETRYING", !.retries = @ + 1])
    /\ UNCHANGED <<outcome, journal, keys, write>>

InitiateRetry(s, e) ==
    /\ Idle(s)
    /\ Known(s, e)
    /\ cache[s][e].status = "FAILED"
    /\ cache[s][e].retries < MaxRetries
    /\ Transition(s, e, [cache[s][e] EXCEPT !.status = "RETRYING", !.retries = @ + 1])
    /\ UNCHANGED <<outcome, journal, keys, write>>

CompleteRetryFailure(s, e) ==
    /\ Idle(s)
    /\ Transition(s, e, [cache[s][e] EXCEPT !.status = "FAILED"])
    /\ UNCHANGED <<outcome, journal, keys, write>>

Abandon(s, e) ==
    /\ Idle(s)
    /\ Transition(s, e, [cache[s][e] EXCEPT !.status = "ABANDONED"])
    /\ UNCHANGED <<outcome, journal, keys, write>>

(* JournalWriter.write and what ends with it *)

Visible(s) == journal \cup keys[s]

\* transition_blocked_to_posted of a BLOCKED outcome, or the posting that a
\* caller runs between initiate_retry and complete_retry_success: the writer
\* looks up the idempotency key of every ledger first.
StartWrite(s, e, x) ==
    /\ Idle(s)
    /\ Known(s, e)
    /\ cache[s][e].status \in {"BLOCKED", "RETRYING"}
    /\ write' = [write EXCEPT ![s] =
                   [event |-> e, intent |-> x, next |-> 1,
                    new |-> {l \in Ledgers : <<x, l>> \notin Visible(s)}]]
    /\ UNCHANGED <<outcome, journal, holder, keys, cache>>

Writing(s) == ~Idle(s) /\ write[s].next \in Ledgers
Key(s) == <<write[s].intent, write[s].next>>
NextLedger(s) == write' = [write EXCEPT ![s].next = @ + 1]
Pending(s) == UNION {keys[t] : t \in Session \ {s}}

\* The ledger's entry was found by the look-up.
SkipExisting(s) ==
    /\ Writing(s)
    /\ write[s].next \notin write[s].new
    /\ NextLedger(s)
    /\ UNCHANGED <<outcome, journal, holder, keys, cache>>

\* _create_entry; the INSERT waits for an uncommitted entry with its key.
CreateEntry(s) ==
    /\ Writing(s)
    /\ write[s].next \in write[s].new
    /\ Key(s) \notin Pending(s) \cup journal
    /\ keys' = [keys EXCEPT ![s] = @ \cup {Key(s)}]
    /\ NextLedger(s)
    /\ UNCHANGED <<outcome, journal, holder, cache>>

\* Mutant of ConcurrentInsert: the loop goes on without the rollback.
ConcurrentInsertGoesOn(s) ==
    /\ Writing(s)
    /\ write[s].next \in write[s].new
    /\ Key(s) \in Pending(s) \cup journal
    /\ NextLedger(s)
    /\ UNCHANGED <<outcome, journal, holder, keys, cache>>

\* IntegrityError: session.rollback() inside the loop over the ledgers, and
\* the entry of the other session is taken as this ledger's entry.
ConcurrentInsert(s) ==
    /\ Writing(s)
    /\ write[s].next \in write[s].new
    /\ Key(s) \in journal
    /\ Discard(s)
    /\ NextLedger(s)
    /\ UNCHANGED <<outcome, journal>>

\* transition_to_posted, on the row as the identity map has it; a row that a
\* rollback has expired is read again first.
TransitionToPosted(s) ==
    /\ ~Idle(s) /\ ~Writing(s)
    /\ Transition(s, write[s].event,
                  [cache[s][write[s].event] EXCEPT !.status = "POSTED",
                                                   !.intent = write[s].intent])
    /\ write' = [write EXCEPT ![s] = NoWrite]
    /\ UNCHANGED <<outcome, journal, keys>>

-----------------------------------------------------------------------------
(* The caller's transaction *)

\* The identity map keeps its rows after a commit.
Commit(s) ==
    /\ Idle(s)
    /\ outcome' = [e \in Event |-> IF holder[e] = s THEN cache[s][e] ELSE outcome[e]]
    /\ journal' = journal \cup keys[s]
    /\ holder' = [e \in Event |-> IF holder[e] = s THEN None ELSE holder[e]]
    /\ keys' = [keys EXCEPT ![s] = {}]
    /\ UNCHANGED <<cache, write>>

\* A refused transition or write raises or returns a failure and the caller
\* rolls back; the connection is lost; the session is closed.
Rollback(s) ==
    /\ Discard(s)
    /\ write' = [write EXCEPT ![s] = NoWrite]
    /\ UNCHANGED <<outcome, journal>>

Recorded == {"REJECTED", "BLOCKED", "PROVISIONAL", "NON_POSTING", "FAILED"}

Next ==
    \E s \in Session :
        \/ \E e \in Event, st \in Recorded : Record(s, e, st)
        \/ \E e \in Event :
             \/ GetOutcome(s, e) \/ TransitionToRejected(s, e)
             \/ InitiateRetry(s, e) \/ CompleteRetryFailure(s, e) \/ Abandon(s, e)
        \/ \E e \in Event, x \in Intent : StartWrite(s, e, x)
        \/ SkipExisting(s) \/ CreateEntry(s) \/ ConcurrentInsert(s)
        \/ TransitionToPosted(s)
        \/ Commit(s) \/ Rollback(s)

Spec == Init /\ [][Next]_vars
-----------------------------------------------------------------------------
(* Properties *)

Written(e) == outcome[e] # None

\* The safety limit of RetryService: however many sessions retry from stale
\* rows, no committed or pending row counts more than MAX_RETRIES retries.
RetryLimit ==
    /\ \A e \in Event : Written(e) => outcome[e].retries <= MaxRetries
    /\ \A s \in Session, e \in Event : Known(s, e) => cache[s][e].retries <= MaxRetries

\* L5, P11, R3: a POSTED outcome names an intent whose entries are in the
\* journal, in every ledger (an uncommitted one has them in its own
\* transaction), and whatever conflicts on idempotency keys interrupted the loop
\* over the ledgers, an intent is in all of its ledgers or in none.
PostedHasEntries ==
    /\ \A x \in Intent : KeysOf(x) \subseteq journal \/ KeysOf(x) \cap journal = {}
    /\ \A e \in Event : Written(e) /\ outcome[e].status = "POSTED" =>
         KeysOf(outcome[e].intent) \subseteq journal
    /\ \A s \in Session, e \in Event :
         holder[e] = s /\ cache[s][e].status = "POSTED" =>
           KeysOf(cache[s][e].intent) \subseteq Visible(s)
=============================================================================
