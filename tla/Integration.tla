---------------------------- MODULE Integration ----------------------------
(***************************************************************************)
(* post_event_from_external (finance_services/integration.py): a system    *)
(* outside submits an event under an id of its choice.  The payload is     *)
(* held against the schema of its type, and what passes is posted with the *)
(* policies of the business modules.                                       *)
(*                                                                         *)
(* The caller owns the session.  Either the posting service commits a      *)
(* success by itself and leaves anything else in the session (auto), or    *)
(* the caller commits a success and rolls the rest back.                   *)
(***************************************************************************)
EXTENDS PolicyRegistry, EventSchemas, TLAPS
LOCAL INSTANCE SequencesExt

CONSTANT MaxSubmits     \* bound: submissions under the one event id

VARIABLES
  schema,     \* the schema of the event type being submitted
  auto,       \* the posting service commits by itself
  stored,     \* the committed event row: its payload, or None
  flushed,    \* the event row in the session and not committed
  journal,    \* committed postings of the id
  last,       \* the last submission and its answer
  submits

vars == <<schema, auto, stored, flushed, journal, last, submits>>

---------------------------------------------------------------------------
(* Payloads: a good one, with or without the fields that select one of the *)
(* type's policies, with one field changed.                                *)

Around(f) == {-1, 0, 1, 2} \cup {n \in {f.min, f.max} : n # None}
               \cup {n + 1 : n \in {f.max} \ {None}} \cup {n - 1 : n \in {f.min} \ {None}}
PlainSamples(f) ==
  CASE f.allowed # {} -> {Val("string", v) : v \in f.allowed \cup {"?"}}
    [] f.type = "string" -> {Val("string", v) : v \in {"s", "", TooLong}}
    [] f.type \in {"decimal", "integer"} -> {Val(f.type, n) : n \in Around(f)}
    [] f.type = "boolean" -> {Val("boolean", TRUE), Val("boolean", FALSE)}
    [] OTHER -> {Val(f.type, "s")}
GoodValue(f) ==
  IF f.type \in {"decimal", "integer"} THEN Val(f.type, IF f.min \in {None, 0} THEN 1 ELSE f.min)
  ELSE CHOOSE v \in PlainSamples(f) : validate_field_constraints(v, f)
GoodItem(f) ==
  IF f.items = <<>> THEN Val(f.item_type, "s")
  ELSE Val("object", [k \in {f.items[i].name : i \in DOMAIN f.items} |->
                        GoodValue(CHOOSE g \in ToSet(f.items) : g.name = k)])
Samples(f) ==
  {Malformed} \cup
    IF f.type # "array" THEN PlainSamples(f)
    ELSE {Val("array", <<>>), Val("array", <<GoodItem(f)>>), Val("array", <<GoodItem(f), Malformed>>)}
Good(f) == IF f.type = "array" THEN Val("array", <<GoodItem(f)>>) ELSE GoodValue(f)

FieldsOf(s) == ToSet(s.fields)
GoodPayload(s) ==
  [k \in {f.name : f \in {g \in FieldsOf(s) : ~g.optional}} |->
     Good(CHOOSE f \in FieldsOf(s) : f.name = k)]
\* The fields a policy of this type is selected by: an enumeration of the schema,
\* or a field the schema does not have and nobody holds against a type.
PoliciesOf(s) == {p \in ToSet(Registry) : p.event = s.event_type}
Selecting(p) ==
  [k \in {w.field : w \in {x \in ToSet(p.where) : x.op = "=" /\ x.value # None}} |->
     Val("string", (CHOOSE w \in ToSet(p.where) : w.field = k).value)]
Bases(s) == {GoodPayload(s)} \cup {Selecting(p) @@ GoodPayload(s) : p \in PoliciesOf(s)}
Without(payload, k) == [x \in DOMAIN payload \ {k} |-> payload[x]]
Changed(s, payload) ==
  UNION {{(f.name :> v) @@ payload : v \in Samples(f)} \cup {Without(payload, f.name)} : f \in FieldsOf(s)}
Payloads(s) == UNION {{b} \cup Changed(s, b) : b \in Bases(s)}

---------------------------------------------------------------------------
(* One submission.                                                         *)

\* validate_contract: without a schema of that version the payload is not looked at.
validate_contract(event_type, payload, version) ==
  /\ validate_schema_version(version)
  /\ \A s \in Schemas : s.event_type = event_type /\ s.version = version =>
       validate_payload_against_schema(payload, s)

\* What the policies see of the payload.
Plain(payload) == [k \in DOMAIN payload |-> payload[k].v]
Existing == IF flushed # None THEN flushed ELSE stored

\* ModulePostingService.post_event: an id that is known is answered from its row.
post_event(payload, amount) ==
  IF Existing # None
  THEN IF Existing = payload THEN "ALREADY_POSTED" ELSE "INGESTION_FAILED"
  ELSE _do_post_event(Registry, schema.event_type, amount, Plain(payload)).status

is_success(status) == status \in {"POSTED", "ALREADY_POSTED"}
Raises(status) == status = "MULTIPLE_POLICIES"

CommitPosting(payload, amount, status) ==
  /\ stored' = IF Existing = None THEN payload ELSE Existing
  /\ flushed' = None
  /\ journal' = IF status = "POSTED" THEN Append(journal, [amount |-> amount, payload |-> payload])
                ELSE journal
\* mutant: nobody rolls a failure back
FailKeepsEvent(payload, status) ==
  /\ flushed' = IF Raises(status) THEN None ELSE IF Existing = None THEN payload ELSE flushed
  /\ UNCHANGED <<stored, journal>>
\* A failure, or an exception.  A payload that contradicts the row adds nothing.
Fail(payload, status) ==
  /\ flushed' = IF ~auto \/ Raises(status) THEN None
                ELSE IF Existing = None THEN payload ELSE flushed
  /\ UNCHANGED <<stored, journal>>

\* post_event_from_external.
Submit(payload, version, amount) ==
  /\ submits < MaxSubmits /\ submits' = submits + 1
  /\ LET valid == validate_contract(schema.event_type, payload, version)
         status == IF valid THEN post_event(payload, amount) ELSE "validation_failed"
     IN  /\ last' = [payload |-> payload, version |-> version, amount |-> amount, status |-> status]
         /\ CASE ~valid -> UNCHANGED <<stored, flushed, journal>>
              [] valid /\ is_success(status) -> CommitPosting(payload, amount, status)
              [] valid /\ ~is_success(status) -> Fail(payload, status)
  /\ UNCHANGED <<schema, auto>>

\* The caller drops the session.
Close ==
  /\ flushed # None /\ flushed' = None
  /\ UNCHANGED <<schema, auto, stored, journal, last, submits>>

NoAnswer == [payload |-> None, version |-> 0, amount |-> 0, status |-> "none"]
Init ==
  /\ schema \in Schemas /\ auto \in BOOLEAN
  /\ stored = None /\ flushed = None /\ journal = <<>>
  /\ last = NoAnswer /\ submits = 0

\* The first submission is free; then the same again, another amount, or the
\* good payload.
Again == {last.payload, GoodPayload(schema)}
Next ==
  \/ submits = 0 /\ \E p \in Payloads(schema), v \in {1, schema.version} : Submit(p, v, 1)
  \/ submits > 0 /\ \E p \in Again, n \in {1, 2} : Submit(p, 1, n)
  \/ Close

Spec == Init /\ [][Next]_vars

---------------------------------------------------------------------------
(* Properties.                                                             *)

\* A contract is in force: the schemas of the other versions are never looked at.
InForce ==
  \E s \in Schemas : s.event_type = schema.event_type /\ s.version \in SUPPORTED_SCHEMA_VERSIONS

\* Values that a schema allows and that no policy of the type takes.
Unhandled(payload) ==
  LET Value(k) == Get(Plain(payload), k)
  IN  CASE schema.event_type = "asset.acquisition" -> Value("payment_method") = None
        [] schema.event_type = "asset.disposal" -> Value("disposal_type") = "TRANSFER"
        [] schema.event_type = "bank.withdrawal" ->
             Value("destination_type") # "EXPENSE" \/ Value("allowability") \notin {"ALLOWABLE", "UNALLOWABLE"}
        [] schema.event_type = "contract.billing_provisional" ->
             Value("billing_type") = "FIXED_PRICE_MILESTONE"
        [] schema.event_type = "contract.indirect_allocation" ->
             Value("indirect_type") = "MATERIAL_HANDLING"
        [] schema.event_type = "inventory.adjustment" -> Value("quantity_change") = 0
        [] schema.event_type = "inventory.issue" -> Value("issue_type") = "SAMPLE"
        [] schema.event_type = "payroll.labor_distribution" ->
             Value("labor_type") = "OVERHEAD" \/ Value("allowability") \notin {"ALLOWABLE", "UNALLOWABLE"}
        [] schema.event_type = "payroll.timesheet" -> Value("allowability") \notin {"ALLOWABLE", "UNALLOWABLE"}
        [] OTHER -> FALSE
\* The contract and the policies agree on what there is to decide: an event that
\* its schema accepts finds a policy, if its type has policies at all, but for
\* the values named above, never two of them, and is not turned down by the guard
\* of its policy, but for a cost contract on which there is nothing to bill.  That an
\* intent can then be built is not claimed: for a disposal by sale it may fail.
ContractHandled ==
  InForce =>
    /\ last.status = "PROFILE_NOT_FOUND" => PoliciesOf(schema) = {} \/ Unhandled(last.payload)
    /\ last.status # "MULTIPLE_POLICIES"
    /\ last.status = "GUARD_REJECTED" =>
         schema.event_type = "contract.billing_provisional" /\ last.payload["total_billing"].v = 0

\* One event id is posted at most once, with the payload of its event row,
\* whatever is submitted under it and whatever became of earlier submissions;
\* and where the caller owns the commit, an event of which it is told that it was
\* posted or was posted before is in the journal (IntegrationPostResult.is_success).
SuccessIsPosted ==
  /\ Len(journal) <= 1
  /\ \A i \in DOMAIN journal : stored = journal[i].payload
  /\ ~auto /\ is_success(last.status) => journal # <<>>

---------------------------------------------------------------------------
(* Proof of SuccessIsPosted.                                               *)

\* None stands for no payload.
ASSUME PayloadAssumption == \A s \in Schemas : None \notin Payloads(s)

PostedOnce ==
  \/ journal = <<>>
  \/ /\ DOMAIN journal = {1} /\ Len(journal) = 1
     /\ stored = journal[1].payload /\ stored # None

\* An event row waits in the session only where none is committed; where the
\* caller owns the commit none waits, and a committed one is posted.
IInv ==
  /\ schema \in Schemas
  /\ PostedOnce
  /\ flushed # None => stored = None
  /\ ~auto => flushed = None /\ (stored # None => journal # <<>>)
  /\ ~auto /\ is_success(last.status) => journal # <<>>
  /\ submits \in Nat
  /\ submits > 0 => last.payload # None

\* What is submitted is a payload, the good one included.
LEMMA SubmittedPayloads ==
  ASSUME NEW s \in Schemas
  PROVE  GoodPayload(s) # None /\ \A p \in Payloads(s) : p # None
<1>1. GoodPayload(s) \in Payloads(s)
  BY DEF Payloads, Bases
<1> QED BY <1>1, PayloadAssumption

\* An event that is not known is never answered as known.
LEMMA StatusFacts ==
  ASSUME NEW registry, NEW event, NEW amount, NEW payload
  PROVE  _do_post_event(registry, event, amount, payload).status # "ALREADY_POSTED"
<1>1. ASSUME NEW policies, NEW intents
      PROVE  Status(policies, intents, payload) # "ALREADY_POSTED"
  <2> DEFINE guarded == _evaluate_guards(policies[1], payload)
             failed == intents = <<>> \/ \E i \in DOMAIN intents :
                         \E j \in DOMAIN intents[i].lines : intents[i].lines[j].amount < 0
             refused == (\E i \in DOMAIN intents : ~Balanced(intents[i].lines))
                          \/ ~OneEntryPerLedger(intents)
             answer == CASE policies = <<>> -> "PROFILE_NOT_FOUND"
                         [] Len(policies) > 1 -> "MULTIPLE_POLICIES"
                         [] guarded -> "GUARD_REJECTED"
                         [] failed -> "INTENT_FAILED"
                         [] refused -> "POSTING_FAILED"
                         [] OTHER -> "POSTED"
  <2>1. Status(policies, intents, payload) = answer
    BY DEF Status
  <2> HIDE DEF guarded, failed, refused
  <2>2. answer # "ALREADY_POSTED"
    OBVIOUS
  <2> QED BY <2>1, <2>2
<1> QED BY <1>1 DEF _do_post_event

\* One submission, with each of its answers.
LEMMA SubmitStep ==
  ASSUME IInv, NEW payload, payload # None, NEW version, NEW amount,
         Submit(payload, version, amount)
  PROVE  IInv'
<1> DEFINE valid == validate_contract(schema.event_type, payload, version)
           status == IF valid THEN post_event(payload, amount) ELSE "validation_failed"
<1>1. /\ last' = [payload |-> payload, version |-> version, amount |-> amount, status |-> status]
      /\ CASE ~valid -> UNCHANGED <<stored, flushed, journal>>
              [] valid /\ is_success(status) -> CommitPosting(payload, amount, status)
              [] valid /\ ~is_success(status) -> Fail(payload, status)
      /\ UNCHANGED <<schema, auto>> /\ submits' = submits + 1
  BY DEF Submit
<1>2. last'.payload = payload /\ last'.status = status
  BY <1>1
<1>3. schema' \in Schemas /\ submits' \in Nat /\ last'.payload # None
  BY <1>1, <1>2 DEF IInv
<1>4. status = "POSTED" => valid /\ Existing = None
  BY DEF post_event
<1>5. status = "ALREADY_POSTED" => valid /\ Existing = payload
  BY StatusFacts DEF post_event
<1> HIDE DEF status, valid
<1>6. CASE ~valid
  BY <1>1, <1>2, <1>3, <1>4, <1>5, <1>6 DEF IInv, PostedOnce, is_success
<1>7. CASE valid /\ ~is_success(status)
  <2>1. Fail(payload, status)
    BY <1>1, <1>7
  <2>2. UNCHANGED <<stored, journal>>
        /\ (flushed' = None \/ (auto /\ (flushed' = flushed \/ Existing = None)))
    BY <2>1 DEF Fail
  <2>3. PostedOnce'
    BY <2>2 DEF IInv, PostedOnce
  <2>4. flushed' # None => stored' = None
    BY <2>2 DEF IInv, Existing
  <2> QED BY <1>1, <1>2, <1>3, <1>7, <2>2, <2>3, <2>4 DEF IInv
<1>8. CASE status = "POSTED"
  <2>1. CommitPosting(payload, amount, status) /\ Existing = None
    BY <1>1, <1>4, <1>8 DEF is_success
  <2>2. stored = None /\ journal = <<>>
    BY <2>1 DEF Existing, IInv, PostedOnce
  <2>3. journal' = <<[amount |-> amount, payload |-> payload]>> /\ stored' = payload
        /\ flushed' = None
    BY <1>8, <2>1, <2>2 DEF CommitPosting
  <2>4. journal' # <<>>
    BY <2>3
  <2>5. PostedOnce'
    <3>1. DOMAIN journal' = {1} /\ Len(journal') = 1 /\ journal'[1].payload = payload
      BY <2>3
    <3> QED BY <2>3, <3>1 DEF PostedOnce
  <2> QED BY <1>3, <2>3, <2>4, <2>5 DEF IInv
<1>9. CASE status = "ALREADY_POSTED"
  <2>1. CommitPosting(payload, amount, status) /\ Existing = payload
    BY <1>1, <1>5, <1>9 DEF is_success
  <2>2. journal' = journal /\ stored' = payload /\ flushed' = None
    BY <1>9, <2>1 DEF CommitPosting
  <2>3. PostedOnce'
    BY <2>1, <2>2 DEF Existing, IInv, PostedOnce
  <2>4. ~auto => journal # <<>>
    BY <2>1 DEF Existing, IInv
  <2> QED BY <1>1, <1>3, <2>2, <2>3, <2>4 DEF IInv
<1> QED BY <1>6, <1>7, <1>8, <1>9 DEF is_success

\* post_event_from_external, for any number of submissions: one event id is
\* posted at most once and a success the caller commits is in the journal.
THEOREM SuccessIsPostedHolds == Spec => []SuccessIsPosted
<1>1. Init => IInv
  BY DEF Init, IInv, PostedOnce, NoAnswer, is_success
<1>2. IInv /\ [Next]_vars => IInv'
  <2> SUFFICES ASSUME IInv, [Next]_vars PROVE IInv'
    OBVIOUS
  <2>1. CASE submits = 0 /\ \E p \in Payloads(schema), v \in {1, schema.version} : Submit(p, v, 1)
    BY <2>1, SubmitStep, SubmittedPayloads DEF IInv
  <2>2. CASE submits > 0 /\ \E p \in Again, n \in {1, 2} : Submit(p, 1, n)
    <3>1. \A p \in Again : p # None
      BY <2>2, SubmittedPayloads DEF IInv, Again
    <3> QED BY <2>2, <3>1, SubmitStep
  <2>3. CASE Close
    BY <2>3 DEF Close, IInv, PostedOnce
  <2>4. CASE UNCHANGED vars
    BY <2>4 DEF vars, IInv, PostedOnce
  <2> QED BY <2>1, <2>2, <2>3, <2>4 DEF Next
<1>3. IInv => SuccessIsPosted
  <2> SUFFICES ASSUME IInv PROVE SuccessIsPosted
    OBVIOUS
  <2>1. CASE journal = <<>>
    BY <2>1 DEF IInv, SuccessIsPosted
  <2>2. CASE journal # <<>>
    <3>1. DOMAIN journal = {1} /\ Len(journal) = 1 /\ stored = journal[1].payload
      BY <2>2 DEF IInv, PostedOnce
    <3>2. Len(journal) <= 1
      BY <3>1
    <3>3. \A i \in DOMAIN journal : stored = journal[i].payload
      BY <3>1
    <3> QED BY <2>2, <3>2, <3>3 DEF SuccessIsPosted
  <2> QED BY <2>1, <2>2
<1> QED BY <1>1, <1>2, <1>3, PTL DEF Spec
============================================================================
