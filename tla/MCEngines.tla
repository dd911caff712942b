---------------------------- MODULE MCEngines ----------------------------
(* Jobs for the engines: small amounts of cents, so that rounding matters. *)
EXTENDS Engines
LOCAL INSTANCE SequencesExt

Target(e, w, d, p) == [eligible |-> e, weight |-> w, date |-> d, priority |-> p]
TargetLists(S) == {<<a, b>> : a, b \in S} \cup {<<a, b, c>> : a, b, c \in S}
MCAllocationJobs ==
  [engine : {"allocation"}, amount : {0, 1, 2, 5, 10}, index : {NoAmount},
   method : {"fifo", "lifo", "specific"},
   targets : TargetLists({Target(e, 1, d, p) : e \in {0, 3, 7}, d \in {0, 2}, p \in {1, 2}}
                         \cup {Target(NoAmount, 1, 1, 1)})]
  \cup
  [engine : {"allocation"}, amount : {0, 1, 2, 5, 10}, index : {NoAmount, 1, 2},
   method : {"prorata"},
   targets : TargetLists({Target(e, 1, 0, 1) : e \in {0, 2, 3, 7, NoAmount}})]
  \cup
  [engine : {"allocation"}, amount : {0, 1, 2, 3, 5, 10}, index : {NoAmount, 1, 2},
   method : {"weighted", "equal"},
   targets : {<<>>} \cup TargetLists({Target(NoAmount, w, 0, 1) : w \in {0, 1, 2, 5}})
             \cup {<<a, b, c, d>> : a, b, c, d \in {Target(NoAmount, w, 0, 1) : w \in {1, 2}}}]

Rate(r, c, p, to) == [rate |-> r, is_compound |-> c, priority |-> p, effective_from |-> 1, effective_to |-> to]
RateTables ==
  {[A |-> a, B |-> b, C |-> c] :
     a \in {Rate(r, FALSE, 1, TX!Always) : r \in {0, 1, 7, 10}},
     b \in {Rate(r, k, 2, 5) : r \in {5, 20}, k \in BOOLEAN},
     c \in {Rate(r, k, p, TX!Always) : r \in {0, 3}, k \in BOOLEAN, p \in {1, 3}}}
MCTaxJobs ==
  [engine : {"tax"}, amount : 0..4 \cup {49, 50, 99, 107, 333}, inclusive : BOOLEAN, day : {5, 6},
   codes : {<<>>, <<"A">>, <<"B">>, <<"A", "B">>, <<"C", "B", "A">>, <<"A", "X">>}, rates : RateTables]
  \cup
  [engine : {"onetax"}, kind : {"sales", "vat", "withholding"}, amount : 0..12 \cup {101},
   rate : {0, 5, 50}, inclusive : BOOLEAN, day : {1}]

Doc(v, a, q, d, ref) ==
  [vendor |-> v, item |-> "i", amount |-> a, currency |-> "USD", quantity |-> q, date |-> d, reference |-> ref]
Docs == {Doc("v", a, q, 1, "") : a \in {NoAmount, 0, 6, 8}, q \in {NoAmount, 0, 2, 3}}
Tolerance(t, q) ==
  [amount_tolerance |-> t, amount_tolerance_type |-> "percent",
   quantity_tolerance |-> q, quantity_tolerance_type |-> "absolute",
   date_tolerance_days |-> 0, require_same_vendor |-> TRUE, require_same_item |-> TRUE,
   require_same_currency |-> TRUE]
Candidates == {Doc(v, a, q, d, ref) : v \in {"v", "w"}, a \in {6, 8}, q \in {2, 3}, d \in {1, 2}, ref \in {"", "r"}}
MCMatchJobs ==
  [engine : {"match"}, documents : {<<a, b>> : a, b \in Docs} \cup {<<a, b, c>> : a, b, c \in Docs}
                                   \cup {<<a, [b EXCEPT !.currency = "EUR"]>> : a, b \in Docs}]
  \cup
  [engine : {"find"}, target : {Doc("v", 6, 2, 1, ref) : ref \in {"", "r"}},
   candidates : {<<a, b>> : a, b \in Candidates}, tolerance : {Tolerance(0, 0), Tolerance(50, 1)}]

MCCascadeJobs ==
  [engine : {"cascade"}, pools : [{"DIRECT_LABOR", "DIRECT_COST"} -> {0, 1, 50, 333}],
   rates : {r \in [{"fringe", "overhead", "g&a"} -> {0, 10, 35, 150}] : r["overhead"] # 0}]

MCBillingJobs ==
  [engine : {"billing"}, contract_type : BI!BillingContractType,
   fringe : {35}, overhead : {45}, ga : {10}, material_handling : {0, 5},
   fee_rate : {8}, fee_ceiling : {NoAmount, 9}, withholding_pct : {15},
   funding_limit : {NoAmount, 100, 250}, ceiling_amount : {NoAmount, 180}]
MCWorks ==
  {[direct_labor |-> l, direct_material |-> m, other |-> 3,
    labor_entries |-> <<[hours |-> l, billing_rate |-> 15]>>,
    milestones |-> <<[amount |-> 70, completion_pct |-> m]>>] : l \in {10, 30, 33}, m \in {0, 99, 100}}

Document(d, due, a, cp) == [document_date |-> d, due_date |-> due, amount |-> a, counterparty |-> cp]
Documents == {Document(0, due, a, cp) : due \in {AG!NoDate, 30, 45}, a \in {-5, 20}, cp \in {"c", AG!NoCounterparty}}
MCAgingJobs ==
  [engine : {"aging"}, documents : {<<>>} \cup {<<a, b>> : a, b \in Documents},
   buckets : {AG!STANDARD_BUCKETS, AG!WEEKLY_BUCKETS}, use_due_date : BOOLEAN]
=============================================================================
