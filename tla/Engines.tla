----------------------------- MODULE Engines -----------------------------
(***************************************************************************)
(* Calls of the pure calculation engines.  A behaviour is one job: its     *)
(* inputs are chosen at the start and each action is one call, whose       *)
(* result is appended to results.  Allocation, tax, matching and cascade   *)
(* jobs are one call.  A billing job bills one contract period after       *)
(* period, the caller passing what it has billed so far, and ends with the *)
(* true-up of the fringe rate; an aging job reports on the same documents  *)
(* on later and later dates.                                               *)
(***************************************************************************)
EXTENDS MoneyMath

CONSTANTS
  AllocationJobs, TaxJobs, MatchJobs, CascadeJobs, BillingJobs, AgingJobs,
  Works,          \* what a billing period can bring
  FinalRates,     \* final fringe rates of a true-up
  AsOfDates,      \* dates a report may be asked for
  MaxBillings,    \* bound: periods billed on a contract
  MaxReports      \* bound: reports on one set of documents

\* The engine of each kind of job.
ASSUME EngineAssumption ==
  /\ \A j \in AllocationJobs : j.engine = "allocation"
  /\ \A j \in TaxJobs : j.engine \in {"tax", "onetax"}
  /\ \A j \in MatchJobs : j.engine \in {"match", "find"}
  /\ \A j \in CascadeJobs : j.engine = "cascade"
  /\ \A j \in BillingJobs : j.engine = "billing"
  /\ \A j \in AgingJobs : j.engine = "aging"

AL == INSTANCE Allocation
TX == INSTANCE TaxEngine
MT == INSTANCE Matching
BI == INSTANCE Billing
AG == INSTANCE Aging

\* What a billing and a cascade are given: limits are absent or not negative
\* (BillingInput), and the cascade starts from the two direct pools.
IndirectRates(terms) ==
  /\ terms.fringe \in Int /\ terms.overhead \in Int /\ terms.ga \in Int
  /\ terms.material_handling \in Int
ASSUME BillingAssumption ==
  /\ \A j \in BillingJobs :
       /\ j.contract_type \in BI!BillingContractType /\ IndirectRates(j)
       /\ j.fee_rate \in Int
       /\ {j.fee_ceiling, j.funding_limit, j.ceiling_amount} \subseteq Nat \cup {NoAmount}
  /\ \A w \in Works :
       /\ w.direct_labor \in Int /\ w.direct_material \in Int /\ w.other \in Int
       /\ w.labor_entries \in Seq([hours : Int, billing_rate : Int])
       /\ w.milestones \in Seq([amount : Int, completion_pct : Int])
ASSUME CascadeAssumption ==
  \A j \in CascadeJobs :
    /\ j.pools \in [{"DIRECT_LABOR", "DIRECT_COST"} -> Int]
    /\ j.rates \in [{"fringe", "overhead", "g&a"} -> Int]

\* A target and its candidates, each with an amount, a quantity and a date.
MatchDocument(d) == d.amount \in Int /\ d.quantity \in Int /\ d.date \in Int
ASSUME FindAssumption ==
  \A j \in MatchJobs : j.engine = "find" =>
    /\ MatchDocument(j.target)
    /\ Len(j.candidates) \in Nat
    /\ \A i \in 1 .. Len(j.candidates) : MatchDocument(j.candidates[i])
    /\ j.tolerance.amount_tolerance \in Int /\ j.tolerance.quantity_tolerance \in Int
    /\ j.tolerance.date_tolerance_days \in Int

\* The precondition of classify: buckets that follow on each other from day 0, the
\* last without an end, and that their names tell apart.
Contiguous(buckets) ==
  /\ buckets \in Seq([name : STRING, min_days : Int, max_days : Int])
  /\ buckets # <<>> /\ buckets[1].min_days = 0
  /\ buckets[Len(buckets)].max_days = AG!Unbounded
  /\ \A k \in 1 .. Len(buckets) - 1 :
       /\ buckets[k].min_days <= buckets[k].max_days
       /\ buckets[k + 1].min_days = buckets[k].max_days + 1
  /\ \A k, l \in 1 .. Len(buckets) : buckets[k].name = buckets[l].name => k = l
ASSUME AgingAssumption ==
  /\ \A j \in AgingJobs :
       /\ Contiguous(j.buckets)
       /\ j.documents \in
            Seq([document_date : Int, due_date : Int, amount : Int, counterparty : STRING])
  /\ AsOfDates \subseteq Int

\* What is given out is not negative, nor are the eligible amounts nor, as
\* AllocationTarget refuses them, the weights.
ASSUME AllocationAssumption ==
  \A j \in AllocationJobs :
    /\ j.amount \in Nat
    /\ j.targets \in Seq([eligible : Nat \cup {NoAmount}, weight : Nat, date : Int, priority : Int])

\* Tax rates are not negative (TaxRate refuses others).
ASSUME TaxAssumption ==
  \A j \in TaxJobs :
    /\ j.amount \in Int
    /\ j.engine = "tax" =>
         /\ j.codes \in Seq(STRING)
         /\ \A code \in DOMAIN j.rates :
              j.rates[code].rate \in Nat /\ j.rates[code].priority \in Int
    /\ j.engine = "onetax" => j.rate \in Nat /\ j.kind \in {"sales", "vat", "withholding"}

VARIABLES
  job,        \* the inputs of the job; job.engine names the engine
  results,    \* what its calls have returned so far
  billed      \* what the caller has billed so far, its cumulative_billed
jobVars == <<job, results, billed>>

Jobs == AllocationJobs \cup TaxJobs \cup MatchJobs \cup CascadeJobs \cup BillingJobs \cup AgingJobs

JobInit ==
  /\ job \in Jobs
  /\ results = <<>>
  /\ billed = 0

Returns(r) ==
  /\ results' = Append(results, r)
  /\ UNCHANGED <<job, billed>>

Allocate ==
  /\ job.engine = "allocation" /\ results = <<>>
  /\ \E r \in AL!allocate(job.amount, job.targets, job.method, job.index) : Returns(r)

\* A tax calculation, in a job by itself or followed by the calculation of the
\* opposite kind from its result.
Tax(up) ==
  /\ job.engine = "tax" /\ results = <<>>
  /\ Returns(TX!calculate(job.amount, job.codes, job.rates, job.inclusive, job.day, up))
TaxBack(up) ==
  /\ job.engine = "tax" /\ Len(results) = 1 /\ results[1].status = "ok"
  /\ Returns(IF job.inclusive
       THEN TX!calculate(results[1].net, job.codes, job.rates, FALSE, job.day, up)
       ELSE TX!reverse_calculate(results[1].gross, job.codes, job.rates, job.day, up))

\* The shorthands for one rate, and the withholding of a tax.
OneTax ==
  /\ job.engine = "onetax" /\ results = <<>>
  /\ Returns(CASE job.kind = "sales" -> TX!calculate_sales_tax(job.amount, job.rate, job.day)
               [] job.kind = "vat" -> TX!calculate_vat(job.amount, job.rate, job.inclusive, job.day)
               [] job.kind = "withholding" -> TX!calculate_withholding(job.amount, job.rate))

Match ==
  /\ job.engine = "match" /\ results = <<>>
  /\ LET d == job.documents IN
     Returns(IF Len(d) = 3 THEN MT!create_three_way_match(d[1], d[2], d[3])
             ELSE MT!create_two_way_match(d[1], d[2]))
FindMatches ==
  /\ job.engine = "find" /\ results = <<>>
  /\ Returns(MT!find_matches(job.target, job.candidates, job.tolerance))

\* The cascade, and the same indirect costs as billing computes them.
Cascade ==
  /\ job.engine = "cascade" /\ results = <<>>
  /\ Returns(BI!execute_cascade(BI!build_dcaa_cascade, job.pools, job.rates))

\* The periods billed so far, and whether the contract's rates are final.
Bills == SelectSeq(results, LAMBDA r : "work" \in DOMAIN r)
Trued == Len(Bills) < Len(results)
Labor == SumOfSeq([i \in 1 .. Len(Bills) |-> Bills[i].work.direct_labor])
Bill(work) ==
  /\ job.engine = "billing" /\ ~Trued /\ Len(results) < MaxBillings
  /\ LET bill == BI!calculate_billing(job, work, billed)
     IN /\ results' = Append(results, [work |-> work, bill |-> bill])
        /\ billed' = billed + bill.gross
  /\ UNCHANGED job
TrueUp(final) ==
  /\ job.engine = "billing" /\ ~Trued /\ results # <<>>
  /\ Returns([final |-> final,
              adjustment |-> BI!calculate_rate_adjustment(Labor, job.fringe, final)])

Report(day) ==
  /\ job.engine = "aging" /\ Len(results) < MaxReports
  /\ results # <<>> => day >= results[Len(results)].as_of_date
  /\ Returns(AG!generate_report_from_documents(job.documents, day, job.buckets, job.use_due_date))

JobNext ==
  \/ Allocate
  \/ \E up \in BOOLEAN : Tax(up) \/ TaxBack(up)
  \/ OneTax
  \/ Match
  \/ FindMatches
  \/ Cascade
  \/ \E work \in Works : Bill(work)
  \/ \E final \in FinalRates : TrueUp(final)
  \/ \E day \in AsOfDates : Report(day)

JobSpec == JobInit /\ [][JobNext]_jobVars

---------------------------------------------------------------------------
(* Properties.                                                             *)

Done(engine) == job.engine = engine /\ results # <<>>
Ok(engine) == Done(engine) /\ results[1].status = "ok"
EligibleSum == SumOfSeq([i \in 1 .. Len(job.targets) |-> job.targets[i].eligible])
Unlimited == \E i \in 1 .. Len(job.targets) : job.targets[i].eligible = NoAmount
Full(r, i) == r.allocated[i] = job.targets[i].eligible

\* Where every cent of an allocation goes (AllocationEngine.allocate).  In sequence
\* it uses up the amount or the targets, and no target is served before the one
\* ahead of it is full.  By ratio the lines up to the rounding target add up to the
\* amount, and the lines behind it come on top: allocated_so_far knows only what
\* came before.  Pro rata the eligible amount caps the rounding target, which may
\* leave up to half a cent for each other target.  Every share is within half a
\* cent of its exact part, the last rounding target within that for each other.
\* So the total is the amount, as allocation.py:171 and 363-365 have it, only when the
\* rounding target is the last one with a share and is not capped.
AllocationAccounted ==
  Ok("allocation") =>
    LET r == results[1]
        n == Len(job.targets)
        sequential == job.method \in {"fifo", "lifo", "specific"}
        round == IF job.index = NoAmount THEN n ELSE job.index
        given == r.total - SumOfSeq(SubSeq(r.allocated, round + 1, n))
        parts == [i \in 1 .. n |-> IF job.method = "weighted" THEN job.targets[i].weight
                                   ELSE IF job.method = "equal" THEN 1 ELSE job.targets[i].eligible]
        near(i, slack) == 2 * AbsOf(r.allocated[i] * SumOfSeq(parts) - job.amount * parts[i])
                             <= slack * SumOfSeq(parts)
    IN /\ \A i \in 1 .. n : job.targets[i].eligible # NoAmount => r.allocated[i] <= job.targets[i].eligible
       /\ sequential =>
            /\ r.total = IF Unlimited THEN job.amount ELSE Lesser(job.amount, EligibleSum)
            /\ \A k \in 1 .. n - 1 : r.allocated[r.order[k + 1]] > 0 => Full(r, r.order[k])
       /\ (round \in 1 .. n /\ job.method \in {"weighted", "equal"}
            /\ \A i \in 1 .. n : job.targets[i].eligible = NoAmount) =>
            /\ given = job.amount
            /\ \A i \in 1 .. n : i # round => near(i, 1)
            /\ round = n => near(n, n - 1)
       /\ (round \in 1 .. n /\ job.method = "prorata" /\ job.amount <= EligibleSum) =>
            /\ given <= job.amount /\ (given = job.amount \/ Full(r, round))
            /\ round = n => 2 * r.unallocated <= n - 1

\* Net amount and tax lines add up to the gross amount to the cent, for any mix of
\* simple and compound rates, in both directions (TaxCalculator.calculate), and
\* taking the taxes out of a gross amount undoes adding them to a net amount, and
\* the other way round, up to a cent per tax (reverse_calculate).
TaxAddsUp ==
  job.engine \in {"tax", "onetax"} => \A k \in 1 .. Len(results) :
    results[k].status = "ok" => results[k].net + SumOfSeq(results[k].lines) = results[k].gross
TaxUndone ==
  (job.engine = "tax" /\ Len(results) = 2 /\ results[2].status = "ok") =>
    AbsOf(job.amount - IF job.inclusive THEN results[2].gross ELSE results[2].net) <= Len(job.codes)
TaxExact == TaxAddsUp /\ TaxUndone

\* Suggestions come best first, a candidate within tolerance is never lost and is of
\* the same vendor where that is required, and none outside tolerance is ahead of
\* one within tolerance whose date agrees (MatchingEngine.find_matches).
SuggestionsSound ==
  Done("find") =>
    LET s == results[1]
        ranked(c) == \E k \in 1 .. Len(s) : s[k].candidate = c
        within(c) == MT!_evaluate_match(job.target, c, job.tolerance).is_within_tolerance
        dated(c) == AbsOf(job.target.date - c.date) <= job.tolerance.date_tolerance_days
    IN /\ \A i, j \in 1 .. Len(s) : i < j => s[i].score >= s[j].score
       /\ \A i \in 1 .. Len(job.candidates) : within(job.candidates[i]) => ranked(job.candidates[i])
       /\ \A i \in 1 .. Len(s) : s[i].is_within_tolerance /\ job.tolerance.require_same_vendor =>
            s[i].candidate.vendor = job.target.vendor
       /\ \A i, j \in 1 .. Len(s) :
            i < j /\ s[j].is_within_tolerance /\ dated(s[j].candidate) => s[i].is_within_tolerance

\* However many periods are billed, a contract is never billed beyond its funding,
\* nor, unless it is fixed price, beyond its ceiling (calculate_billing).
BillingWithinLimits ==
  job.engine = "billing" =>
    /\ job.funding_limit # NoAmount => billed <= job.funding_limit
    /\ (job.ceiling_amount # NoAmount /\ job.contract_type \notin {"FFP", "FPI"}) =>
         billed <= job.ceiling_amount

\* The rates of a cascade, under the names contract billing gives them.
BillingRates(rates) ==
  [fringe |-> rates["fringe"], overhead |-> rates["overhead"], ga |-> rates["g&a"], material_handling |-> 0]

\* The cost pool cascade and contract billing, two separate pieces of code, compute
\* the same fringe, overhead and G&A from the same direct costs and rates, and in
\* both the base of overhead is direct labor and its fringe: other direct cost enters
\* the cascade after its own step, so it bears G&A and no overhead, where
\* allocation_cascade.py:32 has "direct costs plus fringe"
\* (execute_cascade on build_dcaa_cascade; calculate_indirect_costs).
CascadeAgrees ==
  Done("cascade") =>
    LET pools == results[1]
        costs == [direct_labor |-> job.pools["DIRECT_LABOR"], direct_material |-> 0,
                  other |-> job.pools["DIRECT_COST"]]
        ind == BI!calculate_indirect_costs(costs, BillingRates(job.rates))
    IN /\ pools["FRINGE"] = ind.fringe /\ pools["OVERHEAD"] = ind.overhead /\ pools["G&A"] = ind.ga
       /\ pools["OVERHEAD"] = BI!PercentOf(job.pools["DIRECT_LABOR"] + pools["FRINGE"], job.rates["overhead"])
       /\ BI!calculate_contract_total(pools, <<"DIRECT_LABOR", "DIRECT_COST">>, <<"FRINGE", "OVERHEAD", "G&A">>)
            = BI!total_direct(costs) + ind.fringe + ind.overhead + ind.ga

\* A report loses no document: bucket totals and counterparty totals add up to those
\* of the documents.  From one report to a later one no document moves to a younger
\* bucket, and when every document has a due date and the first bucket is the day it
\* is due, what is in the other buckets is what is overdue (AgingCalculator.classify,
\* AgingReport.total_by_bucket, overdue_amount).
BucketOf(r, i) == CHOOSE b \in 1 .. Len(r.buckets) : r.buckets[b].name = r.items[i].bucket
TotalOf(totals, name) == IF name \in DOMAIN totals THEN totals[name] ELSE 0
OverBuckets(r, totals) == SumOfSeq([b \in 1 .. Len(r.buckets) |-> TotalOf(totals, r.buckets[b].name)])
NothingLost(r) ==
  /\ OverBuckets(r, AG!total_by_bucket(r)) = AG!total_amount(r)
  /\ \A cp \in DOMAIN AG!total_by_counterparty(r) :
       OverBuckets(r, AG!total_by_counterparty(r)[cp]) = AG!AmountOf(r, AG!items_for_counterparty(r, cp))
OverdueIsNotCurrent(r) ==
  AG!overdue_amount(r) = AG!total_amount(r) - TotalOf(AG!total_by_bucket(r), r.buckets[1].name)
AgingForward ==
  job.engine = "aging" =>
    /\ \A k \in 1 .. Len(results) : NothingLost(results[k])
    /\ \A k \in 1 .. Len(results) - 1 : \A i \in 1 .. Len(job.documents) :
         BucketOf(results[k], i) <= BucketOf(results[k + 1], i)
    /\ (job.use_due_date /\ job.buckets[1].max_days = 0
         /\ \A i \in 1 .. Len(job.documents) : job.documents[i].due_date # AG!NoDate) =>
         \A k \in 1 .. Len(results) : OverdueIsNotCurrent(results[k])
=============================================================================
