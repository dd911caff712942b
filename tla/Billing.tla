----------------------------- MODULE Billing -----------------------------
(***************************************************************************)
(* The government contract billing engine and the indirect cost cascade.   *)
(* terms is what of a BillingInput stays the same over a contract: type,   *)
(* indirect rates, fee rate and ceiling, withholding, funding limit and    *)
(* contract ceiling.  work is what one billing period brings: direct costs *)
(* (subcontracts, travel and other direct costs are one amount, other),    *)
(* labor entries, and milestones.                                          *)
(***************************************************************************)
EXTENDS MoneyMath

BillingContractType == {"CPFF", "CPIF", "CPAF", "TM", "LH", "FFP", "FPI"}
CostPlus == {"CPFF", "CPIF", "CPAF"}

\* CostBreakdown and IndirectRates.
total_direct(costs) == costs.direct_labor + costs.direct_material + costs.other
_apply_rate(base, rate) == PercentOf(base, rate)

\* Mutant: overhead is applied to direct labor alone.
calculate_indirect_costs_unburdened(costs, rates) ==
  LET fringe == _apply_rate(costs.direct_labor, rates.fringe)
      overhead == _apply_rate(costs.direct_labor, rates.overhead)
  IN [fringe |-> fringe, overhead |-> overhead,
      ga |-> _apply_rate(total_direct(costs) + fringe + overhead, rates.ga),
      material_handling |-> _apply_rate(costs.direct_material, rates.material_handling)]

calculate_indirect_costs(costs, rates) ==
  LET fringe == _apply_rate(costs.direct_labor, rates.fringe)
      overhead == _apply_rate(costs.direct_labor + fringe, rates.overhead)
      ga == _apply_rate(total_direct(costs) + fringe + overhead, rates.ga)
  IN [fringe |-> fringe, overhead |-> overhead, ga |-> ga,
      material_handling |-> _apply_rate(costs.direct_material, rates.material_handling)]

\* What is left of a limit, and an amount held to it; NoAmount sets no limit.
Remaining(limit, cumulative) == AtLeast0(limit - cumulative)
Held(amount, cumulative, limit) ==
  IF limit = NoAmount THEN amount ELSE Lesser(amount, Remaining(limit, cumulative))

calculate_fee(total_cost, fee_rate, fee_ceiling, cumulative_fee) ==
  Held(PercentOf(total_cost, fee_rate), cumulative_fee, fee_ceiling)

\* Mutant: the limit is held against this billing alone.
apply_funding_limit_per_bill(amount, cumulative_billed, funding_limit) ==
  Held(amount, 0, funding_limit)

apply_funding_limit(amount, cumulative_billed, funding_limit) ==
  Held(amount, cumulative_billed, funding_limit)

apply_withholding(gross, withholding_pct) ==
  LET withheld == PercentOf(gross, withholding_pct)
  IN [withholding |-> withheld, net |-> gross - withheld]

\* BillingResult.  lines are the amounts of the line items before withholding.
BillingResult(terms, lines, indirect, total_cost, fee, gross) ==
  [lines |-> lines, indirect |-> indirect, total_cost |-> total_cost, fee |-> fee,
   gross |-> gross, withheld |-> apply_withholding(gross, terms.withholding_pct).withholding,
   net |-> apply_withholding(gross, terms.withholding_pct).net]

NoIndirect == [fringe |-> 0, overhead |-> 0, ga |-> 0, material_handling |-> 0]
Positive(amounts) == SelectSeq(amounts, LAMBDA a : a > 0)

\* Both limits, first the funding and then the contract's ceiling.
Limited(gross, terms, cumulative) ==
  Held(apply_funding_limit(gross, cumulative, terms.funding_limit), cumulative, terms.ceiling_amount)

\* Cost plus: no line stands for material handling, and the fee's ceiling is held
\* against this billing's fee only (cumulative_fee is passed as zero).
_calculate_cost_plus_billing(terms, work, cumulative) ==
  LET ind == calculate_indirect_costs(work, terms)
      total_cost == total_direct(work) + ind.fringe + ind.overhead + ind.ga + ind.material_handling
      fee == calculate_fee(total_cost, terms.fee_rate, terms.fee_ceiling, 0)
  IN BillingResult(terms,
       <<work.direct_labor>> \o
         Positive(<<work.direct_material, work.other, ind.fringe, ind.overhead, ind.ga, fee>>),
       ind, total_cost, fee, Limited(total_cost + fee, terms, cumulative))

\* LaborRateEntry.amount: hours are in tenths.
LaborAmount(entry) == RoundHalfUp(entry.hours * entry.billing_rate, 10)
LaborAmounts(work) == [i \in 1 .. Len(work.labor_entries) |-> LaborAmount(work.labor_entries[i])]

_calculate_tm_billing(terms, work, cumulative) ==
  LET total_direct_cost == SumOfSeq(LaborAmounts(work)) + AtLeast0(work.direct_material)
  IN BillingResult(terms, LaborAmounts(work) \o Positive(<<work.direct_material>>),
                   NoIndirect, total_direct_cost, 0, Limited(total_direct_cost, terms, cumulative))

_calculate_lh_billing(terms, work, cumulative) ==
  LET total_labor == SumOfSeq(LaborAmounts(work))
  IN BillingResult(terms, LaborAmounts(work), NoIndirect, total_labor, 0,
                   Limited(total_labor, terms, cumulative))

\* Completed milestones; fixed price contracts are not held to the ceiling amount.
_calculate_ffp_billing(terms, work, cumulative) ==
  LET completed(m) == m.completion_pct >= 100
      done == SelectSeq(work.milestones, completed)
      total_milestone == SumOfSeq([i \in 1 .. Len(work.milestones) |->
                           IF completed(work.milestones[i]) THEN work.milestones[i].amount ELSE 0])
  IN BillingResult(terms, [i \in 1 .. Len(done) |-> done[i].amount], NoIndirect, total_milestone, 0,
                   apply_funding_limit(total_milestone, cumulative, terms.funding_limit))

_calculate_fpi_billing(terms, work, cumulative) == _calculate_ffp_billing(terms, work, cumulative)

calculate_billing(terms, work, cumulative) ==
  CASE terms.contract_type \in CostPlus -> _calculate_cost_plus_billing(terms, work, cumulative)
    [] terms.contract_type = "TM" -> _calculate_tm_billing(terms, work, cumulative)
    [] terms.contract_type = "LH" -> _calculate_lh_billing(terms, work, cumulative)
    [] terms.contract_type = "FFP" -> _calculate_ffp_billing(terms, work, cumulative)
    [] terms.contract_type = "FPI" -> _calculate_fpi_billing(terms, work, cumulative)

\* The true-up of an indirect cost billed at a provisional rate.
calculate_rate_adjustment(base, provisional_rate, final_rate) ==
  PercentOf(base, final_rate) - PercentOf(base, provisional_rate)

---------------------------------------------------------------------------
(* The cascade over cost pools.                                            *)

build_dcaa_cascade ==
  << [pool_from |-> "DIRECT_LABOR", pool_to |-> "FRINGE", rate_type |-> "fringe", base |-> "pool_balance"],
     [pool_from |-> "DIRECT_COST", pool_to |-> "OVERHEAD", rate_type |-> "overhead", base |-> "cumulative"],
     [pool_from |-> "TOTAL_DIRECT", pool_to |-> "G&A", rate_type |-> "g&a", base |-> "cumulative"] >>

Balance(balances, pool) == IF pool \in DOMAIN balances THEN balances[pool] ELSE 0

\* One step: the base is the source pool or what has accumulated before this step.
CascadeStep(acc, step, rates) ==
  LET source == Balance(acc.balances, step.pool_from)
      base == IF step.base = "pool_balance" THEN source ELSE acc.cumulative
      allocated == PercentOf(base, IF step.rate_type \in DOMAIN rates THEN rates[step.rate_type] ELSE 0)
      pools == DOMAIN acc.balances \cup {step.pool_to}
  IN [balances |-> [p \in pools |-> Balance(acc.balances, p) + IF p = step.pool_to THEN allocated ELSE 0],
      cumulative |-> acc.cumulative + source + allocated]

execute_cascade(steps, pool_balances, rates) ==
  LET after[k \in 0 .. Len(steps)] ==
        IF k = 0 THEN [balances |-> pool_balances, cumulative |-> 0]
        ELSE CascadeStep(after[k - 1], steps[k], rates)
  IN after[Len(steps)].balances

calculate_contract_total(balances, direct_pools, indirect_pools) ==
  SumOfSeq([i \in 1 .. Len(direct_pools) |-> Balance(balances, direct_pools[i])])
    + SumOfSeq([i \in 1 .. Len(indirect_pools) |-> Balance(balances, indirect_pools[i])])
=============================================================================
