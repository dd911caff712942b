---------------------------- MODULE TaxEngine ----------------------------
(***************************************************************************)
(* TaxCalculator: taxes on a net amount (exclusive) or inside a gross one  *)
(* (inclusive).  A rate is a record of percent rate, whether it compounds  *)
(* on the taxes before it, priority, and the days it is effective.         *)
(***************************************************************************)
EXTENDS MoneyMath

Always == 0      \* an open end of the effective period

is_effective(rate, day) ==
  /\ rate.effective_from # Always => day >= rate.effective_from
  /\ rate.effective_to # Always => day <= rate.effective_to

\* The percentages of the rates in S, in a stable sort by priority.
ByPriority(rates, S, descending) ==
  LET order == Sorted(S, Len(rates), [i \in 1 .. Len(rates) |->
                 <<IF descending THEN -rates[i].priority ELSE rates[i].priority, 0>>])
  IN [k \in 1 .. Len(order) |-> rates[order[k]].rate]
Simple(rates, descending) ==
  ByPriority(rates, {i \in 1 .. Len(rates) : ~rates[i].is_compound}, descending)
Compound(rates, descending) ==
  ByPriority(rates, {i \in 1 .. Len(rates) : rates[i].is_compound}, descending)

TaxCalculationResult(net, lines, gross) ==
  [status |-> "ok", net |-> net, lines |-> lines, gross |-> gross]

\* Mutant: compound rates apply to the net amount as well.
_calculate_exclusive_flat(net, rates) ==
  LET lines == [i \in 1 .. Len(rates) |-> PercentOf(net, rates[i].rate)]
  IN TaxCalculationResult(net, lines, net + SumOfSeq(lines))

_calculate_exclusive(net, rates) ==
  LET simple == Simple(rates, FALSE)
      compound == Compound(rates, FALSE)
      simple_taxes == [i \in 1 .. Len(simple) |-> PercentOf(net, simple[i])]
      running_total[k \in 0 .. Len(compound)] ==
        IF k = 0 THEN net + SumOfSeq(simple_taxes)
        ELSE running_total[k - 1] + PercentOf(running_total[k - 1], compound[k])
      compound_taxes == [k \in 1 .. Len(compound) |-> PercentOf(running_total[k - 1], compound[k])]
  IN TaxCalculationResult(net, simple_taxes \o compound_taxes, running_total[Len(compound)])

\* The tax inside the simple part, split over the rates; the last takes the rest.
SplitSimpleTax(total_tax, simple, up) ==
  LET n == Len(simple)
      share(i) == QuantizedShare(total_tax, simple[i], SumOfSeq(simple), up)
      before == SumOfSeq([i \in 1 .. n - 1 |-> share(i)])
  IN [i \in 1 .. n |-> IF i = n THEN total_tax - before ELSE share(i)]

\* The tax of one rate that a gross amount contains.
Included(gross, rate) == RoundHalfUp(gross * rate, 100 + rate)

\* Compound taxes are taken out first, the last one applied first; then the net
\* amount, and the simple taxes are what is left between the two.  The proportions
\* of several simple rates that are all zero are 0/0, which Decimal refuses.
_calculate_inclusive(gross, rates, up) ==
  LET simple == Simple(rates, TRUE)
      compound == Compound(rates, TRUE)
      running_gross[k \in 0 .. Len(compound)] ==
        IF k = 0 THEN gross ELSE running_gross[k - 1] - Included(running_gross[k - 1], compound[k])
      left == running_gross[Len(compound)]
      net == IF simple = <<>> THEN left ELSE RoundHalfUp(left * 100, 100 + SumOfSeq(simple))
      lines == [k \in 1 .. Len(compound) |-> Included(running_gross[k - 1], compound[k])]
                 \o SplitSimpleTax(left - net, simple, up)
  IN IF Len(simple) > 1 /\ SumOfSeq(simple) = 0 THEN [status |-> "InvalidOperation"]
     ELSE TaxCalculationResult(net, [k \in 1 .. Len(lines) |-> lines[Len(lines) + 1 - k]], gross)

\* TaxCalculator.calculate: rates maps the known tax codes to their rates.
calculate(amount, tax_codes, rates, inclusive, day, up) ==
  LET applicable == [i \in 1 .. Len(tax_codes) |-> rates[tax_codes[i]]]
  IN IF tax_codes = <<>> THEN TaxCalculationResult(amount, <<>>, amount)
     ELSE IF \E i \in 1 .. Len(tax_codes) :
               tax_codes[i] \notin DOMAIN rates \/ ~is_effective(rates[tax_codes[i]], day)
     THEN [status |-> "ValueError"]
     ELSE IF inclusive THEN _calculate_inclusive(amount, applicable, up)
     ELSE _calculate_exclusive(amount, applicable)

calculate_withholding(gross, withholding_rate) ==
  LET withheld == PercentOf(gross, withholding_rate)
  IN TaxCalculationResult(gross - withheld, <<withheld>>, gross)

\* The reverse calculation, and the two single-rate shorthands.
reverse_calculate(gross, tax_codes, rates, day, up) ==
  calculate(gross, tax_codes, rates, TRUE, day, up)
OneRate(percent) ==
  [rate |-> percent, is_compound |-> FALSE, priority |-> 0,
   effective_from |-> Always, effective_to |-> Always]
calculate_sales_tax(amount, percent, day) ==
  calculate(amount, <<"SALES">>, [SALES |-> OneRate(percent)], FALSE, day, TRUE)
calculate_vat(amount, percent, inclusive, day) ==
  calculate(amount, <<"VAT">>, [VAT |-> OneRate(percent)], inclusive, day, TRUE)
=============================================================================
