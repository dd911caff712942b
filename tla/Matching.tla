----------------------------- MODULE Matching -----------------------------
(***************************************************************************)
(* MatchingEngine and the variances it reports.  A document is a record of *)
(* vendor, item, amount, currency, quantity, date and reference; NoAmount, *)
(* NoDate and NoReference stand for what it does not carry.  Amount and    *)
(* quantity tolerances are absolute or percent of the target's.            *)
(***************************************************************************)
EXTENDS MoneyMath
LOCAL INSTANCE SequencesExt

NoReference == ""
NoDay == 0

\* unit_price, as a fraction of cents.
HasPrice(doc) == doc.amount # NoAmount /\ doc.quantity \notin {NoAmount, 0}
SamePrice(a, b) == a.amount * b.quantity = b.amount * a.quantity

\* A difference that tolerance calls too large, for either tolerance type.  The percent
\* is of the signed target: a negative one never exceeds a tolerance that is not negative.
Exceeds(target, candidate, tolerance, type) ==
  LET diff == AbsOf(target - candidate)
  IN IF type = "absolute" THEN diff > tolerance
     ELSE \/ target > 0 /\ diff * 100 > tolerance * target
          \/ target < 0 /\ diff * 100 < tolerance * target

\* Mutant: the vendor is not compared.
OtherVendorNever(target, candidate, tol) == FALSE
OtherVendor(target, candidate, tol) == tol.require_same_vendor /\ target.vendor # candidate.vendor

\* The score of a candidate for a target and whether it is within tolerance.
\* A mismatch of vendor, item or currency sets the score to zero on the spot; what
\* is compared after it still adds and subtracts, a common reference adding 10.
_evaluate_match(target, candidate, tol) ==
  LET vendor == OtherVendor(target, candidate, tol)
      item == tol.require_same_item /\ target.item # candidate.item
      amounts == target.amount # NoAmount /\ candidate.amount # NoAmount /\ tol.require_same_currency
      currency == amounts /\ target.currency # candidate.currency
      amount == /\ amounts /\ ~currency
                /\ Exceeds(target.amount, candidate.amount, tol.amount_tolerance, tol.amount_tolerance_type)
      quantity == /\ target.quantity # NoAmount /\ candidate.quantity # NoAmount
                  /\ Exceeds(target.quantity, candidate.quantity, tol.quantity_tolerance,
                             tol.quantity_tolerance_type)
      dates == /\ target.date # NoDay /\ candidate.date # NoDay
               /\ AbsOf(target.date - candidate.date) > tol.date_tolerance_days
      reference == target.reference # NoReference /\ target.reference = candidate.reference
      points(cond, p) == IF cond THEN p ELSE 0
      score == points(~(vendor \/ item \/ currency), 100) - points(amount, 30)
                 - points(quantity, 20) - points(dates, 10) + points(reference, 10)
  IN [candidate |-> candidate, score |-> AtLeast0(Lesser(100, score)),
      is_within_tolerance |-> ~(vendor \/ item \/ currency \/ amount \/ quantity)]

\* Suggestions with a positive score, best first, in the candidates' order among equals.
find_matches(target, candidates, tol) ==
  LET evaluated == [i \in 1 .. Len(candidates) |-> _evaluate_match(target, candidates[i], tol)]
      scored == {i \in 1 .. Len(candidates) : evaluated[i].score > 0}
      order == Sorted(scored, Len(candidates),
                      [i \in 1 .. Len(candidates) |-> <<-evaluated[i].score, 0>>])
  IN [k \in 1 .. Len(order) |-> evaluated[order[k]]]

\* Variances are signed fractions <<n, d>> of cents, favourable when negative.
NoVariance == <<>>
price_variance(expected, actual, quantity) ==
  <<(actual.amount * expected.quantity - expected.amount * actual.quantity) * quantity,
    expected.quantity * actual.quantity>>
quantity_variance(expected_quantity, actual_quantity, standard) ==
  <<(actual_quantity - expected_quantity) * standard.amount, standard.quantity>>

\* Only the first and the last of the documents are compared.
_calculate_price_variance(documents, matched_quantity) ==
  LET priced == SelectSeq(documents, HasPrice)
      first == priced[1]
      last == priced[Len(priced)]
  IN IF Len(priced) < 2 \/ matched_quantity = NoAmount THEN NoVariance
     ELSE IF SamePrice(first, last) THEN NoVariance
     ELSE price_variance(first, last, matched_quantity)

_calculate_quantity_variance(documents) ==
  LET counted == SelectSeq(documents, LAMBDA d : d.quantity # NoAmount)
      priced == SelectSeq(documents, HasPrice)
      first == counted[1]
      last == counted[Len(counted)]
  IN IF Len(counted) < 2 \/ priced = <<>> THEN NoVariance
     ELSE IF first.quantity = last.quantity THEN NoVariance
     ELSE quantity_variance(first.quantity, last.quantity, priced[1])

Smallest(s) == FoldLeft(Lesser, s[1], s)
Field(docs, value(_)) == [i \in 1 .. Len(docs) |-> value(docs[i])]

\* What every document shares is matched; the tolerance plays no part.
create_match(documents) ==
  LET valued == SelectSeq(documents, LAMBDA d : d.amount # NoAmount)
      counted == SelectSeq(documents, LAMBDA d : d.quantity # NoAmount)
      matched == Smallest(Field(valued, LAMBDA d : d.amount))
      matched_quantity == IF counted = <<>> THEN NoAmount ELSE Smallest(Field(counted, LAMBDA d : d.quantity))
      price == _calculate_price_variance(documents, matched_quantity)
      quantity == _calculate_quantity_variance(documents)
      unmatched == Field(documents, LAMBDA d : IF d.amount = NoAmount THEN 0 ELSE d.amount - matched)
      partial == \E i \in 1 .. Len(documents) : unmatched[i] # 0
  IN IF Len(documents) < 2 \/ valued = <<>> THEN [status |-> "ValueError"]
     ELSE IF \E i, j \in 1 .. Len(valued) : valued[i].currency # valued[j].currency
     THEN [status |-> "ValueError"]
     ELSE [status |-> IF partial THEN "PARTIAL"
                      ELSE IF price # NoVariance \/ quantity # NoVariance THEN "VARIANCE" ELSE "MATCHED",
           amount |-> matched, quantity |-> matched_quantity, unmatched |-> unmatched,
           price_variance |-> price, quantity_variance |-> quantity]

create_three_way_match(po, receipt, invoice) == create_match(<<po, receipt, invoice>>)
create_two_way_match(po, invoice) == create_match(<<po, invoice>>)
=============================================================================
