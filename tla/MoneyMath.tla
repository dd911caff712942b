---------------------------- MODULE MoneyMath ----------------------------
(***************************************************************************)
(* The arithmetic and the sorting the calculation engines share.  Amounts  *)
(* are integers of cents and rates are integers of percent; Decimal        *)
(* products of those are exact, so only the quantisation to the cent and   *)
(* ratios that do not terminate lose anything.                             *)
(***************************************************************************)
EXTENDS Integers, Sequences

\* Absent optional amount (None in the code); real amounts here are never negative.
NoAmount == -1

Lesser(a, b) == IF a < b THEN a ELSE b
AtLeast0(a) == IF a < 0 THEN 0 ELSE a
AbsOf(a) == IF a < 0 THEN -a ELSE a

\* n/d to the whole cent with ROUND_HALF_UP, which takes ties away from zero.
RoundHalfUp(n, d) ==
  IF n >= 0 THEN (2 * n + d) \div (2 * d) ELSE -((2 * (-n) + d) \div (2 * d))

\* The share n/d of an amount when the ratio was itself a rounded Decimal.  When the
\* ratio has no finite expansion a tie falls on either side (up), as its last digit
\* and that of the product decide.
Terminates(d) == \E k \in 0..6 : (10 ^ k) % d = 0
QuantizedShare(amount, n, d, up) ==
  LET twice == 2 * amount * n
  IN IF twice % d = 0 /\ (twice \div d) % 2 = 1 /\ ~Terminates(d) /\ ~up
     THEN (amount * n) \div d
     ELSE RoundHalfUp(amount * n, d)

SumOfSeq(s) ==
  LET sum[k \in 0 .. Len(s)] == IF k = 0 THEN 0 ELSE sum[k - 1] + s[k]
  IN sum[Len(s)]
PercentOf(base, rate) == RoundHalfUp(base * rate, 100)

\* Python's sorted: the indices in S, at most most of them, by their keys, which are
\* pairs of numbers; equal keys keep the order of the indices.
Precedes(key, i, j) ==
  \/ key[i][1] < key[j][1]
  \/ key[i][1] = key[j][1] /\ key[i][2] < key[j][2]
  \/ key[i] = key[j] /\ i < j
Sorted(S, most, key) ==
  CHOOSE order \in UNION {[1 .. n -> S] : n \in 0 .. most} :
    /\ \A i \in S : \E k \in DOMAIN order : order[k] = i
    /\ \A k, l \in DOMAIN order : k < l => Precedes(key, order[k], order[l])
=============================================================================
