---------------------------- MODULE Allocation ----------------------------
(***************************************************************************)
(* AllocationEngine: an amount spread over targets by ratio (pro rata,     *)
(* weighted, equal), one of the targets taking what rounding leaves over,  *)
(* or in sequence (FIFO, LIFO, specific) until the amount is used up.      *)
(* A target is a record of eligible amount, weight, date and priority.     *)
(***************************************************************************)
EXTENDS MoneyMath

Targets(targets) == 1 .. Len(targets)
Eligible(targets) == [i \in Targets(targets) |-> targets[i].eligible]

\* AllocationResult: lines by target index, in the order of the targets given.
AllocationResult(amount, order, allocated) ==
  [status |-> "ok", order |-> order, allocated |-> allocated,
   total |-> SumOfSeq(allocated), unallocated |-> amount - SumOfSeq(allocated)]
Refused == [status |-> "ValueError"]

\* Mutant: the rounding target gets its own rounded share like the others.
RatioAllocationNoResidual(amount, targets, share, round) ==
  AllocationResult(amount, [i \in Targets(targets) |-> i],
    [i \in Targets(targets) |-> IF targets[i].eligible = NoAmount THEN share[i]
                                ELSE Lesser(share[i], targets[i].eligible)])

\* An allocation by ratio ratio[i]/of; round is the index of the target that
\* absorbs the rest, and it subtracts only what came before it.  A target's
\* eligible amount caps what it gets.
RatioAllocation(amount, targets, share, round) ==
  LET raw(i) == IF i = round THEN amount - SumOfSeq(SubSeq(share, 1, i - 1)) ELSE share[i]
      capped(i) == IF targets[i].eligible = NoAmount THEN raw(i)
                   ELSE Lesser(raw(i), targets[i].eligible)
  IN AllocationResult(amount, [i \in Targets(targets) |-> i], [i \in Targets(targets) |-> capped(i)])

_allocate_by_ratio(amount, targets, ratio, of, rounding_target_index) ==
  LET n == Len(targets)
      round == IF rounding_target_index = NoAmount THEN n ELSE rounding_target_index
      share(up) == [i \in 1..n |-> QuantizedShare(amount, ratio[i], of, up[i])]
  IN {RatioAllocation(amount, targets, share(up), round) : up \in [1..n -> BOOLEAN]}

_allocate_prorata(amount, targets, index) ==
  LET total_eligible == SumOfSeq(Eligible(targets))
  IN IF \E i \in Targets(targets) : targets[i].eligible = NoAmount THEN {Refused}
     ELSE IF total_eligible = 0
          THEN {AllocationResult(amount, [i \in Targets(targets) |-> i], [i \in Targets(targets) |-> 0])}
          ELSE _allocate_by_ratio(amount, targets, Eligible(targets), total_eligible, index)

_allocate_weighted(amount, targets, index) ==
  LET weights == [i \in Targets(targets) |-> targets[i].weight]
  IN IF SumOfSeq(weights) = 0 THEN {Refused}
     ELSE _allocate_by_ratio(amount, targets, weights, SumOfSeq(weights), index)

_allocate_equal(amount, targets, index) ==
  _allocate_by_ratio(amount, targets, [i \in Targets(targets) |-> 1], Len(targets), index)

\* Targets served in the given order of their indices until nothing is left.
_allocate_sequential(amount, targets, order) ==
  LET takes(i, left) == IF targets[i].eligible = NoAmount THEN left
                        ELSE Lesser(left, targets[i].eligible)
      remaining[k \in 0 .. Len(order)] ==
        IF k = 0 THEN amount ELSE remaining[k - 1] - takes(order[k], remaining[k - 1])
      turn(i) == CHOOSE k \in 1 .. Len(order) : order[k] = i
  IN AllocationResult(amount, order,
       [i \in Targets(targets) |-> remaining[turn(i) - 1] - remaining[turn(i)]])

\* Dates are day numbers from 1; a target without a date has date 0, which FIFO
\* takes for date.min and LIFO, newest first, for date.max.
_allocate_fifo(amount, targets) ==
  _allocate_sequential(amount, targets, Sorted(Targets(targets), Len(targets),
    [i \in Targets(targets) |-> <<targets[i].date, targets[i].priority>>]))

_allocate_lifo(amount, targets) ==
  LET latest(t) == IF t.date = 0 THEN 1000 ELSE t.date
  IN _allocate_sequential(amount, targets, Sorted(Targets(targets), Len(targets),
       [i \in Targets(targets) |-> <<-latest(targets[i]), targets[i].priority>>]))

_allocate_specific(amount, targets) ==
  _allocate_sequential(amount, targets, Sorted(Targets(targets), Len(targets),
    [i \in Targets(targets) |-> <<targets[i].priority, 0>>]))

\* The possible results of AllocationEngine.allocate.
allocate(amount, targets, method, index) ==
  IF targets = <<>> THEN {AllocationResult(amount, <<>>, <<>>)}
  ELSE CASE method = "prorata" -> _allocate_prorata(amount, targets, index)
         [] method = "weighted" -> _allocate_weighted(amount, targets, index)
         [] method = "equal" -> _allocate_equal(amount, targets, index)
         [] method = "fifo" -> {_allocate_fifo(amount, targets)}
         [] method = "lifo" -> {_allocate_lifo(amount, targets)}
         [] method = "specific" -> {_allocate_specific(amount, targets)}
         [] OTHER -> {Refused}
=============================================================================
