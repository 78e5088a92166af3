------------------------------ MODULE PowerCurve ------------------------------
(***************************************************************************)
(* The power-utilization curve of a node from the mean power at the levels *)
(* it was observed at: an isotonic regression, as a node that works more   *)
(* does not draw less, and linear interpolation between the levels.        *)
(*                                                                         *)
(* A block is a set of levels whose powers are replaced by their mean.     *)
(* Means are compared exactly and rounded down once they are written.      *)
(***************************************************************************)
EXTENDS Integers, Sequences, FiniteSets, FiniteSetsExt

CONSTANT Top  \* the highest level, LEVELS is 0..100 in the code

ASSUME TopAssumption == Top \in Nat

Levels == 0..Top
Unknown == -1  \* no sample, or no value for a level or a capacity

\* The levels that have a value.
Observed(levels) == {u \in Levels : levels[u] # Unknown}

-----------------------------------------------------------------------------
MeanOver(power, block) == SumFunctionOnSet(power, block) \div Cardinality(block)

\* The mean over block a is above that over block b.
Falls(power, a, b) ==
  SumFunctionOnSet(power, a) * Cardinality(b) > SumFunctionOnSet(power, b) * Cardinality(a)

\* The blocks from the k-th on, pooled.
From(blocks, k) == UNION {blocks[i] : i \in k..Len(blocks)}

\* Mutant: a new value is pooled with at most one block.
PooledOnce(power, blocks) ==
  LET n == Len(blocks)
  IN IF n > 1 /\ Falls(power, blocks[n - 1], blocks[n]) THEN n - 1 ELSE n

\* The last block is pooled with those before it until one is not above it.
PooledFrom(power, blocks) ==
  Max({k \in 1..Len(blocks) : k = 1 \/ ~Falls(power, blocks[k - 1], From(blocks, k))})

Pooled(power, blocks) ==
  LET k == PooledFrom(power, blocks)
  IN Append(SubSeq(blocks, 1, k - 1), From(blocks, k))

\* The loop of isotonic_regression: the levels are added in their order.
BlocksOf(power) ==
  LET merged[n \in 0..Top + 1] ==
        IF n = 0 THEN <<>>
        ELSE IF n - 1 \in DOMAIN power THEN Pooled(power, Append(merged[n - 1], {n - 1}))
        ELSE merged[n - 1]
  IN merged[Top + 1]

IsotonicRegression(power) ==
  LET BlockOf(u) == CHOOSE block \in Range(BlocksOf(power)) : u \in block
  IN [u \in DOMAIN power |-> MeanOver(power, BlockOf(u))]

\* build_power_curve: linear between the observed levels, held beyond them.
BuildPowerCurve(levels) ==
  LET fitted == IsotonicRegression([u \in Observed(levels) |-> levels[u]])
      Interpolated(u) ==
        LET below == {x \in Observed(levels) : x =< u}
            above == {x \in Observed(levels) : x >= u}
            a == Max(below)
            b == Min(above)
        IN  IF below = {} THEN fitted[b]
            ELSE IF above = {} \/ a = u THEN fitted[a]
            ELSE fitted[a] + ((u - a) * (fitted[b] - fitted[a])) \div (b - a)
  IN  [u \in Levels |-> Interpolated(u)]

-----------------------------------------------------------------------------
\* The least-squares non-decreasing fit, as the greatest over the levels a of the
\* least over the levels b of the means between a and b, with the level between
\* them.
IsotonicFit(power) ==
  LET Mean(a, b) == MeanOver(power, {x \in DOMAIN power : a =< x /\ x =< b})
      LeastFrom(a, u) == Min({Mean(a, b) : b \in {x \in DOMAIN power : u =< x}})
  IN  [u \in DOMAIN power |->
         Max({LeastFrom(a, u) : a \in {x \in DOMAIN power : x =< u}})]
=============================================================================
