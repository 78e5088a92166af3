------------------------------ MODULE NodeRanking ------------------------------
(***************************************************************************)
(* TOPSIS: which candidate to switch off or on.  A matrix gives each       *)
(* candidate a row, and a row each criterion a value.  The code rounds     *)
(* every stage to three decimals, so its fractions are whole numbers of    *)
(* thousandths here; weights are ten-thousandths, and those DREEM ships    *)
(* with sum to at most one, so that no root exceeds a thousand.  Halves    *)
(* round up; the error of floating-point numbers is left out.              *)
(***************************************************************************)
EXTENDS Integers, FiniteSets, FiniteSetsExt, Functions

\* A value that is needed several times, with its type.
Typed(value, type) == CHOOSE v \in {value} : v \in type

Rounded(n, d) == (2 * n + d) \div (2 * d)

NotAbove(k, n, d) == (2 * k - 1) * (2 * k - 1) * d <= 4 * n

WithBit(k, bit, n, d) == IF NotAbove(k + bit, n, d) THEN k + bit ELSE k

\* The k < 1024 nearest to the square root of n / d, found bit by bit.
RoundedRoot(n, d) ==
  LET Add(k, bit) == WithBit(k, bit, n, d)
      upper == Add(Add(Add(Add(Add(0, 512), 256), 128), 64), 32)
  IN Add(Add(Add(Add(Add(upper, 16), 8), 4), 2), 1)

Squares(S, Value(_)) == SumFunction([x \in S |-> Value(x) * Value(x)])

CriteriaOf(matrix) == UNION {DOMAIN matrix[n] : n \in DOMAIN matrix}

\* Each value over the root of the sum of squares of its column.
NormalizeMatrix(matrix) ==
  [n \in DOMAIN matrix |-> [c \in CriteriaOf(matrix) |->
     LET total == Squares(DOMAIN matrix, LAMBDA m : matrix[m][c])
     IN IF total = 0 THEN 0
        ELSE RoundedRoot(1000000 * matrix[n][c] * matrix[n][c], total)]]

WeightMatrix(matrix, weights) ==
  [n \in DOMAIN matrix |-> [c \in CriteriaOf(matrix) |->
     Rounded(matrix[n][c] * weights[c], 10000)]]

\* A criterion is a cost unless it is a benefit.
CalculateIdealSolution(matrix, benefits) ==
  [c \in CriteriaOf(matrix) |->
     LET values == {matrix[n][c] : n \in DOMAIN matrix}
     IN IF c \in benefits THEN Max(values) ELSE Min(values)]

SeparationMeasure(row, solution) ==
  RoundedRoot(Squares(DOMAIN row, LAMBDA c : row[c] - solution[c]), 1)

RelativeCloseness(toIdeal, toNegative) ==
  IF toIdeal + toNegative = 0 THEN 0
  ELSE Rounded(1000 * toNegative, toIdeal + toNegative)

ClosenessOf(matrix, weights, benefits) ==
  LET weighted == Typed(WeightMatrix(NormalizeMatrix(matrix), weights),
                        [DOMAIN matrix -> [CriteriaOf(matrix) -> Nat]])
      ideal    == CalculateIdealSolution(weighted, benefits)
      negative == CalculateIdealSolution(weighted, CriteriaOf(matrix) \ benefits)
  IN Typed([n \in DOMAIN matrix |->
              RelativeCloseness(SeparationMeasure(weighted[n], ideal),
                                SeparationMeasure(weighted[n], negative))],
           [DOMAIN matrix -> Nat])

\* Who can be first once the candidates are sorted by closeness: the sort is
\* stable, but the list comes from the cache in any order.
FirstRanked(matrix, weights, benefits) ==
  LET closeness == ClosenessOf(matrix, weights, benefits)
  IN {n \in DOMAIN matrix : \A m \in DOMAIN matrix : closeness[m] <= closeness[n]}
=============================================================================
