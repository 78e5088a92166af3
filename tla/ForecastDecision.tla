--------------------------- MODULE ForecastDecision ---------------------------
(***************************************************************************)
(* evaluate_predicted_cpu: the label of one forecast.  Loads are in        *)
(* hundredths of a core, so that a percentage of a number of cores is a    *)
(* product; a band is a pair of percentages, which nothing orders.         *)
(***************************************************************************)
EXTENDS Integers, FiniteSets

CONSTANTS
  Machines,     \* the workers of the cluster
  Cores,        \* machine_cpu_cores, for the machines Prometheus knows
  Capacity      \* the cores of every set of machines

CoresOf(m) == IF m \in DOMAIN Cores THEN Cores[m] ELSE 4

\* What is used of the sum over active_nodes_cores.
ASSUME CapacityAssumption ==
  /\ \A m \in Machines : CoresOf(m) \in Nat \ {0}
  /\ Capacity \in [SUBSET Machines -> Nat]
  /\ \A S \in SUBSET Machines : \A m \in Machines \ S :
       Capacity[S \cup {m}] = Capacity[S] + CoresOf(m)

Overloaded(seen, used, band) == used > band.max * Capacity[seen]

Underloaded(seen, used, band) == used < band.min * Capacity[seen]

\* Mutant: the rule that was replaced, which asked for the load before only.
FitsBefore(seen, used, band) == used < band.max * Capacity[seen]

\* Without the largest machine, which is without any of them, the rest suffices.
FitsWithoutOne(seen, used, band) ==
  \A m \in seen : used < band.max * (Capacity[seen] - CoresOf(m))

\* Mutant: a lone node makes no decision at all.
LoneNodeStays(seen, used, band) ==
  IF Cardinality(seen) <= 1 THEN 0
  ELSE IF Overloaded(seen, used, band) THEN 1
  ELSE IF Underloaded(seen, used, band) /\ FitsWithoutOne(seen, used, band) THEN -1
  ELSE 0

EvaluatePredictedCPU(seen, used, band) ==
  IF seen = {} THEN 0
  ELSE IF Overloaded(seen, used, band) THEN 1
  ELSE IF Cardinality(seen) > 1 /\ Underloaded(seen, used, band)
          /\ FitsWithoutOne(seen, used, band) THEN -1
  ELSE 0
=============================================================================
