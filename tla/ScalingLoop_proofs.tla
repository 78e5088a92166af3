--------------------------- MODULE ScalingLoop_proofs ---------------------------
(***************************************************************************)
(* The closed loop for every fleet of machines, every demand and every     *)
(* pair of thresholds.  For the moves of the loop the ranking only matters *)
(* in that it chooses among the candidates it was given; the last part is  *)
(* about which one it chooses, for all annotations, losses and weights.    *)
(***************************************************************************)
EXTENDS ScalingLoop, SumTheorems

Annotations ==
  /\ cycles \in [Machines -> Nat \cup {Missing}]
  /\ profile \in [Machines -> Profiles \cup {Missing}]
Sets     == on \in SUBSET Machines /\ retired \in SUBSET Machines
Settings == demand \in Demands /\ band \in Bands
Counts   == changes \in 0..MaxChanges /\ blind \in 0..MaxBlind
Moves    == lastMove \in {"none", "up", "down"}

\* The type invariant by its parts.
LEMMA TypeParts == TypeOK <=> FlagOK /\ Sets /\ Settings /\ Annotations /\ Counts /\ Moves
BY DEF TypeOK, Sets, Settings, Annotations, Counts, Moves

\* Whoever is ranked first was a candidate.
LEMMA FirstIsCandidate ==
  ASSUME NEW matrix, NEW weights, NEW benefits,
         NEW m \in FirstRanked(matrix, weights, benefits)
  PROVE  m \in DOMAIN matrix
BY DEF FirstRanked

\* A machine that is switched on was a candidate.
LEMMA SwitchedOnWasCandidate ==
  ASSUME NEW m \in FirstRanked(ScaleUpCriteria, ScaleUpWeights, {})
  PROVE  m \in ScaleUpCandidates
BY FirstIsCandidate DEF ScaleUpCriteria

\* A machine that is switched off was planned for and has an energy annotation.
LEMMA SwitchedOffWasCandidate ==
  ASSUME NEW planned \in SUBSET on, NEW losses,
         NEW m \in FirstRanked(ScaleDownCriteria(planned, losses),
                               ScaleDownWeights, BenefitCriteriaScaleDown)
  PROVE  m \in planned /\ profile[m] # Missing
BY FirstIsCandidate DEF ScaleDownCriteria

\* GetPowerCycle adds annotations and removes none.
LEMMA WrittenCycles ==
  ASSUME Annotations, NEW planned \in SUBSET Machines
  PROVE  /\ PowerCyclesWritten(planned) \in [Machines -> Nat \cup {Missing}]
         /\ \A m \in planned : PowerCyclesWritten(planned)[m] # Missing
         /\ \A m \in Machines :
              cycles[m] # Missing => PowerCyclesWritten(planned)[m] # Missing
<1>1. 0 \in Nat /\ 0 # Missing
  BY ScalingLoopAssumption
<1>2. \A m \in Machines : /\ GetPowerCycle(m) \in Nat
                          /\ GetPowerCycle(m) # Missing
  BY <1>1, ScalingLoopAssumption DEF Annotations, GetPowerCycle
<1> QED
  BY <1>1, <1>2 DEF Annotations, PowerCyclesWritten

-----------------------------------------------------------------------------
\* What a forecast that makes a request does to the counters.
LEMMA PredictsKeepsTypes ==
  ASSUME Counts, NEW label, Predicts(label), changes' = changes
  PROVE  Counts'
BY ScalingLoopAssumption DEF Predicts, Counts

\* A scale-up keeps the types.
LEMMA ScaleUpTypes ==
  ASSUME TypeOK, NEW m \in Machines, ScaleUp(m) PROVE TypeOK'
<1>1. FlagOK' /\ Sets' /\ Settings'
  BY TypeParts DEF ScaleUp, FlagOK, Sets, Settings, settings
<1>2. Annotations'
  <2>1. cycles[m] \in Nat
    BY TypeParts, SwitchedOnWasCandidate DEF ScaleUp, ScaleUpCandidates, Annotations
  <2> QED
    BY <2>1, TypeParts DEF ScaleUp, Annotations
<1>3. Counts' /\ Moves'
  BY TypeParts, PredictsKeepsTypes DEF ScaleUp, Recorded, Moves
<1> QED
  BY <1>1, <1>2, <1>3, TypeParts DEF TypeOK, Sets, Settings, Annotations, Counts, Moves

\* A scale-down keeps the types.
LEMMA ScaleDownTypes ==
  ASSUME TypeOK, NEW planned \in SUBSET on, NEW losses, ScaleDown(planned, losses)
  PROVE  TypeOK'
<1>1. FlagOK' /\ Settings'
  BY TypeParts DEF ScaleDown, FlagOK, Settings, settings
<1>2. Sets'
  BY TypeParts, SwitchedOffWasCandidate DEF ScaleDown, Sets
<1>3. Annotations'
  BY TypeParts, WrittenCycles DEF ScaleDown, Annotations, Sets
<1>4. Counts' /\ Moves'
  BY TypeParts, PredictsKeepsTypes DEF ScaleDown, Recorded, Moves
<1> QED
  BY <1>1, <1>2, <1>3, <1>4 DEF TypeOK, Sets, Settings, Annotations, Counts, Moves

\* The other steps keep the types.
LEMMA OthersTypes ==
  ASSUME TypeOK,
         \/ \E planned \in SUBSET on : NothingToSwitchOff(planned)
         \/ CatchUp
         \/ \E d \in Demands : DemandChanges(d)
         \/ \E m \in Machines, p \in Profiles : Reprofile(m, p)
         \/ UNCHANGED vars
  PROVE  TypeOK'
<1>1. ASSUME NEW planned \in SUBSET on, NothingToSwitchOff(planned) PROVE TypeOK'
  <2>1. Counts'
    BY <1>1, TypeParts, PredictsKeepsTypes DEF NothingToSwitchOff
  <2>2. Annotations'
    BY <1>1, TypeParts, WrittenCycles DEF NothingToSwitchOff, Annotations, Sets
  <2> QED
    BY <1>1, <2>1, <2>2
       DEF NothingToSwitchOff, settings, TypeOK, FlagOK, Annotations, Counts
<1>2. CASE CatchUp
  BY <1>2 DEF CatchUp, settings, annotations, bounds, TypeOK, FlagOK
<1>3. ASSUME NEW d \in Demands, DemandChanges(d) PROVE TypeOK'
  <2>1. changes' \in 0..MaxChanges
    BY <1>3, ScalingLoopAssumption DEF DemandChanges, TypeOK
  <2> QED
    BY <1>3, <2>1 DEF DemandChanges, annotations, TypeOK, FlagOK
<1>4. ASSUME NEW m \in Machines, NEW p \in Profiles, Reprofile(m, p) PROVE TypeOK'
  <2>1. changes' \in 0..MaxChanges
    BY <1>4, ScalingLoopAssumption DEF Reprofile, TypeOK
  <2> QED
    BY <1>4, <2>1 DEF Reprofile, settings, TypeOK, FlagOK
<1>5. CASE UNCHANGED vars
  BY <1>5 DEF vars, settings, annotations, bounds, TypeOK, FlagOK
<1> QED
  BY <1>1, <1>2, <1>3, <1>4, <1>5

\* Type correctness, for all constants.
THEOREM Typing == Spec => []TypeOK
<1>1. Init => TypeOK
  BY ScalingLoopAssumption DEF Init, TypeOK, FlagOK
<1>2. TypeOK /\ [Next]_vars => TypeOK'
  BY ScaleUpTypes, ScaleDownTypes, OthersTypes DEF Next
<1> QED
  BY <1>1, <1>2, PTL DEF Spec

-----------------------------------------------------------------------------
(***************************************************************************)
(* Why two moves of one demand do not undo each other: what the first one  *)
(* was decided on still holds of the machines it leaves on, as it adds or  *)
(* takes away just what the second threshold allows for.                   *)
(***************************************************************************)
Hysteresis ==
  /\ lastMove = "down" => ~Overloaded(on, demand, band)
  /\ lastMove = "up"   => ~FitsWithoutOne(on, demand, band)

\* A machine adds its cores.
LEMMA CapacityWith ==
  ASSUME NEW S \in SUBSET Machines, NEW m \in Machines \ S
  PROVE  Capacity[S \cup {m}] - CoresOf(m) = Capacity[S]
<1>1. Capacity[S] \in Nat /\ CoresOf(m) \in Nat
  BY CapacityAssumption
<1> QED
  BY <1>1, CapacityAssumption

\* A machine takes its cores away.
LEMMA CapacityWithout ==
  ASSUME NEW S \in SUBSET Machines, NEW m \in S
  PROVE  Capacity[S \ {m}] = Capacity[S] - CoresOf(m)
<1>1. (S \ {m}) \cup {m} = S
  OBVIOUS
<1>2. S \ {m} \in SUBSET Machines /\ m \in Machines \ (S \ {m})
  OBVIOUS
<1> QED
  BY <1>1, <1>2, CapacityWith

\* A label that is not 0 means what its rule says, for a demand and a capacity
\* that are numbers.
LEMMA LabelMeans ==
  ASSUME NEW seen, NEW used, NEW b
  PROVE  /\ EvaluatePredictedCPU(seen, used, b) = 1  => Overloaded(seen, used, b)
         /\ EvaluatePredictedCPU(seen, used, b) = -1 => /\ ~Overloaded(seen, used, b)
                                                        /\ FitsWithoutOne(seen, used, b)
BY DEF EvaluatePredictedCPU

\* After a scale-up no machine can be missed.
LEMMA RisenStaysLoaded ==
  ASSUME TypeOK, NEW m \in Machines \ on, Overloaded(on, demand, band)
  PROVE  ~FitsWithoutOne(on \cup {m}, demand, band)
<1>1. Capacity[on \cup {m}] - CoresOf(m) = Capacity[on]
  BY CapacityWith DEF TypeOK
<1>2. demand \in Int /\ band.max * Capacity[on] \in Int
  BY CapacityAssumption, ScalingLoopAssumption DEF TypeOK
<1> QED
  BY <1>1, <1>2 DEF Overloaded, FitsWithoutOne

\* After a scale-down the rest is not overloaded.
LEMMA LoweredStaysLight ==
  ASSUME TypeOK, NEW m \in on, FitsWithoutOne(on, demand, band)
  PROVE  ~Overloaded(on \ {m}, demand, band)
<1>1. Capacity[on \ {m}] = Capacity[on] - CoresOf(m)
  BY CapacityWithout DEF TypeOK
<1>2. on \ {m} \in SUBSET Machines
  BY DEF TypeOK
<1>3. demand \in Int /\ band.max * Capacity[on \ {m}] \in Int
  BY <1>2, CapacityAssumption, ScalingLoopAssumption DEF TypeOK
<1> QED
  BY <1>1, <1>3 DEF Overloaded, FitsWithoutOne

\* Every step keeps the hysteresis.
LEMMA StepKeepsHysteresis ==
  ASSUME TypeOK, Hysteresis, [Next]_vars PROVE Hysteresis'
<1>1. ASSUME NEW m \in Machines, ScaleUp(m) PROVE Hysteresis'
  <2>1. m \in Machines \ on
    BY <1>1, SwitchedOnWasCandidate DEF ScaleUp, ScaleUpCandidates
  <2>2. lastMove' = "none" \/ (lastMove' = "up" /\ Overloaded(on, demand, band))
    BY <1>1, LabelMeans DEF ScaleUp, Predicts, Recorded
  <2>3. CASE lastMove' = "none"
    BY <2>3 DEF Hysteresis
  <2>4. CASE lastMove' = "up" /\ Overloaded(on, demand, band)
    <3>1. ~FitsWithoutOne(on', demand', band')
      BY <1>1, <2>1, <2>4, RisenStaysLoaded DEF ScaleUp, settings
    <3> QED
      BY <2>4, <3>1 DEF Hysteresis
  <2> QED
    BY <2>2, <2>3, <2>4
<1>2. ASSUME NEW planned \in SUBSET on, NEW losses, ScaleDown(planned, losses)
      PROVE  Hysteresis'
  <2>1. PICK m \in planned : on' = on \ {m}
    BY <1>2, SwitchedOffWasCandidate DEF ScaleDown
  <2>2. lastMove' = "none" \/ (lastMove' = "down" /\ FitsWithoutOne(on, demand, band))
    BY <1>2, LabelMeans DEF ScaleDown, Predicts, Recorded
  <2>3. CASE lastMove' = "none"
    BY <2>3 DEF Hysteresis
  <2>4. CASE lastMove' = "down" /\ FitsWithoutOne(on, demand, band)
    <3>1. ~Overloaded(on', demand', band')
      BY <1>2, <2>1, <2>4, LoweredStaysLight DEF ScaleDown, settings
    <3> QED
      BY <2>4, <3>1 DEF Hysteresis
  <2> QED
    BY <2>2, <2>3, <2>4
<1>3. ASSUME NEW d \in Demands, DemandChanges(d) PROVE Hysteresis'
  BY <1>3 DEF DemandChanges, Hysteresis
<1>4. ASSUME UNCHANGED <<on, settings, lastMove>> PROVE Hysteresis'
  BY <1>4 DEF Hysteresis, settings, Overloaded, FitsWithoutOne
<1> QED
  BY <1>1, <1>2, <1>3, <1>4
  DEF Next, NothingToSwitchOff, CatchUp, Reprofile, vars

\* Only the two moves change which machines are on, each in its direction.
LEMMA RaisedByScaleUp ==
  ASSUME [Next]_vars, on' # on, on \subseteq on', caughtUp
  PROVE  Overloaded(on, demand, band)
<1>1. ASSUME NEW planned \in SUBSET on, NEW losses, ScaleDown(planned, losses)
      PROVE  FALSE
  BY <1>1, SwitchedOffWasCandidate DEF ScaleDown
<1>2. PICK m \in Machines : ScaleUp(m)
  BY <1>1 DEF Next, NothingToSwitchOff, CatchUp, DemandChanges, Reprofile, vars
<1> QED
  BY <1>2, LabelMeans DEF ScaleUp, Predicts

\* Only a scale-down that fits lowers the number of machines.
LEMMA LoweredByScaleDown ==
  ASSUME [Next]_vars, on' # on, on' \subseteq on, caughtUp
  PROVE  FitsWithoutOne(on, demand, band)
<1>1. ASSUME NEW m \in Machines, ScaleUp(m) PROVE FALSE
  BY <1>1, SwitchedOnWasCandidate DEF ScaleUp, ScaleUpCandidates
<1>2. PICK planned \in SUBSET on, losses \in Losses : ScaleDown(planned, losses)
  BY <1>1 DEF Next, NothingToSwitchOff, CatchUp, DemandChanges, Reprofile, vars
<1> QED
  BY <1>2, LabelMeans DEF ScaleDown, Predicts

\* The forecast never undoes a move while it sees the whole load and the demand
\* stays, for all machines and all thresholds, ordered or not.
THEOREM Steady == Spec => NoFlapping
<1>1. Init => Hysteresis
  BY DEF Init, Hysteresis
<1>2. TypeOK /\ Hysteresis /\ [Next]_vars => Hysteresis'
  BY StepKeepsHysteresis
<1>3. Hysteresis /\ [Next]_vars
      => [caughtUp => /\ Raised  => lastMove # "down"
                      /\ Lowered => lastMove # "up"]_vars
  BY RaisedByScaleUp, LoweredByScaleDown DEF Hysteresis, Raised, Lowered
<1> QED
  BY <1>1, <1>2, <1>3, Typing, PTL DEF Spec, NoFlapping

-----------------------------------------------------------------------------
\* Every step keeps the annotations of the machines that are off.
LEMMA StepKeepsRecoverable ==
  ASSUME TypeOK, Recoverable, [Next]_vars PROVE Recoverable'
<1> DEFINE Marked == \A m \in retired : m \in Machines \ on /\ cycles[m] # Missing
                                                        /\ profile[m] # Missing
<1>1. Recoverable <=> Marked
  BY DEF Recoverable, ScaleUpCandidates
<1>2. Recoverable' <=> Marked'
  BY DEF Recoverable, ScaleUpCandidates
<1>3. ASSUME NEW m \in Machines, ScaleUp(m) PROVE Marked'
  BY <1>1, <1>3 DEF ScaleUp, TypeOK
<1>4. ASSUME NEW planned \in SUBSET on, NEW losses, ScaleDown(planned, losses)
      PROVE  Marked'
  <2>1. PICK m \in planned : /\ on' = on \ {m} /\ retired' = retired \cup {m}
                             /\ profile[m] # Missing
    BY <1>4, SwitchedOffWasCandidate DEF ScaleDown
  <2>2. \A n \in Machines : cycles[n] # Missing \/ n = m => cycles'[n] # Missing
    BY <1>4, TypeParts, WrittenCycles DEF ScaleDown, Sets
  <2>3. profile' = profile /\ on \subseteq Machines /\ retired \subseteq Machines
    BY <1>4 DEF ScaleDown, TypeOK
  <2> QED
    BY <1>1, <2>1, <2>2, <2>3
<1>5. ASSUME NEW planned \in SUBSET on, NothingToSwitchOff(planned) PROVE Marked'
  <2>1. \A n \in Machines : cycles[n] # Missing => cycles'[n] # Missing
    BY <1>5, TypeParts, WrittenCycles DEF NothingToSwitchOff, Sets
  <2> QED
    BY <1>1, <1>5, <2>1 DEF NothingToSwitchOff
<1>6. ASSUME NEW m \in Machines, NEW p \in Profiles, Reprofile(m, p) PROVE Marked'
  BY <1>1, <1>6, ScalingLoopAssumption DEF Reprofile, TypeOK
<1>7. ASSUME UNCHANGED <<on, cycles, profile, retired>> PROVE Marked'
  BY <1>1, <1>7
<1> QED
  BY <1>2, <1>3, <1>4, <1>5, <1>6, <1>7
  DEF Next, CatchUp, DemandChanges, vars, annotations

\* No machine is lost to the ranking by being switched off.
THEOREM NoneLost == Spec => []Recoverable
<1>1. Init => Recoverable
  BY DEF Init, Recoverable
<1>2. TypeOK /\ Recoverable /\ [Next]_vars => Recoverable'
  BY StepKeepsRecoverable
<1> QED
  BY <1>1, <1>2, Typing, PTL DEF Spec
-----------------------------------------------------------------------------
(***************************************************************************)
(* Why a candidate that is as good in every criterion is never ranked      *)
(* behind: each stage of the ranking rounds, and each rounds in one        *)
(* direction for larger and for smaller values.                            *)
(***************************************************************************)
\* Which of two roots is ahead does not change with one bit more, as what is still
\* to be added is less than the lead.
Ahead(j, k, bit) == /\ j \in Nat /\ k \in Nat
                    /\ j = k \/ j + bit =< k

\* A bit that n gets, h gets as well.
LEMMA BitRises ==
  ASSUME NEW n \in Nat, NEW h \in Nat, n =< h, NEW d \in Nat, NEW k \in Nat,
         NotAbove(k, n, d)
  PROVE  NotAbove(k, h, d)
<1> DEFINE square == (2 * k - 1) * (2 * k - 1) * d
<1>1. \A x \in Nat : NotAbove(k, x, d) <=> square =< 4 * x
  BY DEF NotAbove
<1>2. square \in Int
  OBVIOUS
<1> HIDE DEF square
<1>3. square =< 4 * n => square =< 4 * h
  BY <1>2
<1> QED
  BY <1>1, <1>3

\* The lead after one bit more.
LEMMA BitKeepsOrder ==
  ASSUME NEW n \in Nat, NEW h \in Nat, n =< h, NEW d \in Nat,
         NEW j, NEW k, NEW bit \in Nat, Ahead(j, k, bit + bit)
  PROVE  Ahead(WithBit(j, bit, n, d), WithBit(k, bit, h, d), bit)
<1> j \in Nat /\ k \in Nat
  BY DEF Ahead
<1>1. CASE j = k
  <2>1. NotAbove(j + bit, n, d) => NotAbove(j + bit, h, d)
    BY BitRises
  <2> QED
    BY <1>1, <2>1 DEF Ahead, WithBit
<1>2. CASE j + (bit + bit) =< k
  BY <1>2 DEF Ahead, WithBit
<1> QED
  BY <1>1, <1>2 DEF Ahead

\* The rounded root of a larger number is not smaller.
LEMMA RootRises ==
  ASSUME NEW n \in Nat, NEW h \in Nat, n =< h, NEW d \in Nat
  PROVE  /\ RoundedRoot(n, d) \in Nat
         /\ RoundedRoot(n, d) =< RoundedRoot(h, d)
<1> DEFINE a1(x) == WithBit(0, 512, x, d)
           a2(x) == WithBit(a1(x), 256, x, d)
           a3(x) == WithBit(a2(x), 128, x, d)
           a4(x) == WithBit(a3(x), 64, x, d)
           a5(x) == WithBit(a4(x), 32, x, d)
           a6(x) == WithBit(a5(x), 16, x, d)
           a7(x) == WithBit(a6(x), 8, x, d)
           a8(x) == WithBit(a7(x), 4, x, d)
           a9(x) == WithBit(a8(x), 2, x, d)
           a10(x) == WithBit(a9(x), 1, x, d)
<1>0. Ahead(0, 0, 512 + 512)
  BY DEF Ahead
<1>1. Ahead(a1(n), a1(h), 512)
  BY <1>0, BitKeepsOrder
<1> HIDE DEF a1
<1>2. Ahead(a2(n), a2(h), 256)
  BY <1>1, BitKeepsOrder
<1> HIDE DEF a2
<1>3. Ahead(a3(n), a3(h), 128)
  BY <1>2, BitKeepsOrder
<1> HIDE DEF a3
<1>4. Ahead(a4(n), a4(h), 64)
  BY <1>3, BitKeepsOrder
<1> HIDE DEF a4
<1>5. Ahead(a5(n), a5(h), 32)
  BY <1>4, BitKeepsOrder
<1> HIDE DEF a5
<1>6. Ahead(a6(n), a6(h), 16)
  BY <1>5, BitKeepsOrder
<1> HIDE DEF a6
<1>7. Ahead(a7(n), a7(h), 8)
  BY <1>6, BitKeepsOrder
<1> HIDE DEF a7
<1>8. Ahead(a8(n), a8(h), 4)
  BY <1>7, BitKeepsOrder
<1> HIDE DEF a8
<1>9. Ahead(a9(n), a9(h), 2)
  BY <1>8, BitKeepsOrder
<1> HIDE DEF a9
<1>10. Ahead(a10(n), a10(h), 1)
  BY <1>9, BitKeepsOrder
<1>11. \A x : RoundedRoot(x, d) = a10(x)
  BY Zenon DEF RoundedRoot, a1, a2, a3, a4, a5, a6, a7, a8, a9
<1> HIDE DEF a10
<1> QED
  BY <1>10, <1>11 DEF Ahead
\* Of a larger fraction, a rounded quotient that is not smaller.
LEMMA QuotientRises ==
  ASSUME NEW i \in Nat, NEW j \in Nat, NEW d \in Nat \ {0}, NEW e \in Nat \ {0},
         i * e =< j * d
  PROVE  i \div d \in Nat /\ i \div d =< j \div e
<1> DEFINE p == i \div d
           q == j \div e
<1>1. p \in Nat /\ q \in Nat
  OBVIOUS
<1>2. p * d =< i
  OBVIOUS
<1>3. j < (q + 1) * e
  OBVIOUS
<1> HIDE DEF p, q
<1>4. SUFFICES ASSUME q < p PROVE FALSE
  BY <1>1 DEF p, q
<1>5. (q + 1) * e =< p * e
  BY <1>1, <1>4
<1>6. j + 1 =< p * e
  <2> DEFINE low == (q + 1) * e
             high == p * e
  <2>1. low \in Int /\ high \in Int
    BY <1>1
  <2> HIDE DEF low, high
  <2>2. j < low /\ low =< high
    BY <1>3, <1>5 DEF low, high
  <2>3. j + 1 =< high
    BY <2>1, <2>2
  <2> QED
    BY <2>3 DEF high
<1>7. (j + 1) * d =< (p * e) * d
  BY <1>1, <1>6
<1>8. (p * d) * e =< i * e
  BY <1>1, <1>2
<1>9. (p * e) * d = (p * d) * e /\ (j + 1) * d = j * d + d
  BY <1>1
<1> DEFINE pde == (p * d) * e
           ie == i * e
           jd == j * d
<1>10. pde \in Int /\ ie \in Int /\ jd \in Int
  BY <1>1
<1>11. jd + d =< pde /\ pde =< ie /\ ie =< jd
  BY <1>7, <1>8, <1>9
<1> HIDE DEF pde, ie, jd
<1> QED
  BY <1>10, <1>11

\* A weight keeps the order of two values.
LEMMA WeightedRises ==
  ASSUME NEW i \in Nat, NEW j \in Nat, i =< j, NEW w \in Nat
  PROVE  /\ Rounded(i * w, 10000) \in Nat
         /\ Rounded(i * w, 10000) =< Rounded(j * w, 10000)
<1>1. i * w \in Nat /\ j * w \in Nat /\ i * w =< j * w
  OBVIOUS
<1>2. \A x, y \in Nat : x =< y => /\ Rounded(x, 10000) \in Nat
                                  /\ Rounded(x, 10000) =< Rounded(y, 10000)
  BY DEF Rounded
<1> QED
  BY <1>1, <1>2

\* Nearer to the ideal and not nearer to its opposite is not less close.
LEMMA ClosenessRises ==
  ASSUME NEW i \in Nat, NEW j \in Nat, i =< j, NEW k \in Nat, NEW l \in Nat, l =< k
  PROVE  /\ RelativeCloseness(i, k) \in Nat /\ RelativeCloseness(j, l) \in Nat
         /\ RelativeCloseness(j, l) =< RelativeCloseness(i, k)
<1>1. ASSUME NEW x \in Nat, NEW y \in Nat PROVE RelativeCloseness(x, y) \in Nat
  <2>1. CASE x + y = 0
    BY <2>1 DEF RelativeCloseness
  <2>2. CASE x + y # 0
    <3> DEFINE d == x + y
               m == 2 * (1000 * y) + (x + y)
    <3>1. d \in Nat \ {0} /\ m \in Nat
      BY <2>2
    <3>2. RelativeCloseness(x, y) = m \div (2 * d)
      BY <2>2 DEF RelativeCloseness, Rounded
    <3> HIDE DEF d, m
    <3> QED
      BY <3>1, <3>2
  <2> QED
    BY <2>1, <2>2
<1>2. CASE j + l = 0
  BY <1>1, <1>2 DEF RelativeCloseness
<1>3. CASE j + l # 0 /\ i + k = 0
  <2>1. l = 0 /\ i = 0 /\ k = 0
    BY <1>3
  <2>2. RelativeCloseness(j, l) = (2 * (1000 * 0) + (j + 0)) \div (2 * (j + 0))
    BY <1>3, <2>1 DEF RelativeCloseness, Rounded
  <2>3. j \div (2 * j) = 0
    BY <1>3, <2>1
  <2> QED
    BY <1>3, <2>2, <2>3, <2>1 DEF RelativeCloseness
<1>4. CASE j + l # 0 /\ i + k # 0
  <2> DEFINE d == 2 * (j + l)
             e == 2 * (i + k)
             m == 2 * (1000 * l) + (j + l)
             n == 2 * (1000 * k) + (i + k)
  <2>1. d \in Nat \ {0} /\ e \in Nat \ {0} /\ m \in Nat /\ n \in Nat
    BY <1>4
  <2>2. l * i =< k * j
    <3>1. l * i =< k * i /\ k * i =< k * j
      OBVIOUS
    <3>2. l * i \in Int /\ k * i \in Int /\ k * j \in Int
      OBVIOUS
    <3> DEFINE x == l * i
               y == k * i
               z == k * j
    <3> HIDE DEF x, y, z
    <3>3. x =< z
      BY <3>1, <3>2 DEF x, y, z
    <3> QED
      BY <3>3 DEF x, z
  <2>3. m * e =< n * d
    <3>1. m * e = 4000 * (l * i) + 4000 * (l * k) + 2 * ((j + l) * (i + k))
      OBVIOUS
    <3>2. n * d = 4000 * (k * j) + 4000 * (l * k) + 2 * ((j + l) * (i + k))
      OBVIOUS
    <3> DEFINE x == l * i
               z == k * j
               u == l * k
               v == (j + l) * (i + k)
    <3>3. x \in Int /\ z \in Int /\ u \in Int /\ v \in Int
      OBVIOUS
    <3>4. m * e = 4000 * x + 4000 * u + 2 * v /\ n * d = 4000 * z + 4000 * u + 2 * v
      BY <3>1, <3>2
    <3>5. x =< z
      BY <2>2
    <3> HIDE DEF x, z, u, v, m, n, d, e
    <3> QED
      BY <3>3, <3>4, <3>5
  <2>4. RelativeCloseness(j, l) = m \div d /\ RelativeCloseness(i, k) = n \div e
    BY <1>4 DEF RelativeCloseness, Rounded
  <2> HIDE DEF m, n, d, e
  <2>5. m \div d =< n \div e
    BY <2>1, <2>3, QuotientRises
  <2> QED
    BY <1>1, <2>4, <2>5
<1> QED
  BY <1>2, <1>3, <1>4
-----------------------------------------------------------------------------
\* x is no farther from s than y is, on the same side of it.
Between(s, x, y) == (s =< x /\ x =< y) \/ (y =< x /\ x =< s)

\* What lies nearer has a smaller square.
LEMMA SquareRises ==
  ASSUME NEW s \in Nat, NEW x \in Nat, NEW y \in Nat, Between(s, x, y)
  PROVE  /\ (x - s) * (x - s) \in Nat /\ (y - s) * (y - s) \in Nat
         /\ (x - s) * (x - s) =< (y - s) * (y - s)
<1>1. \A u, v \in Nat : u =< v => /\ u * u \in Nat /\ v * v \in Nat
                                  /\ u * u =< v * v
  OBVIOUS
<1>2. CASE s =< x /\ x =< y
  <2>1. x - s \in Nat /\ y - s \in Nat /\ x - s =< y - s
    BY <1>2
  <2> DEFINE u == x - s
             v == y - s
  <2> HIDE DEF u, v
  <2>2. u \in Nat /\ v \in Nat /\ u =< v
    BY <2>1 DEF u, v
  <2>3. u * u \in Nat /\ v * v \in Nat /\ u * u =< v * v
    BY <1>1, <2>2
  <2> QED
    BY <2>3 DEF u, v
<1>3. CASE y =< x /\ x =< s
  <2> DEFINE u == s - x
             v == s - y
  <2>1. u \in Nat /\ v \in Nat /\ u =< v
    BY <1>3
  <2>2. (x - s) * (x - s) = u * u /\ (y - s) * (y - s) = v * v
    OBVIOUS
  <2> HIDE DEF u, v
  <2>3. u * u \in Nat /\ v * v \in Nat /\ u * u =< v * v
    BY <1>1, <2>1
  <2> QED
    BY <2>2, <2>3
<1> QED
  BY <1>2, <1>3 DEF Between

\* A row that lies nearer in every criterion is no farther from the solution.
LEMMA SeparationRises ==
  ASSUME NEW C, IsFiniteSet(C), NEW s \in [C -> Nat],
         NEW x \in [C -> Nat], NEW y \in [C -> Nat],
         \A c \in C : Between(s[c], x[c], y[c])
  PROVE  /\ SeparationMeasure(x, s) \in Nat /\ SeparationMeasure(y, s) \in Nat
         /\ SeparationMeasure(x, s) =< SeparationMeasure(y, s)
<1> DEFINE f(r) == [c \in C |-> (r[c] - s[c]) * (r[c] - s[c])]
<1>1. \A r \in [C -> Nat] :
        SeparationMeasure(r, s) = RoundedRoot(SumFunctionOnSet(f(r), C), 1)
  BY DEF SeparationMeasure, Squares, SumFunction
<1>2. \A c \in C : f(x)[c] \in Nat /\ f(y)[c] \in Nat /\ f(x)[c] =< f(y)[c]
  BY SquareRises
<1> HIDE DEF f
<1>3. SumFunctionOnSet(f(x), C) \in Nat /\ SumFunctionOnSet(f(y), C) \in Nat
  BY <1>2, SumIsNat
<1>4. SumFunctionOnSet(f(x), C) =< SumFunctionOnSet(f(y), C)
  <2>1. \A c \in C : f(x)[c] \in Int /\ f(y)[c] \in Int /\ f(x)[c] =< f(y)[c]
    BY <1>2
  <2> QED
    BY <2>1, SumRises
<1>5. /\ RoundedRoot(SumFunctionOnSet(f(x), C), 1) \in Nat
      /\ RoundedRoot(SumFunctionOnSet(f(x), C), 1) =< RoundedRoot(SumFunctionOnSet(f(y), C), 1)
  BY <1>3, <1>4, RootRises
<1>6. RoundedRoot(SumFunctionOnSet(f(y), C), 1) \in Nat
  <2> DEFINE n == SumFunctionOnSet(f(y), C)
  <2>1. n \in Nat /\ n =< n
    BY <1>3
  <2> HIDE DEF n
  <2>2. RoundedRoot(n, 1) \in Nat
    BY <2>1, RootRises
  <2> QED
    BY <2>2 DEF n
<1> QED
  BY <1>1, <1>5, <1>6

-----------------------------------------------------------------------------
\* A matrix over candidates M and criteria C, of which there are finitely many, with
\* a candidate at least and a weight for every criterion.
Matrices(M, C) == [M -> [C -> Nat]]
Weighing(weights, C) == \A c \in C : weights[c] \in Nat

\* The criteria are those of any row.
LEMMA CriteriaOfRows ==
  ASSUME NEW M, NEW C, M # {}, NEW matrix \in Matrices(M, C)
  PROVE  DOMAIN matrix = M /\ CriteriaOf(matrix) = C
<1>1. DOMAIN matrix = M /\ \A n \in M : DOMAIN matrix[n] = C
  BY DEF Matrices
<1> QED
  BY <1>1 DEF CriteriaOf

\* Normalized and weighted, the values of a criterion keep their order.
LEMMA WeightingKeepsOrder ==
  ASSUME NEW M, NEW C, IsFiniteSet(M), M # {}, NEW matrix \in Matrices(M, C),
         NEW weights, Weighing(weights, C)
  PROVE  LET W == WeightMatrix(NormalizeMatrix(matrix), weights)
         IN /\ W \in Matrices(M, C)
            /\ \A n, m \in M, c \in C : matrix[n][c] =< matrix[m][c] => W[n][c] =< W[m][c]
<1> DEFINE column(c) == [n \in M |-> matrix[n][c] * matrix[n][c]]
           total(c)  == SumFunctionOnSet(column(c), M)
           N         == NormalizeMatrix(matrix)
           W         == WeightMatrix(N, weights)
           root(n, c) == IF total(c) = 0 THEN 0
                         ELSE RoundedRoot(1000000 * matrix[n][c] * matrix[n][c], total(c))
<1>1. DOMAIN matrix = M /\ CriteriaOf(matrix) = C
  BY CriteriaOfRows
<1>2. N = [n \in M |-> [c \in C |-> root(n, c)]]
  BY <1>1 DEF NormalizeMatrix, Squares, SumFunction
<1>3. \A n \in M, c \in C : matrix[n][c] \in Nat
  BY DEF Matrices
<1>4. \A c \in C : total(c) \in Nat
  <2> TAKE c \in C
  <2>1. \A n \in M : column(c)[n] \in Nat
    BY <1>3
  <2> HIDE DEF column
  <2> QED
    BY <2>1, SumIsNat
<1> HIDE DEF total
<1>5. ASSUME NEW n \in M, NEW m \in M, NEW c \in C, matrix[n][c] =< matrix[m][c]
      PROVE  root(n, c) \in Nat /\ root(n, c) =< root(m, c)
  <2> DEFINE x == 1000000 * matrix[n][c] * matrix[n][c]
             y == 1000000 * matrix[m][c] * matrix[m][c]
  <2>1. \A u, v \in Nat : u =< v => /\ 1000000 * u * u \in Nat /\ 1000000 * v * v \in Nat
                                    /\ 1000000 * u * u =< 1000000 * v * v
    OBVIOUS
  <2>2. x \in Nat /\ y \in Nat /\ x =< y
    BY <1>3, <1>5, <2>1
  <2> HIDE DEF x, y
  <2>3. RoundedRoot(x, total(c)) \in Nat /\ RoundedRoot(x, total(c)) =< RoundedRoot(y, total(c))
    BY <1>4, <2>2, RootRises
  <2> QED
    BY <2>3 DEF x, y
<1> HIDE DEF root
<1>6. \A n \in M, c \in C : root(n, c) \in Nat
  BY <1>3, <1>5
<1>7. DOMAIN N = M /\ CriteriaOf(N) = C
  <2>1. N \in Matrices(M, C)
    BY <1>2, <1>6 DEF Matrices
  <2> HIDE DEF N
  <2> QED
    BY <2>1, CriteriaOfRows
<1>8. W = [n \in M |-> [c \in C |-> Rounded(root(n, c) * weights[c], 10000)]]
  <2>1. W = [n \in M |-> [c \in C |-> Rounded(N[n][c] * weights[c], 10000)]]
    BY <1>7 DEF WeightMatrix
  <2> QED
    BY <1>2, <2>1
<1> HIDE DEF N, W
<1>9. ASSUME NEW n \in M, NEW m \in M, NEW c \in C, root(n, c) =< root(m, c)
      PROVE  /\ Rounded(root(n, c) * weights[c], 10000) \in Nat
             /\ Rounded(root(n, c) * weights[c], 10000) =< Rounded(root(m, c) * weights[c], 10000)
  <2> DEFINE x == root(n, c)
             y == root(m, c)
             w == weights[c]
  <2>1. x \in Nat /\ y \in Nat /\ x =< y /\ w \in Nat
    BY <1>6, <1>9 DEF Weighing
  <2> HIDE DEF x, y, w
  <2>2. /\ Rounded(x * w, 10000) \in Nat
        /\ Rounded(x * w, 10000) =< Rounded(y * w, 10000)
    BY <2>1, WeightedRises
  <2> QED
    BY <2>2 DEF x, y, w
<1>10. W \in Matrices(M, C)
  <2>1. \A n \in M, c \in C : Rounded(root(n, c) * weights[c], 10000) \in Nat
    BY <1>6, <1>9
  <2> QED
    BY <1>8, <2>1 DEF Matrices
<1>11. ASSUME NEW n \in M, NEW m \in M, NEW c \in C, matrix[n][c] =< matrix[m][c]
       PROVE  W[n][c] =< W[m][c]
  <2>1. root(n, c) =< root(m, c)
    BY <1>5, <1>11
  <2> QED
    BY <1>8, <1>9, <2>1
<1> QED
  BY <1>10, <1>11 DEF N, W
\* The ideal is at least as good as every candidate in every criterion.
LEMMA IdealBounds ==
  ASSUME NEW M, NEW C, IsFiniteSet(M), M # {}, NEW matrix \in Matrices(M, C),
         NEW benefits
  PROVE  LET ideal == CalculateIdealSolution(matrix, benefits)
         IN /\ ideal \in [C -> Nat]
            /\ \A n \in M, c \in C : IF c \in benefits THEN matrix[n][c] =< ideal[c]
                                     ELSE ideal[c] =< matrix[n][c]
<1> DEFINE ideal == CalculateIdealSolution(matrix, benefits)
           values(c) == {matrix[n][c] : n \in M}
<1>1. DOMAIN matrix = M /\ CriteriaOf(matrix) = C
  BY CriteriaOfRows
<1>2. ideal = [c \in C |-> IF c \in benefits THEN Max(values(c)) ELSE Min(values(c))]
  BY <1>1 DEF CalculateIdealSolution
<1>3. ASSUME NEW c \in C
      PROVE  /\ values(c) \subseteq Nat
             /\ Max(values(c)) \in values(c) /\ \A x \in values(c) : x =< Max(values(c))
             /\ Min(values(c)) \in values(c) /\ \A x \in values(c) : Min(values(c)) =< x
  <2>1. values(c) \subseteq Nat /\ values(c) # {}
    BY DEF Matrices
  <2>2. IsFiniteSet(values(c))
    <3> DEFINE column == [n \in M |-> matrix[n][c]]
    <3>1. IsFiniteSet(Range(column))
      BY RangeFinite
    <3> QED
      BY <3>1 DEF Range
  <2> HIDE DEF values
  <2>3. values(c) \subseteq Int
    BY <2>1
  <2>4. Max(values(c)) \in values(c) /\ \A x \in values(c) : Max(values(c)) >= x
    BY <2>1, <2>2, <2>3, MaxIsGreatest
  <2>5. Min(values(c)) \in values(c) /\ \A x \in values(c) : Min(values(c)) =< x
    BY <2>1, <2>2, <2>3, MinIsLeast
  <2> QED
    BY <2>1, <2>3, <2>4, <2>5
<1>4. \A n \in M, c \in C : matrix[n][c] \in values(c)
  OBVIOUS
<1> HIDE DEF values
<1>5. ideal \in [C -> Nat]
  BY <1>2, <1>3
<1> QED
  BY <1>2, <1>3, <1>4, <1>5

\* A candidate that is as good as another in every criterion is as close to the ideal,
\* whatever the weights.
LEMMA BetterIsCloser ==
  ASSUME NEW M, NEW C, IsFiniteSet(M), M # {}, IsFiniteSet(C),
         NEW matrix \in Matrices(M, C), NEW weights, Weighing(weights, C), NEW benefits
  PROVE  LET closeness == ClosenessOf(matrix, weights, benefits)
         IN /\ closeness \in [M -> Nat]
            /\ \A n, m \in M : AsGood(matrix[n], matrix[m], benefits)
                                 => closeness[m] =< closeness[n]
<1> DEFINE W        == WeightMatrix(NormalizeMatrix(matrix), weights)
           ideal    == CalculateIdealSolution(W, benefits)
           negative == CalculateIdealSolution(W, C \ benefits)
           K == [n \in M |-> RelativeCloseness(SeparationMeasure(W[n], ideal),
                                               SeparationMeasure(W[n], negative))]
<1>1. DOMAIN matrix = M /\ CriteriaOf(matrix) = C
  BY CriteriaOfRows
<1>2. /\ W \in Matrices(M, C)
      /\ \A n, m \in M, c \in C : matrix[n][c] =< matrix[m][c] => W[n][c] =< W[m][c]
  BY WeightingKeepsOrder
<1>3. Typed(W, [M -> [C -> Nat]]) = W
  BY <1>2 DEF Typed, Matrices
<1>4. ClosenessOf(matrix, weights, benefits) = Typed(K, [M -> Nat])
  BY <1>1, <1>3 DEF ClosenessOf
<1> HIDE DEF W
<1>5. /\ ideal \in [C -> Nat]
      /\ \A n \in M, c \in C : IF c \in benefits THEN W[n][c] =< ideal[c]
                               ELSE ideal[c] =< W[n][c]
  BY <1>2, IdealBounds
<1>6. /\ negative \in [C -> Nat]
      /\ \A n \in M, c \in C : IF c \in benefits THEN negative[c] =< W[n][c]
                               ELSE W[n][c] =< negative[c]
  BY <1>2, IdealBounds
<1> HIDE DEF ideal, negative
<1>7. \A n \in M : W[n] \in [C -> Nat]
  BY <1>2 DEF Matrices
<1>8. ASSUME NEW n \in M, NEW m \in M, AsGood(matrix[n], matrix[m], benefits)
      PROVE  /\ K[n] \in Nat /\ K[m] =< K[n]
  <2>1. \A c \in C : IF c \in benefits THEN W[m][c] =< W[n][c] ELSE W[n][c] =< W[m][c]
    <3>1. \A c \in C : matrix[n][c] \in Nat /\ matrix[m][c] \in Nat
      BY DEF Matrices
    <3>2. DOMAIN matrix[n] = C
      BY DEF Matrices
    <3>3. \A c \in C : IF c \in benefits THEN matrix[m][c] =< matrix[n][c]
                       ELSE matrix[n][c] =< matrix[m][c]
      BY <1>8, <3>1, <3>2 DEF AsGood
    <3> QED
      BY <1>2, <3>3
  <2>2. \A c \in C : Between(ideal[c], W[n][c], W[m][c])
    BY <1>5, <2>1 DEF Between
  <2>3. \A c \in C : Between(negative[c], W[m][c], W[n][c])
    BY <1>6, <2>1 DEF Between
  <2>4. /\ SeparationMeasure(W[n], ideal) \in Nat /\ SeparationMeasure(W[m], ideal) \in Nat
        /\ SeparationMeasure(W[n], ideal) =< SeparationMeasure(W[m], ideal)
    BY <1>5, <1>7, <2>2, SeparationRises
  <2>5. /\ SeparationMeasure(W[m], negative) \in Nat
        /\ SeparationMeasure(W[n], negative) \in Nat
        /\ SeparationMeasure(W[m], negative) =< SeparationMeasure(W[n], negative)
    BY <1>6, <1>7, <2>3, SeparationRises
  <2> QED
    BY <2>4, <2>5, ClosenessRises
<1>9. K \in [M -> Nat]
  <2>1. \A n \in M : AsGood(matrix[n], matrix[n], benefits)
    BY DEF AsGood, Matrices
  <2>2. \A n \in M : K[n] \in Nat
    BY <1>8, <2>1
  <2> QED
    BY <2>2
<1>10. Typed(K, [M -> Nat]) = K
  BY <1>9 DEF Typed
<1> HIDE DEF K
<1> QED
  BY <1>4, <1>8, <1>9, <1>10
-----------------------------------------------------------------------------
\* As good in every criterion, and better in one.
Dominates(a, b, benefits) == AsGood(a, b, benefits) /\ ~AsGood(b, a, benefits)

\* Nobody is first who is dominated.
Undominated(first, matrix, benefits) ==
  \A m \in first : \A n \in DOMAIN matrix : ~Dominates(matrix[n], matrix[m], benefits)

\* The scores tell a candidate from those it dominates: rounded, two may be equal,
\* and then the order of the list decides.
Telling(matrix, weights, benefits) ==
  LET closeness == ClosenessOf(matrix, weights, benefits)
  IN \A n, m \in DOMAIN matrix :
       Dominates(matrix[n], matrix[m], benefits) => closeness[n] # closeness[m]

\* The first of a ranking, for all values and weights.
LEMMA FirstIsUpward ==
  ASSUME NEW M, NEW C, IsFiniteSet(M), IsFiniteSet(C), NEW matrix \in Matrices(M, C),
         NEW weights, Weighing(weights, C), NEW benefits
  PROVE  LET first == FirstRanked(matrix, weights, benefits)
         IN /\ Upward(first, matrix, benefits)
            /\ Telling(matrix, weights, benefits) => Undominated(first, matrix, benefits)
            /\ M # {} => first # {}
<1> DEFINE closeness == ClosenessOf(matrix, weights, benefits)
           first     == FirstRanked(matrix, weights, benefits)
<1>1. DOMAIN matrix = M
  BY DEF Matrices
<1>2. first = {n \in M : \A m \in M : closeness[m] =< closeness[n]}
  BY <1>1 DEF FirstRanked
<1>3. CASE M = {}
  BY <1>1, <1>2, <1>3 DEF Upward, Undominated
<1>4. CASE M # {}
  <2>1. /\ closeness \in [M -> Nat]
        /\ \A n, m \in M : AsGood(matrix[n], matrix[m], benefits)
                             => closeness[m] =< closeness[n]
    BY <1>4, BetterIsCloser
  <2> HIDE DEF closeness, first
  <2>2. Upward(first, matrix, benefits)
    <3> SUFFICES ASSUME NEW m \in first, NEW n \in M,
                        AsGood(matrix[n], matrix[m], benefits)
                 PROVE  n \in first
      BY <1>1 DEF Upward
    <3>1. closeness[m] =< closeness[n]
      BY <1>2, <2>1
    <3>2. \A k \in M : closeness[k] =< closeness[m]
      BY <1>2
    <3>3. \A k \in M : closeness[k] =< closeness[n]
      BY <1>2, <2>1, <3>1, <3>2
    <3> QED
      BY <1>2, <3>3
  <2>3. Telling(matrix, weights, benefits) => Undominated(first, matrix, benefits)
    <3> SUFFICES ASSUME Telling(matrix, weights, benefits), NEW m \in first, NEW n \in M,
                        Dominates(matrix[n], matrix[m], benefits)
                 PROVE  FALSE
      BY <1>1 DEF Undominated
    <3>1. m \in M /\ closeness[n] =< closeness[m]
      BY <1>2
    <3>2. closeness[m] =< closeness[n]
      BY <2>1, <3>1 DEF Dominates
    <3>3. closeness[n] # closeness[m]
      BY <1>1, <3>1 DEF Telling, closeness
    <3> QED
      BY <2>1, <3>1, <3>2, <3>3
  <2>4. first # {}
    <3>1. IsFiniteSet(Range(closeness)) /\ Range(closeness) # {} /\ Range(closeness) \subseteq Int
      BY <1>4, <2>1, RangeFinite DEF Range
    <3>2. PICK n \in M : closeness[n] = Max(Range(closeness))
      <4>1. Max(Range(closeness)) \in Range(closeness)
        BY <3>1, MaxIsGreatest
      <4> QED
        BY <2>1, <4>1 DEF Range
    <3>3. \A m \in M : closeness[m] =< closeness[n]
      <4> TAKE m \in M
      <4>1. closeness[m] \in Range(closeness)
        BY <2>1 DEF Range
      <4>2. closeness[n] >= closeness[m]
        BY <3>1, <3>2, <4>1, MaxIsGreatest
      <4> QED
        BY <2>1, <4>2
    <3> QED
      BY <1>2, <3>3
  <2> QED
    BY <2>2, <2>3, <2>4 DEF first
<1> QED
  BY <1>3, <1>4

\* An annotation that is there is a count.
LEMMA AnnotationsAreCounts ==
  ASSUME TypeOK, NEW m \in Machines
  PROVE  /\ cycles[m] # Missing => cycles[m] \in Nat
         /\ profile[m] # Missing => profile[m] \in Nat
<1>1. cycles[m] \in Nat \cup {Missing} /\ profile[m] \in Profiles \cup {Missing}
  BY DEF TypeOK
<1>2. Profiles \subseteq Nat
  BY ScalingLoopAssumption
<1> QED
  BY <1>1, <1>2

\* What the scale-up compares are counts.
LEMMA ScaleUpMatrix ==
  ASSUME TypeOK
  PROVE  /\ IsFiniteSet(ScaleUpCandidates) /\ IsFiniteSet(DOMAIN ScaleUpWeights)
         /\ Weighing(ScaleUpWeights, DOMAIN ScaleUpWeights)
         /\ ScaleUpCriteria \in Matrices(ScaleUpCandidates, DOMAIN ScaleUpWeights)
<1>1. IsFiniteSet(ScaleUpCandidates)
  BY RankingAssumption, FS_Subset DEF ScaleUpCandidates
<1>2. \A m \in ScaleUpCandidates : cycles[m] \in Nat /\ profile[m] \in Nat
  BY AnnotationsAreCounts DEF ScaleUpCandidates
<1>3. ScaleUpCriteria \in Matrices(ScaleUpCandidates, DOMAIN ScaleUpWeights)
  BY <1>2 DEF ScaleUpCriteria, Matrices
<1> QED
  BY <1>1, <1>3, RankingAssumption DEF Weighing

\* What the scale-down compares are counts.
LEMMA ScaleDownMatrix ==
  ASSUME TypeOK, NEW planned \in SUBSET on, NEW losses \in Losses
  PROVE  LET M == {n \in planned : profile[n] # Missing}
         IN /\ IsFiniteSet(M) /\ IsFiniteSet(DOMAIN ScaleDownWeights)
            /\ Weighing(ScaleDownWeights, DOMAIN ScaleDownWeights)
            /\ ScaleDownCriteria(planned, losses) \in Matrices(M, DOMAIN ScaleDownWeights)
<1> DEFINE M == {n \in planned : profile[n] # Missing}
<1>1. M \subseteq Machines
  BY DEF TypeOK
<1>2. IsFiniteSet(M)
  BY <1>1, RankingAssumption, FS_Subset
<1>3. \A m \in M : GetPowerCycle(m) \in Nat /\ profile[m] \in Nat
  BY <1>1, AnnotationsAreCounts DEF GetPowerCycle
<1>4. \A m \in M, c \in DOMAIN ScaleDownWeights :
        c \in {"PowerCycle", "EnergyProfile"} \/ losses[m][c] \in Nat
  BY <1>1, RankingAssumption
<1>5. ScaleDownCriteria(planned, losses) \in Matrices(M, DOMAIN ScaleDownWeights)
  BY <1>3, <1>4 DEF ScaleDownCriteria, Matrices
<1> QED
  BY <1>2, <1>5, RankingAssumption DEF Weighing

\* Whoever can be first of the machines to switch on or off, everyone as good in every
\* criterion can be first as well, for all annotations, losses and weights.
THEOREM DominatorsAreFirst == Spec => []NoneOvertaken
<1>1. TypeOK => NoneOvertaken
  <2> SUFFICES ASSUME TypeOK PROVE NoneOvertaken
    OBVIOUS
  <2>1. Upward(FirstRanked(ScaleUpCriteria, ScaleUpWeights, {}), ScaleUpCriteria, {})
    BY ScaleUpMatrix, FirstIsUpward
  <2>2. ASSUME NEW planned \in SUBSET on, NEW losses \in Losses
        PROVE  Upward(FirstRanked(ScaleDownCriteria(planned, losses), ScaleDownWeights,
                                  BenefitCriteriaScaleDown),
                      ScaleDownCriteria(planned, losses), {"EnergyProfile"})
    BY ScaleDownMatrix, FirstIsUpward DEF BenefitCriteriaScaleDown
  <2> QED
    BY <2>1, <2>2 DEF NoneOvertaken
<1> QED
  BY <1>1, Typing, PTL

\* No two candidates of a ranking of this state, one dominating the other, have one score.
ScoresTell ==
  /\ Telling(ScaleUpCriteria, ScaleUpWeights, {})
  /\ \A losses \in Losses :
       Telling(ScaleDownCriteria(on, losses), ScaleDownWeights, {"EnergyProfile"})

\* No machine that can be first is dominated.
DominatedStay ==
  /\ Undominated(FirstRanked(ScaleUpCriteria, ScaleUpWeights, {}), ScaleUpCriteria, {})
  /\ \A losses \in Losses :
       LET criteria == ScaleDownCriteria(on, losses)
       IN Undominated(FirstRanked(criteria, ScaleDownWeights, BenefitCriteriaScaleDown),
                      criteria, {"EnergyProfile"})

\* A dominated candidate can only be chosen where the rounding made its score equal to
\* that of the candidate that dominates it.
THEOREM OnlyTiesDominated == Spec => [](ScoresTell => DominatedStay)
<1>1. TypeOK /\ ScoresTell => DominatedStay
  <2> SUFFICES ASSUME TypeOK, ScoresTell PROVE DominatedStay
    OBVIOUS
  <2>1. Undominated(FirstRanked(ScaleUpCriteria, ScaleUpWeights, {}), ScaleUpCriteria, {})
    BY ScaleUpMatrix, FirstIsUpward DEF ScoresTell
  <2>2. ASSUME NEW losses \in Losses
        PROVE  Undominated(FirstRanked(ScaleDownCriteria(on, losses), ScaleDownWeights,
                                       BenefitCriteriaScaleDown),
                           ScaleDownCriteria(on, losses), {"EnergyProfile"})
    BY ScaleDownMatrix, FirstIsUpward DEF ScoresTell, BenefitCriteriaScaleDown
  <2> QED
    BY <2>1, <2>2 DEF DominatedStay
<1> QED
  BY <1>1, Typing, PTL

\* As long as a machine can be switched on, the ranking names one, and a plan with an
\* energy annotation is enough for one to be switched off: only a lack of candidates
\* makes the selection fail.
THEOREM RankingAnswers ==
  Spec => [](/\ ScaleUpCandidates # {} => FirstRanked(ScaleUpCriteria, ScaleUpWeights, {}) # {}
             /\ \A planned \in SUBSET on, losses \in Losses :
                  (\E m \in planned : profile[m] # Missing)
                    => FirstRanked(ScaleDownCriteria(planned, losses), ScaleDownWeights,
                                   BenefitCriteriaScaleDown) # {})
<1>1. TypeOK /\ ScaleUpCandidates # {} => FirstRanked(ScaleUpCriteria, ScaleUpWeights, {}) # {}
  BY ScaleUpMatrix, FirstIsUpward
<1>2. TypeOK => \A planned \in SUBSET on, losses \in Losses :
        (\E m \in planned : profile[m] # Missing)
          => FirstRanked(ScaleDownCriteria(planned, losses), ScaleDownWeights,
                         BenefitCriteriaScaleDown) # {}
  <2> SUFFICES ASSUME TypeOK, NEW planned \in SUBSET on, NEW losses \in Losses,
                      NEW m \in planned, profile[m] # Missing
               PROVE  FirstRanked(ScaleDownCriteria(planned, losses), ScaleDownWeights,
                                  BenefitCriteriaScaleDown) # {}
    OBVIOUS
  <2>1. {n \in planned : profile[n] # Missing} # {}
    OBVIOUS
  <2> QED
    BY <2>1, ScaleDownMatrix, FirstIsUpward
<1> QED
  BY <1>1, <1>2, Typing, PTL
=============================================================================
