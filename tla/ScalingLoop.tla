------------------------------ MODULE ScalingLoop ------------------------------
(***************************************************************************)
(* The closed loop: the forecast asks for one machine more or less, the    *)
(* ranking says which one, and the load that the next forecast sees is     *)
(* spread over the machines that are left.  A step is a whole request, as  *)
(* there is one at a time; what may go wrong while it is carried out is in *)
(* Operator, what delays it in Forecaster.                                 *)
(***************************************************************************)
EXTENDS ForecastDecision, NodeRanking

CONSTANTS
  MinNodes, MaxNodes, \* the bounds of cluster-configuration-parameters
  InitiallyOn,        \* machines that are Ready at the start
  Demands,            \* what the pods need, in hundredths of a core
  Bands,              \* Thresholds_min and Thresholds_max
  Fleets,             \* initial annotations of the machines
  Profiles,           \* values of the energy annotation
  Losses,             \* what the pods lose by each machine's migration plan
  ScaleDownWeights,   \* selection-weights-scale-down, for the selectionProfile
  ScaleUpWeights,     \* selection-weights-scale-up
  Missing,            \* the annotation is not there
  MaxChanges,         \* bound: changes of the demand or of a profile
  MaxBlind            \* bound: requests decided on an incomplete view

ASSUME ScalingLoopAssumption ==
  /\ InitiallyOn \subseteq Machines
  /\ Demands \subseteq Nat /\ Bands \subseteq [min : Nat, max : Nat]
  /\ Profiles \subseteq Nat /\ Missing \notin Nat
  /\ Fleets \subseteq [cycles  : [Machines -> Nat \cup {Missing}],
                       profile : [Machines -> Profiles \cup {Missing}]]
  /\ MaxChanges \in Nat /\ MaxBlind \in Nat

\* What the ranking reads is counted: the criteria the pods of a machine add up to,
\* and weights, of which none is negative.
ASSUME RankingAssumption ==
  /\ IsFiniteSet(Machines)
  /\ \A weights \in {ScaleDownWeights, ScaleUpWeights} :
       /\ IsFiniteSet(DOMAIN weights)
       /\ \A c \in DOMAIN weights : weights[c] \in Nat
  /\ \A losses \in Losses, m \in Machines, c \in DOMAIN ScaleDownWeights :
       c \in {"PowerCycle", "EnergyProfile"} \/ losses[m][c] \in Nat

VARIABLES
  on,        \* machines that are Ready and schedulable
  demand,    \* what the pods need now
  band,      \* the thresholds
  cycles,    \* the power-cycle annotation
  profile,   \* the energy annotation
  caughtUp,  \* whether the predictions show the whole load on the machines on
  changes, blind,  \* counters of the bounds
  lastMove,  \* history: the last move of this demand with a complete view
  retired    \* history: the machines DREEM switched off

settings    == <<demand, band>>
annotations == <<cycles, profile>>
bounds      == <<changes, blind>>
vars == <<on, settings, annotations, caughtUp, bounds, lastMove, retired>>

FlagOK == caughtUp \in BOOLEAN

TypeOK ==
  /\ FlagOK
  /\ on \in SUBSET Machines /\ retired \in SUBSET Machines
  /\ demand \in Demands /\ band \in Bands
  /\ cycles \in [Machines -> Nat \cup {Missing}]
  /\ profile \in [Machines -> Profiles \cup {Missing}]
  /\ changes \in 0..MaxChanges /\ blind \in 0..MaxBlind
  /\ lastMove \in {"none", "up", "down"}

Init ==
  /\ on = InitiallyOn /\ demand \in Demands /\ band \in Bands
  /\ \E fleet \in Fleets : cycles = fleet.cycles /\ profile = fleet.profile
  /\ caughtUp = TRUE
  /\ changes = 0 /\ blind = 0
  /\ lastMove = "none" /\ retired = {}

-----------------------------------------------------------------------------
\* The forecast has the series of all machines that are on, or it sees some of
\* them, or also some that are off, with whatever load their series show.
Predicts(label) ==
  \/ /\ caughtUp
     /\ EvaluatePredictedCPU(on, demand, band) = label
     /\ UNCHANGED blind
  \/ /\ ~caughtUp
     /\ blind < MaxBlind /\ blind' = blind + 1
     /\ label \in {EvaluatePredictedCPU(seen, used, band) :
                     seen \in SUBSET Machines, used \in Demands}

\* What becomes of the history when a machine is moved.
Recorded(move) == lastMove' = IF caughtUp THEN move ELSE "none"

\* The machines ApplySoftConstraintsScaleUp compares.
ScaleUpCandidates ==
  {m \in Machines \ on : cycles[m] # Missing /\ profile[m] # Missing}

ScaleUpCriteria ==
  [m \in ScaleUpCandidates |->
     [c \in DOMAIN ScaleUpWeights |->
        IF c = "PowerCycle" THEN cycles[m] ELSE profile[m]]]

ScaleUp(m) ==
  /\ Cardinality(on) < MaxNodes
  /\ Predicts(1) /\ Recorded("up")
  /\ m \in FirstRanked(ScaleUpCriteria, ScaleUpWeights, {})
  /\ on' = on \cup {m} /\ retired' = retired \ {m}
  /\ cycles' = [cycles EXCEPT ![m] = @ + 1]
  /\ caughtUp' = FALSE
  /\ UNCHANGED <<settings, profile, changes>>

-----------------------------------------------------------------------------
GetPowerCycle(m) == IF cycles[m] = Missing THEN 0 ELSE cycles[m]

\* Mutant: a missing annotation is only reported as 0.
CountsOnly(planned) == cycles

\* GetPowerCycle writes the annotation of a candidate that lacks it.
PowerCyclesWritten(planned) ==
  [m \in Machines |-> IF m \in planned THEN GetPowerCycle(m) ELSE cycles[m]]

\* The criteria of the candidates whose energy annotation is there.
ScaleDownCriteria(planned, losses) ==
  [m \in {n \in planned : profile[n] # Missing} |->
     [c \in DOMAIN ScaleDownWeights |->
        IF c = "PowerCycle" THEN GetPowerCycle(m)
        ELSE IF c = "EnergyProfile" THEN profile[m] ELSE losses[m][c]]]

\* Mutant: consumption is a cost whatever the direction.
AllCosts == {}

BenefitCriteriaScaleDown == {"EnergyProfile"}

\* The candidates are the machines with a migration plan whose criteria could be
\* read.  Those without an energy annotation drop out after the count is written.
ScaleDown(planned, losses) ==
  /\ Cardinality(on) > MinNodes
  /\ Predicts(-1) /\ Recorded("down")
  /\ planned \subseteq on
  /\ cycles' = PowerCyclesWritten(planned)
  /\ \E m \in FirstRanked(ScaleDownCriteria(planned, losses),
                          ScaleDownWeights, BenefitCriteriaScaleDown) :
       on' = on \ {m} /\ retired' = retired \cup {m}
  /\ caughtUp' = FALSE
  /\ UNCHANGED <<settings, profile, changes>>

\* No candidate is left, and the request fails.
NothingToSwitchOff(planned) ==
  /\ Cardinality(on) > MinNodes
  /\ Predicts(-1)
  /\ planned \subseteq on /\ \A m \in planned : profile[m] = Missing
  /\ cycles' = PowerCyclesWritten(planned)
  /\ UNCHANGED <<on, settings, profile, caughtUp, changes, lastMove, retired>>

-----------------------------------------------------------------------------
CatchUp ==
  /\ ~caughtUp /\ caughtUp' = TRUE
  /\ UNCHANGED <<on, settings, annotations, bounds, lastMove, retired>>

DemandChanges(d) ==
  /\ d # demand /\ demand' = d
  /\ changes < MaxChanges /\ changes' = changes + 1
  /\ lastMove' = "none"
  /\ UNCHANGED <<on, band, annotations, caughtUp, blind, retired>>

\* The profile updater writes the annotation of a machine.
Reprofile(m, p) ==
  /\ p # profile[m] /\ profile' = [profile EXCEPT ![m] = p]
  /\ changes < MaxChanges /\ changes' = changes + 1
  /\ UNCHANGED <<on, settings, cycles, caughtUp, blind, lastMove, retired>>

SkipsAtMostOne(planned) == Cardinality(on \ planned) <= 1

Next ==
  \/ \E m \in Machines : ScaleUp(m) \/ \E p \in Profiles : Reprofile(m, p)
  \/ \E planned \in SUBSET on :
       /\ SkipsAtMostOne(planned)
       /\ NothingToSwitchOff(planned) \/ \E losses \in Losses : ScaleDown(planned, losses)
  \/ CatchUp
  \/ \E d \in Demands : DemandChanges(d)

\* With a complete view, ScaleUp is enabled.
MachineChosen ==
  /\ caughtUp /\ EvaluatePredictedCPU(on, demand, band) = 1
  /\ Cardinality(on) < MaxNodes
  /\ FirstRanked(ScaleUpCriteria, ScaleUpWeights, {}) # {}

(***************************************************************************)
(* Series fill up as time passes, and the forecaster runs once in a period *)
(* and its requests end: weak fairness of ScaleUp, with its condition      *)
(* written out.                                                            *)
(***************************************************************************)
Fairness ==
  /\ WF_vars(CatchUp)
  /\ <>[]MachineChosen => []<><<\E m \in Machines : ScaleUp(m)>>_vars

Spec == Init /\ [][Next]_vars
FairSpec == Spec /\ Fairness

-----------------------------------------------------------------------------
Raised  == on' # on /\ on \subseteq on'
Lowered == on' # on /\ on' \subseteq on

\* Two moves with a complete view and the same demand never undo each other,
\* whichever machines they are about, for every pair of thresholds: also the
\* defaults of ForecastParams, whose minimum is above their maximum.
NoFlapping ==
  [][caughtUp => /\ Raised  => lastMove # "down"
                 /\ Lowered => lastMove # "up"]_vars

\* A machine that DREEM switched off can be switched on again: it has the two
\* annotations without which the ranking passes over it.
Recoverable == retired \subseteq ScaleUpCandidates

\* At least as good in every criterion.
AsGood(a, b, benefits) ==
  \A c \in DOMAIN a : IF c \in benefits THEN a[c] >= b[c] ELSE a[c] <= b[c]

\* Nobody is first without those who are as good as he in every criterion.
Upward(first, matrix, benefits) ==
  \A m \in first : \A n \in DOMAIN matrix :
    AsGood(matrix[n], matrix[m], benefits) => n \in first

\* In both directions and whichever migration plans are missing, no rounding puts
\* a machine above one that is as good in every criterion.  Where it makes their
\* scores equal both are first, and the order of the list decides.
NoneOvertaken ==
  /\ Upward(FirstRanked(ScaleUpCriteria, ScaleUpWeights, {}), ScaleUpCriteria, {})
  /\ \A planned \in SUBSET on, losses \in Losses :
       LET criteria == ScaleDownCriteria(planned, losses)
       IN Upward(FirstRanked(criteria, ScaleDownWeights, BenefitCriteriaScaleDown),
                 criteria, {"EnergyProfile"})

\* However the demand and the view changed, in the end the cluster is not
\* overloaded while a machine that could be switched on is off.
Relieved ==
  <>[]~(/\ Overloaded(on, demand, band) /\ Cardinality(on) < MaxNodes
        /\ ScaleUpCandidates # {})
=============================================================================
