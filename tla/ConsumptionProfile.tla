-------------------------- MODULE ConsumptionProfile --------------------------
(***************************************************************************)
(* The job that scores the workers by the power they would draw for the    *)
(* cluster's workload (WAP): it merges the power levels of the last window *)
(* into those kept in a ConfigMap, fits a curve to them, and writes the    *)
(* scores as annotations, which the operator ranks the nodes by.           *)
(*                                                                         *)
(* Utilization is a level in 0..Top.  Power is counted in fractions of a   *)
(* watt small enough for every average below to be exact before the code   *)
(* rounds it.                                                              *)
(***************************************************************************)
EXTENDS PowerCurve, SequencesExt

CONSTANTS
  Nodes,        \* the workers
  CoresOf,      \* logical CPUs of a node
  Unit,         \* the unit of a reading
  Hundredth, Thousandth,  \* of a watt
  Stored,       \* the ConfigMap's contents a behaviour may start with
  Instants,     \* what the exporters and the BMCs may report at an instant
  Span,         \* instants in the observation window
  MaxSamples,   \* bound: instants in a behaviour
  FaultKinds,   \* the faults that may happen
  MaxFaults     \* bound: faults in a behaviour

Off == [cpu |-> Unknown, watts |-> Unknown]  \* a node that is powered off
NoProfile == [n \in Nodes |-> [capacity |-> Unknown,
                               levels   |-> [u \in Levels |-> Unknown]]]

\* A machine has a core at least.
Entry == [capacity : (Nat \ {0}) \cup {Unknown}, levels : [Levels -> Nat \cup {Unknown}]]

ASSUME ProfileAssumption ==
  /\ IsFiniteSet(Nodes) /\ Stored \subseteq [Nodes -> Entry]
  /\ CoresOf \in [Nodes -> Nat \ {0}] /\ Unit \in Nat \ {0}
  /\ Thousandth \in Nat \ {0} /\ Hundredth = 10 * Thousandth
  /\ \A instant \in Instants, n \in Nodes :
       instant[n] = Off \/ (/\ instant[n].cpu \in Levels
                           /\ instant[n].watts \in Nat \cup {Unknown})
  /\ Span \in Nat \ {0} /\ MaxSamples \in Nat /\ MaxFaults \in Nat
  /\ FaultKinds \subseteq {"api", "lost", "crash"}

VARIABLES
  window,    \* what Prometheus holds of the observation window, oldest first
  profile,   \* the contents of the ConfigMap, NoProfile while it does not exist
  score,     \* the consumption-profile annotation of a node
  step,      \* where the job is
  usage,     \* the window the job has queried
  loaded,    \* the profile it has loaded, then the merged one
  wap,       \* the scores it has computed
  todo,      \* nodes it has still to annotate
  samples, faults,
  missed     \* history: the nodes the last run could not annotate

job   == <<usage, loaded, wap, todo>>
store == <<profile, score>>
vars  == <<window, store, step, job, samples, faults, missed>>

Steps == {"idle", "load", "compute", "save", "annotate"}

\* The type invariant.
TypeOK ==
  /\ step \in Steps
  /\ window \in Seq(Instants) /\ Len(window) = Span
  /\ usage \in Seq(Instants) /\ Len(usage) =< Span
  /\ profile \in [Nodes -> Entry] /\ loaded \in [Nodes -> Entry]
  /\ score \in [Nodes -> Nat \cup {Unknown}] /\ wap \in [Nodes -> Nat \cup {Unknown}]
  /\ todo \subseteq Nodes /\ missed \subseteq Nodes
  /\ samples \in 0..MaxSamples /\ faults \in 0..MaxFaults

-----------------------------------------------------------------------------
\* round: to the nearest multiple of grain, of two the even one.
Rounded(p, grain) ==
  LET q == p \div grain
      r == p % grain
  IN  IF 2 * r > grain \/ (2 * r = grain /\ q % 2 = 1) THEN (q + 1) * grain
                                                      ELSE q * grain

\* Mutant: a sample without a reading is not discarded.
PowerOfAllSamples(seen, n, u) ==
  LET at == {t \in DOMAIN seen : seen[t][n].cpu = u}
  IN  IF at = {} THEN Unknown
      ELSE SumFunction([t \in at |-> seen[t][n].watts * Unit]) \div Cardinality(at)

\* get_power_per_level: the mean power of the instants a node spent at level u,
\* of those with both readings.
PowerPerLevel(seen, n, u) ==
  LET at == {t \in DOMAIN seen : seen[t][n].cpu = u /\ seen[t][n].watts # Unknown}
  IN  IF at = {} THEN Unknown
      ELSE SumFunction([t \in at |-> seen[t][n].watts * Unit]) \div Cardinality(at)

\* merge_power_levels, for one node.
MergePowerLevels(old, new) ==
  [u \in Levels |-> IF new[u] # Unknown THEN new[u] ELSE old[u]]

-----------------------------------------------------------------------------
\* The active nodes of an instant whose capacity is known.
ActiveAt(instant, capacity) ==
  {n \in Nodes : instant[n].cpu # Unknown /\ capacity[n] # Unknown}

\* Mutant: the demand on a node is the node's own.
OwnUtilization(instant, capacity, n) == Max({0, instant[n].cpu})

\* get_demand_per_active_node and get_induced_utilization, floored to a level:
\* the utilization of a cluster of copies of n under the demand of instant.
InducedUtilization(instant, capacity, n) ==
  LET active == ActiveAt(instant, capacity)
      busy   == SumFunction([j \in active |-> instant[j].cpu * capacity[j]])
  IN  Min({Top, busy \div (Cardinality(active) * capacity[n])})

\* calculate_wap over get_workload_distribution, for a node with a curve.
WapOf(seen, capacity, n, curve) ==
  LET known == {t \in DOMAIN seen : ActiveAt(seen[t], capacity) # {}}
  IN  IF known = {} THEN Unknown
      ELSE LET drawn == [t \in known |->
                           curve[InducedUtilization(seen[t], capacity, n)]]
           IN  Rounded(SumFunction(drawn) \div Cardinality(known), Thousandth)

CapacityIn(entries) == [n \in Nodes |-> entries[n].capacity]
Scorable(entries) ==
  {n \in Nodes : Observed(entries[n].levels) # {} /\ entries[n].capacity # Unknown}

Waps(seen, entries) ==
  [n \in Nodes |->
     IF n \in Scorable(entries)
     THEN WapOf(seen, CapacityIn(entries), n, BuildPowerCurve(entries[n].levels))
     ELSE Unknown]

-----------------------------------------------------------------------------
Init ==
  /\ window \in [1..Span -> Instants]
  /\ profile \in Stored
  /\ score = [n \in Nodes |-> Unknown]
  /\ step = "idle" /\ usage = <<>> /\ loaded = NoProfile
  /\ wap = [n \in Nodes |-> Unknown] /\ todo = {}
  /\ samples = 0 /\ faults = 0 /\ missed = {}

\* "api": a call fails without effect.  "lost": it takes effect and returns an
\* error.  "crash": the pod of the job dies.
Fault(kind) ==
  /\ kind \in FaultKinds /\ faults < MaxFaults
  /\ faults' = faults + 1

\* A job that ends, well or not, forgets all but what it has missed.
Forget ==
  /\ step' = "idle" /\ usage' = <<>> /\ loaded' = NoProfile
  /\ wap' = [n \in Nodes |-> Unknown] /\ todo' = {}

\* Time goes on between the runs of the job.
Sample ==
  /\ step = "idle" /\ samples < MaxSamples /\ samples' = samples + 1
  /\ \E instant \in Instants : window' = Append(Tail(window), instant)
  /\ UNCHANGED <<store, step, job, faults, missed>>

\* A window without a CPU sample ends the job.
QueryRange ==
  /\ step = "idle"
  /\ \E t \in DOMAIN window, n \in Nodes : window[t][n].cpu # Unknown
  /\ step' = "load" /\ usage' = window /\ missed' = {}
  /\ UNCHANGED <<window, store, loaded, wap, todo, samples, faults>>

\* Mutant: any error is taken for a ConfigMap that does not exist yet.
LoadsOptimistically ==
  /\ step' = "compute"
  /\ \/ loaded' = profile /\ UNCHANGED faults
     \/ loaded' = NoProfile /\ Fault("api")
  /\ UNCHANGED <<usage, wap, todo>>

\* load_node_profiles: 404 is an empty profile, another error ends the job.
LoadNodeProfiles ==
  \/ /\ step' = "compute" /\ loaded' = profile
     /\ UNCHANGED <<usage, wap, todo, faults>>
  \/ Forget /\ Fault("api")

Load ==
  /\ step = "load" /\ LoadNodeProfiles
  /\ UNCHANGED <<window, store, samples, missed>>

\* Mutant: only the nodes that export metrics now have a capacity.
LiveCapacity(n) == IF Last(window)[n].cpu # Unknown THEN CoresOf[n] ELSE Unknown

\* The stored capacity, updated with the live core count.
Capacity(n) ==
  IF Last(window)[n].cpu # Unknown THEN CoresOf[n] ELSE loaded[n].capacity

Merged ==
  [n \in Nodes |->
     [capacity |-> Capacity(n),
      levels   |-> MergePowerLevels(loaded[n].levels,
                     [u \in Levels |-> PowerPerLevel(usage, n, u)])]]

Compute ==
  /\ step = "compute" /\ step' = "save"
  /\ loaded' = Merged
  /\ wap' = Waps(usage, loaded')
  /\ UNCHANGED <<window, store, usage, todo, samples, faults, missed>>

\* The entries as they are written, the levels rounded.
Saved(entries) ==
  [n \in Nodes |->
     [entries[n] EXCEPT !.levels =
        [u \in Levels |-> IF @[u] = Unknown THEN Unknown
                                           ELSE Rounded(@[u], Hundredth)]]]

\* save_node_profiles: replace, or create after a 404.
Save ==
  /\ step = "save"
  /\ \/ /\ profile' = Saved(loaded) /\ step' = "annotate"
        /\ todo' = {n \in Nodes : wap[n] # Unknown}
        /\ UNCHANGED <<usage, loaded, wap, faults>>
     \/ profile' = Saved(loaded) /\ Forget /\ Fault("lost")
     \/ UNCHANGED profile /\ Forget /\ Fault("api")
  /\ UNCHANGED <<window, score, samples, missed>>

\* update_consumption_profile: a node that cannot be patched is skipped.
PatchNode(n) ==
  /\ step = "annotate" /\ n \in todo /\ todo' = todo \ {n}
  /\ \/ /\ score' = [score EXCEPT ![n] = wap[n]]
        /\ UNCHANGED <<missed, faults>>
     \/ UNCHANGED score /\ missed' = missed \cup {n} /\ Fault("api")
  /\ UNCHANGED <<window, profile, step, usage, loaded, wap, samples>>

Done ==
  /\ step = "annotate" /\ todo = {} /\ Forget
  /\ UNCHANGED <<window, store, samples, faults, missed>>

Crash ==
  /\ step # "idle" /\ Forget /\ Fault("crash")
  /\ UNCHANGED <<window, store, samples, missed>>

Next ==
  \/ Sample \/ QueryRange \/ Load \/ Compute \/ Save
  \/ (\E n \in Nodes : PatchNode(n)) \/ Done \/ Crash

Spec == Init /\ [][Next]_vars

-----------------------------------------------------------------------------
\* The powers learnt in earlier windows are never lost, nor is a capacity: not
\* to a run that fails, dies or cannot read what is stored
\* (load_node_profiles, merge_power_levels, save_node_profiles).
LevelsKept ==
  [][\A n \in Nodes :
       /\ Observed(profile[n].levels) \subseteq Observed(profile'[n].levels)
       /\ profile[n].capacity # Unknown => profile'[n].capacity # Unknown]_vars

\* Whatever levels the windows happened to visit and whatever was measured,
\* isotonic_regression, which pools neighbours as it goes, ends with the
\* least-squares fit, a non-decreasing power curve.
CurveIsotonic ==
  step = "save" =>
    \A n \in Nodes :
      LET power == [u \in Observed(loaded[n].levels) |-> loaded[n].levels[u]]
      IN  IsotonicRegression(power) = IsotonicFit(power)

Annotated ==
  IF step = "annotate"
  THEN {n \in Nodes : wap[n] # Unknown} \ (todo \cup missed) ELSE {}

\* The scores of one run reflect the hardware only: a node of no smaller
\* capacity that draws no more power at any level never scores worse, whatever
\* each of them was running (the file's header, calculate_wap).  Both curves are
\* those of the merged levels; the ConfigMap has these rounded.
HardwareOnly ==
  \A n, m \in Annotated :
    LET P(k) == BuildPowerCurve(loaded[k].levels) IN
    (/\ loaded[n].capacity >= loaded[m].capacity
     /\ \A u \in Levels : P(n)[u] =< P(m)[u])
    => score[n] =< score[m]

\* A node whose power and capacity earlier runs have stored is scored, powered
\* off or not, by every run whose window holds some known demand (the stored
\* capacities of main).
OffNodesScored ==
  [][step = "save" /\ step' = "annotate"
       /\ (\E t \in DOMAIN usage : ActiveAt(usage[t], CapacityIn(profile)) # {})
     => Scorable(profile) \subseteq todo']_vars
=============================================================================
