----------------------------- MODULE MCScalingLoop -----------------------------
(***************************************************************************)
(* Instances of ScalingLoop for TLC: a small, a middle and a large         *)
(* machine, of which Prometheus does not know the second.                  *)
(***************************************************************************)
EXTENDS ScalingLoop, TLC

MCCores    == "s" :> 2 @@ "l" :> 6
MCCapacity == [S \in SUBSET Machines |-> MapThenSumSet(CoresOf, S)]

MCBands == {[min |-> 40, max |-> 60], [min |-> 65, max |-> 45]}

Fleet(s, m, l) ==
  [cycles  |-> "s" :> s[1] @@ "m" :> m[1] @@ "l" :> l[1],
   profile |-> "s" :> s[2] @@ "m" :> m[2] @@ "l" :> l[2]]

MCFleets ==
  { Fleet(<<0, 3>>, <<1, 3>>, <<0, 9>>),
    Fleet(<<Missing, 9>>, <<0, 3>>, <<1, 3>>),
    Fleet(<<0, 9>>, <<Missing, 3>>, <<0, Missing>>) }

\* The pods lose most by the machine in the middle: so little more that the
\* rounded scores do not show it, or much more.
MCLosses ==
  { [m \in Machines |-> "PreferredNodeAffinity" :> (IF m = "m" THEN 11 ELSE 10)
                     @@ "NumberOfRunningPods" :> 2],
    [m \in Machines |-> "PreferredNodeAffinity" :> 0
                     @@ "NumberOfRunningPods" :> (IF m = "m" THEN 7 ELSE 1)] }

\* The profile "energy" of the weights for a scale-down, the other pod criteria in
\* one, and "neutral" of those for a scale-up.
MCScaleDownWeights ==
  "EnergyProfile" :> 7500 @@ "PowerCycle" :> 1500
    @@ "PreferredNodeAffinity" :> 53 @@ "NumberOfRunningPods" :> 946
MCScaleUpWeights == "EnergyProfile" :> 5000 @@ "PowerCycle" :> 5000
=============================================================================
