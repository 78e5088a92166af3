---------------------------- MODULE SoftConstraints ----------------------------
(***************************************************************************)
(* What a migration plan costs: the four preferences that it may break are *)
(* summed up into the criteria that the ranking of the nodes compares.     *)
(* The two affinity criteria are the mean over the plan and its            *)
(* alternative, rounded up, the other two look at the plan alone.          *)
(***************************************************************************)
EXTENDS MigrationPlan

\* An order without placement is taken to end like the plan.
AltNodeOf == IF alternative = Unplaced THEN plan ELSE alternative

MeanOfOrders(lost) == (lost + 1) \div 2

-----------------------------------------------------------------------------
NodeAffinityLoss(here, there) == IF here > there THEN here - there ELSE 0

\* Mutant: what one pod gains makes up for what another one loses.
NetNodeAffinity ==
  LET here  == [p \in Moved |-> 2 * PreferredNodeAffinityWeight(p, Drained)]
      there == [p \in Moved |-> PreferredNodeAffinityWeight(p, plan[p])
                                + PreferredNodeAffinityWeight(p, AltNodeOf[p])]
  IN NodeAffinityLoss(SumFunction(here), SumFunction(there)) \div 2

GetPreferredNodeAffinity ==
  LET Loss(p, n) == NodeAffinityLoss(PreferredNodeAffinityWeight(p, Drained),
                                     PreferredNodeAffinityWeight(p, n))
      both == [p \in Moved |-> Loss(p, plan[p]) + Loss(p, AltNodeOf[p])]
  IN MeanOfOrders(SumFunction(both))

\* Who shares the drained node, the pods that are not moved included.
ExistingPods == Moved \cup {r \in ResidentsOn(Drained) : ~spec[r].system}

\* A pod that is not in the plan disappears with the node.
StillTogether(p, q, to, key) ==
  {p, q} \subseteq Moved /\ SameTopologyDomain(to[p], to[q], key)

PreferredPairs ==
  {pair \in UNION {{p} \X ExistingPods \X spec[p].follows : p \in ExistingPods} :
     /\ pair[1] # pair[2]
     /\ PodMatchesAffinityTerm(spec[pair[1]], spec[pair[2]], pair[3])}

LostIn(to, pair) ==
  IF StillTogether(pair[1], pair[2], to, pair[3].key) THEN 0 ELSE pair[3].weight

\* Mutant: only the plan is scored, as if its order were the scheduler's.
AffinityOfPlan ==
  SumFunction([pair \in PreferredPairs |-> LostIn(plan, pair)])

GetPreferredInterPodAffinity ==
  LET both == [pair \in PreferredPairs |-> LostIn(plan, pair) + LostIn(AltNodeOf, pair)]
  IN MeanOfOrders(SumFunction(both))

\* Mutant: the pods that arrive together are not compared with each other.
ResidentsAt(p) == {r \in ResidentsOn(plan[p]) : ~spec[r].system}

\* The pods that share p's destination, those that come along included.
Neighbours(p) == Occupants(plan, plan[p]) \ {p}

Shunned(p, q) ==
  LET matched == {term \in spec[p].shuns : PodMatchesAffinityTerm(spec[p], spec[q], term)}
  IN SumFunction([term \in matched |-> term.weight])

GetPreferredInterPodAntiAffinity ==
  LET Against(p) == SumFunction([q \in Neighbours(p) |-> Shunned(p, q)])
  IN SumFunction([p \in Moved |-> Against(p)])

-----------------------------------------------------------------------------
DistinctConstraints ==
  {[key |-> c.key, apps |-> c.apps] : c \in UNION {spec[p].spread : p \in Moved}}

\* Mutant: an improvement elsewhere makes up for a degradation.
NetDegradation(constraint) ==
  CalculateRealSkew(Moved, constraint) - CalculateRealSkew({}, constraint)

Degradation(constraint) ==
  Max({0, CalculateRealSkew(Moved, constraint) - CalculateRealSkew({}, constraint)})

\* A constraint that several pods have is counted once, hard or soft.
GetTopologySpreadScore == SumFunction([c \in DistinctConstraints |-> Degradation(c)])

-----------------------------------------------------------------------------
(***************************************************************************)
(* A criterion is zero exactly when there is nothing to complain about:    *)
(* the ranking may prefer a node for costing nothing, so that a loss that  *)
(* is summed, halved or deduplicated away would go unnoticed.              *)
(***************************************************************************)
\* Node affinity: no moved pod prefers the drained node to the one it goes to, in
\* either order.
NodeAffinityPriced ==
  stage = "planned" =>
    (GetPreferredNodeAffinity = 0
       <=> \A at \in {plan, alternative} \ {Unplaced} : \A p \in Moved :
             PreferredNodeAffinityWeight(p, at[p]) >= PreferredNodeAffinityWeight(p, Drained))

\* Inter-pod affinity: every pod that had a preferred partner on the drained node
\* finds it in the same domain again, whichever of the two orders the scheduler
\* takes; a partner that is not moved is lost.
PartnersPriced ==
  stage = "planned" =>
    (GetPreferredInterPodAffinity = 0
       <=> \A at \in {plan, alternative} \ {Unplaced} :
             \A p \in ExistingPods : \A q \in ExistingPods \ {p} : \A term \in spec[p].follows :
               PodMatchesAffinityTerm(spec[p], spec[q], term)
                 => /\ p \in Moved /\ q \in Moved
                    /\ SameTopologyDomain(at[p], at[q], term.key))

\* Inter-pod anti-affinity: no moved pod comes to a node with a pod it would rather
\* not be with, also when that one comes with it.
CrowdingPriced ==
  stage = "planned" =>
    (GetPreferredInterPodAntiAffinity = 0
       <=> \A p \in Moved : \A q \in Pods \ {p} :
             RunsOn(q) = plan[p] /\ ~spec[q].system
               => \A term \in spec[p].shuns : ~PodMatchesAffinityTerm(spec[p], spec[q], term))

\* Topology spread: no constraint of a moved pod, hard or soft, gets two domains
\* that differ by more than any two did before.
SpreadPriced ==
  stage = "planned" =>
    (GetTopologySpreadScore = 0
       <=> \A p \in Moved : \A c \in spec[p].spread : \A m, n \in Labelled(c.key) :
             \E k, l \in Labelled(c.key) :
               Imbalance(m, n, c, RunsOn) <= Imbalance(k, l, c, RunsNow))
=============================================================================
