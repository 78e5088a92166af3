----------------------------- MODULE MigrationPlan -----------------------------
(***************************************************************************)
(* BuildMigrationPlan: where the pods of a node that is to be drained will *)
(* go.  The plan imitates the kube-scheduler, pod by pod, in two orders;   *)
(* the first order makes the plan, the second one the alternative that     *)
(* the affinity criteria score as well.  Nodes and pods are numbers, in    *)
(* the order in which their lists hold them.                               *)
(***************************************************************************)
EXTENDS Integers, Sequences, FiniteSets, FiniteSetsExt

CONSTANTS
  Nodes,        \* all nodes of the cluster
  Drained,      \* the node whose pods move
  Candidates,   \* the nodes they may move to
  Moved,        \* the migratable pods of Drained
  Residents,    \* the other pods of the cluster
  Host,         \* the node of each resident
  Name,         \* the name of each pod, its namespace left out
  Kinds,        \* what a moved pod may be
  ResidentKinds,\* what a resident may be
  Allocatable,  \* cpu and mem of each candidate
  Unit,         \* a common multiple of all these, to make fractions integers
  Labels,       \* the labels of each node, a function from keys to values
  Taints,       \* the taints of each node
  Nowhere       \* a pod without destination

\* selectNodeScaleDown passes over a node without candidates, and without pods
\* there is nothing to plan.
ASSUME MigrationAssumption ==
  /\ Nodes \subseteq Nat /\ Candidates \subseteq Nodes /\ Candidates # {}
  /\ Drained \in Nodes \ Candidates
  /\ Moved \subseteq Nat /\ Moved # {} /\ Residents \cap Moved = {}
  /\ Host \in [Residents -> Nodes]
  /\ Nowhere \notin Nodes
  /\ IsFiniteSet(Nodes) /\ IsFiniteSet(Moved) /\ IsFiniteSet(Residents)

\* What the API server admits: amounts are not negative, weights are 1 to 100.  Pods
\* that have finished or are the system's do not move (getMigratablePodsOnNode).
ASSUME AmountsAssumption ==
  /\ Unit \in Nat
  /\ \A n \in Candidates : /\ Allocatable[n].cpu \in Nat \ {0}
                           /\ Allocatable[n].mem \in Nat \ {0}
  /\ \A kind \in Kinds \cup ResidentKinds :
       /\ kind.cpu \in Nat /\ kind.mem \in Nat
       /\ \A preferred \in {kind.follows, kind.shuns, kind.preferences} :
            IsFiniteSet(preferred) /\ \A term \in preferred : term.weight \in 1..100
       /\ IsFiniteSet(kind.spread) /\ \A c \in kind.spread : c.maxSkew \in Nat
  /\ \A kind \in Kinds : ~kind.finished /\ ~kind.system

VARIABLES
  spec,         \* what each pod is
  stage,        \* the order being tried, or the result
  todo,         \* the pods not placed yet in this order
  free,         \* what is left of each candidate in this order
  plan,         \* Assignment.Node of each moved pod
  alternative   \* Assignment.AltNode

vars == <<spec, stage, todo, free, plan, alternative>>

Pods   == Moved \cup Residents
Stages == {"partnersFirst", "followersFirst", "spread", "planned", "nil"}
Ordered == stage \in {"partnersFirst", "followersFirst"}

TypeOK ==
  /\ spec \in [Pods -> Kinds \cup ResidentKinds] /\ \A p \in Moved : spec[p] \in Kinds
  /\ stage \in Stages /\ todo \subseteq Moved
  /\ free \in [Candidates -> [cpu : Int, mem : Int]]
  /\ plan \in [Moved -> Candidates \cup {Nowhere}]
  /\ alternative \in [Moved -> Candidates \cup {Nowhere}]

-----------------------------------------------------------------------------
\* The effects are not told apart, so that PreferNoSchedule is a filter too.
Tolerates(toleration, taint) ==
  /\ toleration.effect \in {"", taint.effect}
  /\ toleration.key = taint.key
  /\ \/ toleration.operator = "Exists"
     \/ toleration.operator \in {"Equal", ""} /\ toleration.value = taint.value

ToleratesTaints(p, n) ==
  \A taint \in Taints[n] : \E t \in spec[p].tolerations : Tolerates(t, taint)

\* Gt and Lt never match.
MatchNodeSelectorTerm(term, n) ==
  \A expr \in term :
    LET known == expr.key \in DOMAIN Labels[n]
        in    == known /\ Labels[n][expr.key] \in expr.values
    IN CASE expr.operator = "In"           -> in
         [] expr.operator = "NotIn"        -> ~in
         [] expr.operator = "Exists"       -> known
         [] expr.operator = "DoesNotExist" -> ~known
         [] OTHER                          -> FALSE

\* A pod without terms has no required node affinity.
MatchesNodeAffinity(p, n) ==
  \/ spec[p].nodeTerms = {}
  \/ \E term \in spec[p].nodeTerms : MatchNodeSelectorTerm(term, n)

PreferredNodeAffinityWeight(p, n) ==
  LET matched == {preference \in spec[p].preferences :
                    MatchNodeSelectorTerm(preference.term, n)}
  IN SumFunction([preference \in matched |-> preference.weight])

\* A term without namespaces selects pods of its owner's namespace; with a
\* namespaceSelector its spaces are all namespaces.
PodMatchesAffinityTerm(owner, target, term) ==
  /\ target.space \in IF term.spaces = {} THEN {owner.space} ELSE term.spaces
  /\ target.app \in term.apps

\* The first required affinity term decides, also on the anti-affinity terms;
\* of those, a's term is compared with a.
CheckPodAffinityPair(a, b) ==
  IF a.needs # <<>> THEN PodMatchesAffinityTerm(a, b, Head(a.needs))
  ELSE \A term \in a.avoids : ~PodMatchesAffinityTerm(b, a, term)

ResidentsOn(n) == {r \in Residents : Host[r] = n}

\* filterSystemPods drops pods of kube- namespaces and kube-proxy.
Occupants(at, n) ==
  {r \in ResidentsOn(n) : ~spec[r].system} \cup {p \in Moved : at[p] = n}

\* Mutant: only the pod that is placed is asked.
CheckAffinityOneWay(p, occupants) ==
  \A q \in occupants : CheckPodAffinityPair(spec[p], spec[q])

CheckAffinityOnNode(p, occupants) ==
  \A q \in occupants : /\ CheckPodAffinityPair(spec[p], spec[q])
                       /\ CheckPodAffinityPair(spec[q], spec[p])

-----------------------------------------------------------------------------
Requested(pods) ==
  LET running == {p \in pods : ~spec[p].finished}
  IN [cpu |-> SumFunction([p \in running |-> spec[p].cpu]),
      mem |-> SumFunction([p \in running |-> spec[p].mem])]

Without(amount, used) ==
  [cpu |-> amount.cpu - used.cpu, mem |-> amount.mem - used.mem]

\* Mutant: every candidate looks empty.
BareAllocatable(n) == Allocatable[n]

\* System pods count here, finished ones do not.
NodeFreeResources(n) == Without(Allocatable[n], Requested(ResidentsOn(n)))

Admissible(p, at, avail) ==
  {n \in Candidates :
     /\ spec[p].cpu <= avail[n].cpu /\ spec[p].mem <= avail[n].mem
     /\ ToleratesTaints(p, n) /\ MatchesNodeAffinity(p, n)
     /\ CheckAffinityOnNode(p, Occupants(at, n))}

-----------------------------------------------------------------------------
Labelled(key) == {n \in Nodes : key \in DOMAIN Labels[n]}

SameTopologyDomain(a, b, key) ==
  \/ key = "hostname" /\ a = b
  \/ /\ key # "hostname" /\ {a, b} \subseteq Labelled(key)
     /\ Labels[a][key] = Labels[b][key]

MatchedWeight(owner, target, terms, a, b) ==
  LET matched == {term \in terms : /\ SameTopologyDomain(a, b, term.key)
                                   /\ PodMatchesAffinityTerm(owner, target, term)}
  IN SumFunction([term \in matched |-> term.weight])

\* Both directions, over all candidates: the pods this one prefers to be near
\* or away from, and those that prefer it to be so.
InterPodAffinityScore(p, n, at) ==
  LET Pull(q, m) ==
        LET a == spec[p]
            b == spec[q]
        IN   MatchedWeight(a, b, a.follows, n, m) - MatchedWeight(a, b, a.shuns, n, m)
           + MatchedWeight(b, a, b.follows, n, m) - MatchedWeight(b, a, b.shuns, n, m)
      On(m) == SumFunction([q \in Occupants(at, m) |-> Pull(q, m)])
  IN SumFunction([m \in Candidates |-> On(m)])

\* Least allocated plus balanced allocation, in units of 50 / Unit.
ResourceScore(p, n, avail) ==
  LET share == [cpu |-> (avail[n].cpu - spec[p].cpu) * (Unit \div Allocatable[n].cpu),
                mem |-> (avail[n].mem - spec[p].mem) * (Unit \div Allocatable[n].mem)]
      apart == IF share.cpu > share.mem THEN share.cpu - share.mem
                                        ELSE share.mem - share.cpu
  IN share.cpu + share.mem + 2 * Unit - apart

\* The weighted sum of the four normalised scores, times the divisors of the
\* two normalisations, which are the same for all admissible nodes.
Score(p, n, at, avail) ==
  LET others   == {InterPodAffinityScore(p, m, at) : m \in Admissible(p, at, avail)}
      highest  == Max({PreferredNodeAffinityWeight(p, m) : m \in Admissible(p, at, avail)})
      scale    == IF highest > 0 THEN highest ELSE 1
      range    == IF Max(others) > Min(others) THEN Max(others) - Min(others) ELSE 1
  IN   ResourceScore(p, n, avail) * scale * range
     + 4 * Unit * PreferredNodeAffinityWeight(p, n) * range
     + 4 * Unit * (InterPodAffinityScore(p, n, at) - Min(others)) * scale

\* The admissible candidate with the highest score, the first of several.
Preferred(p, n, at, avail) ==
  /\ n \in Admissible(p, at, avail)
  /\ \A m \in Admissible(p, at, avail) \ {n} :
       LET score(k) == Score(p, k, at, avail)
       IN score(n) > score(m) \/ (score(n) = score(m) /\ n < m)

-----------------------------------------------------------------------------
Follower(p) == spec[p].follows # {}

\* orderForPlacement: followers last or first, then large pods first.
Precedes(p, q) ==
  IF Follower(p) # Follower(q) THEN Follower(p) = (stage = "followersFirst")
  ELSE \/ spec[p].cpu > spec[q].cpu
       \/ /\ spec[p].cpu = spec[q].cpu
          /\ \/ spec[p].mem > spec[q].mem
             \/ spec[p].mem = spec[q].mem /\ p < q

IsNext(p) == p \in todo /\ \A q \in todo \ {p} : Precedes(p, q)

Unplaced == [p \in Moved |-> Nowhere]

Init ==
  /\ \E moved \in [Moved -> Kinds], resident \in [Residents -> ResidentKinds] :
       spec = [p \in Pods |-> IF p \in Moved THEN moved[p] ELSE resident[p]]
  /\ stage = "partnersFirst" /\ todo = Moved
  /\ free = [n \in Candidates |-> NodeFreeResources(n)]
  /\ plan = Unplaced /\ alternative = Unplaced

\* One round of placePods.
PlacePod(p, n, at) ==
  /\ IsNext(p) /\ Preferred(p, n, at, free)
  /\ todo' = todo \ {p}
  /\ free' = [free EXCEPT ![n] = Without(@, spec[p])]

PlaceInPlan(p, n) ==
  /\ stage = "partnersFirst"
  /\ PlacePod(p, n, plan) /\ plan' = [plan EXCEPT ![p] = n]
  /\ UNCHANGED <<spec, stage, alternative>>

PlaceInAlternative(p, n) ==
  /\ stage = "followersFirst"
  /\ PlacePod(p, n, alternative) /\ alternative' = [alternative EXCEPT ![p] = n]
  /\ UNCHANGED <<spec, stage, plan>>

NoPlan(p) ==
  /\ stage = "partnersFirst" /\ IsNext(p) /\ Admissible(p, plan, free) = {}
  /\ stage' = "nil"
  /\ UNCHANGED <<spec, todo, free, plan, alternative>>

\* Mutant: what was placed before the order failed remains.
KeepPartialAlternative(p) ==
  /\ stage = "followersFirst" /\ IsNext(p) /\ Admissible(p, alternative, free) = {}
  /\ stage' = "spread"
  /\ UNCHANGED <<spec, todo, free, plan, alternative>>

NoAlternative(p) ==
  /\ stage = "followersFirst" /\ IsNext(p) /\ Admissible(p, alternative, free) = {}
  /\ stage' = "spread" /\ alternative' = Unplaced
  /\ UNCHANGED <<spec, todo, free, plan>>

\* Mutant: the second order starts with what the first one left.
GoOnWithFree ==
  /\ stage = "partnersFirst" /\ todo = {}
  /\ stage' = "followersFirst" /\ todo' = Moved
  /\ UNCHANGED <<spec, free, plan, alternative>>

\* Mutant: the second order gets the list of all pods.
StartAlternativeWithAll ==
  /\ stage = "partnersFirst" /\ todo = {}
  /\ stage' = "followersFirst" /\ todo' = Pods
  /\ free' = [n \in Candidates |-> NodeFreeResources(n)]
  /\ UNCHANGED <<spec, plan, alternative>>

\* placePods copies what is free before the first order changes it.
StartAlternative ==
  /\ stage = "partnersFirst" /\ todo = {}
  /\ stage' = "followersFirst" /\ todo' = Moved
  /\ free' = [n \in Candidates |-> NodeFreeResources(n)]
  /\ UNCHANGED <<spec, plan, alternative>>

AlternativeDone ==
  /\ stage = "followersFirst" /\ todo = {}
  /\ stage' = "spread"
  /\ UNCHANGED <<spec, todo, free, plan, alternative>>

-----------------------------------------------------------------------------
RunsNow(q) == IF q \in Moved THEN Drained ELSE Host[q]

\* The skew once these pods have moved.  A pod whose name is that of one of them
\* is taken for it.
CalculateRealSkew(moving, constraint) ==
  LET key    == constraint.key
      static == {q \in Pods : /\ ~spec[q].finished
                              /\ \A p \in moving : Name[p] # Name[q]}
      On(n)  == {q \in {r \in static : RunsNow(r) = n} \cup {p \in moving : plan[p] = n} :
                   spec[q].app \in constraint.apps}
      Count(value) ==
        Cardinality(UNION {On(n) : n \in {m \in Labelled(key) : Labels[m][key] = value}})
      counts == {Count(Labels[n][key]) : n \in Labelled(key)}
  IN IF counts = {} THEN 0 ELSE Max(counts) - Min(counts)

\* Mutant: one too many is let through.
SpreadOffByOne ==
  \A p \in Moved : \A constraint \in spec[p].spread :
    constraint.hard => CalculateRealSkew(Moved, constraint) <= constraint.maxSkew + 1

\* The hard constraints of the moved pods; the alternative is not checked.
CheckTopologySpread ==
  \A p \in Moved : \A constraint \in spec[p].spread :
    constraint.hard => CalculateRealSkew(Moved, constraint) <= constraint.maxSkew

Conclude ==
  /\ stage = "spread"
  /\ stage' = IF CheckTopologySpread THEN "planned" ELSE "nil"
  /\ UNCHANGED <<spec, todo, free, plan, alternative>>

Next ==
  \/ \E p \in Moved :
       \/ \E n \in Candidates : PlaceInPlan(p, n) \/ PlaceInAlternative(p, n)
       \/ NoPlan(p) \/ NoAlternative(p)
  \/ StartAlternative \/ AlternativeDone \/ Conclude

Spec == Init /\ [][Next]_vars

-----------------------------------------------------------------------------
(***************************************************************************)
(* What a plan promises, said of the cluster after the move, whatever the  *)
(* order in which the plan was found.                                      *)
(***************************************************************************)
\* Wherever a pod moves to, the requests of all pods there fit the node, in both
\* orders, although free is kept up to date pod by pod and shared in the code.
PlanFits ==
  \A at \in {plan, alternative} : \A n \in {at[p] : p \in Moved} \ {Nowhere} :
    LET used == Requested(ResidentsOn(n) \cup {p \in Moved : at[p] = n})
    IN used.cpu <= Allocatable[n].cpu /\ used.mem <= Allocatable[n].mem

\* The code's condition on two pods of a node holds in both directions for
\* every moved pod and every pod it ends up with, the later ones included.
PairsKeptIn(at) ==
  \A p \in Moved : at[p] # Nowhere =>
    \A q \in Occupants(at, at[p]) \ {p} :
      CheckPodAffinityPair(spec[p], spec[q]) /\ CheckPodAffinityPair(spec[q], spec[p])
PairsKept == PairsKeptIn(plan) /\ PairsKeptIn(alternative)

\* A plan moves every pod, and its alternative every pod or none: the affinity
\* criteria read AltNode for all pods of a plan or not at all.
PlanComplete ==
  stage = "planned" =>
    /\ \A p \in Moved : plan[p] \in Candidates
    /\ alternative = Unplaced \/ \A p \in Moved : alternative[p] \in Candidates

\* When no pod prefers to follow others, or all do, the two orders are the same
\* and so are the plans: the first order leaves nothing behind for the second.
OrdersAgree ==
  /\ stage \in {"spread", "planned"}
  /\ \A p, q \in Moved : Follower(p) = Follower(q)
  => alternative = plan

\* After the move no two domains differ by more than a moved pod's hard
\* constraint allows.
RunsOn(q) == IF q \in Moved THEN plan[q] ELSE Host[q]
SharingDomain(n, constraint, At(_)) ==
  {q \in Pods : /\ ~spec[q].finished /\ spec[q].app \in constraint.apps
                /\ At(q) \in Labelled(constraint.key)
                /\ Labels[At(q)][constraint.key] = Labels[n][constraint.key]}
Imbalance(m, n, constraint, At(_)) ==
    Cardinality(SharingDomain(m, constraint, At))
  - Cardinality(SharingDomain(n, constraint, At))
SpreadKept ==
  stage = "planned" =>
    \A p \in Moved : \A c \in spec[p].spread : \A m, n \in Labelled(c.key) :
      c.hard => Imbalance(m, n, c, RunsOn) <= c.maxSkew

-----------------------------------------------------------------------------
(***************************************************************************)
(* What the source says and the code does not do.                          *)
(***************************************************************************)

\* A plan keeps the required anti-affinity of the pods it moves.
AntiAffinityKept ==
  stage = "planned" =>
    \A p \in Moved : \A q \in Occupants(plan, plan[p]) \ {p} :
      \A term \in spec[p].avoids :
        term.key = "hostname" => ~PodMatchesAffinityTerm(spec[p], spec[q], term)
=============================================================================
