-------------------------- MODULE MigrationPlan_proofs --------------------------
(***************************************************************************)
(* What holds of every migration plan and of what it costs, for every      *)
(* cluster, every set of pods and every kind of pod.                       *)
(***************************************************************************)
EXTENDS SoftConstraints, SumTheorems, TLAPS

Assignments == [Moved -> Candidates \cup {Nowhere}]

AssignmentsOK ==
  plan \in Assignments /\ alternative \in Assignments /\ todo \subseteq Moved

\* What every order does: an assignment stays one.
LEMMA StaysAssignment ==
  ASSUME NEW at \in Assignments, NEW p \in Moved, NEW n \in Candidates
  PROVE  [at EXCEPT ![p] = n] \in Assignments
BY DEF Assignments

\* The destinations the search starts from are destinations.
LEMMA NowherePlaced == Unplaced \in Assignments
BY DEF Assignments, Unplaced

\* Every step assigns candidates.
LEMMA StepsKeepAssignments ==
  ASSUME AssignmentsOK, [Next]_vars
  PROVE  AssignmentsOK'
<1>1. ASSUME NEW p \in Moved, NEW n \in Candidates,
             PlaceInPlan(p, n) \/ PlaceInAlternative(p, n)
      PROVE  AssignmentsOK'
  BY <1>1, StaysAssignment
  DEF PlaceInPlan, PlaceInAlternative, PlacePod, AssignmentsOK
<1>2. ASSUME NEW p \in Moved, NoPlan(p) \/ NoAlternative(p) PROVE AssignmentsOK'
  BY <1>2, NowherePlaced DEF NoPlan, NoAlternative, AssignmentsOK
<1>3. CASE StartAlternative \/ AlternativeDone \/ Conclude
  BY <1>3 DEF StartAlternative, AlternativeDone, Conclude, AssignmentsOK
<1>4. CASE UNCHANGED vars
  BY <1>4 DEF vars, AssignmentsOK
<1> QED
  BY <1>1, <1>2, <1>3, <1>4 DEF Next

\* The plan and its alternative only name candidates, and only of pods that move (placePods).
THEOREM Assigned == Spec => []AssignmentsOK
<1>1. Init => AssignmentsOK
  BY NowherePlaced DEF Init, AssignmentsOK
<1>2. AssignmentsOK /\ [Next]_vars => AssignmentsOK'
  BY StepsKeepAssignments
<1> QED
  BY <1>1, <1>2, PTL DEF Spec

-----------------------------------------------------------------------------
\* One more pod on a node whose occupants it is compatible with.
LEMMA PlacingKeepsPairs ==
  ASSUME NEW at \in Assignments, NEW p \in Moved, NEW n \in Candidates,
         PairsKeptIn(at), CheckAffinityOnNode(p, Occupants(at, n))
  PROVE  PairsKeptIn([at EXCEPT ![p] = n])
<1> DEFINE to == [at EXCEPT ![p] = n]
           Compatible(a, b) == /\ CheckPodAffinityPair(spec[a], spec[b])
                               /\ CheckPodAffinityPair(spec[b], spec[a])
<1>1. to[p] = n /\ \A q \in Moved \ {p} : to[q] = at[q]
  BY DEF Assignments
<1>2. \A q \in Occupants(at, n) : Compatible(p, q)
  BY DEF CheckAffinityOnNode
<1>3. \A q \in Moved : at[q] # Nowhere =>
        \A r \in Occupants(at, at[q]) \ {q} : Compatible(q, r)
  BY DEF PairsKeptIn
<1> SUFFICES ASSUME NEW q \in Moved, to[q] # Nowhere,
                    NEW r \in Occupants(to, to[q]) \ {q}
             PROVE  Compatible(q, r)
  BY DEF PairsKeptIn
<1> HIDE DEF Compatible
<1>4. r = p \/ r \in Occupants(at, to[q])
  BY <1>1 DEF Occupants
<1>5. CASE q = p
  BY <1>1, <1>2, <1>4, <1>5
<1>6. CASE q # p /\ r # p
  BY <1>1, <1>3, <1>4, <1>6
<1>7. CASE q # p /\ r = p
  <2>1. at[q] = n /\ q \in Occupants(at, n)
    <3>1. p \notin Residents
      BY MigrationAssumption
    <3>2. to[p] = to[q]
      BY <1>7, <3>1 DEF Occupants, ResidentsOn
    <3> QED
      BY <1>1, <1>7, <3>2 DEF Occupants
  <2>2. Compatible(p, q)
    BY <1>2, <2>1
  <2> QED
    BY <1>7, <2>2 DEF Compatible
<1> QED
  BY <1>5, <1>6, <1>7

\* Before a pod is placed the pairs of residents are those of the cluster.
LEMMA UnplacedKeepsPairs == PairsKeptIn(Unplaced)
BY DEF PairsKeptIn, Unplaced

\* Every pod of a plan or of its alternative is compatible with all it ends up
\* with, although the search only looks at what is there when it places a pod.
THEOREM Pairs == Spec => []PairsKept
<1>1. Init => PairsKept
  BY UnplacedKeepsPairs DEF Init, PairsKept
<1>2. AssignmentsOK /\ PairsKept /\ [Next]_vars => PairsKept'
  <2> SUFFICES ASSUME AssignmentsOK, PairsKept, [Next]_vars PROVE PairsKept'
    OBVIOUS
  <2>2. spec' = spec => (PairsKept' <=> PairsKeptIn(plan') /\ PairsKeptIn(alternative'))
    BY DEF PairsKept, PairsKeptIn, Occupants
  <2>3. ASSUME NEW p \in Moved, NEW n \in Candidates, PlaceInPlan(p, n)
        PROVE  PairsKept'
    <3>1. CheckAffinityOnNode(p, Occupants(plan, n))
      BY <2>3 DEF PlaceInPlan, PlacePod, Preferred, Admissible
    <3>2. PairsKeptIn(plan')
      BY <2>3, <3>1, PlacingKeepsPairs DEF PlaceInPlan, AssignmentsOK, PairsKept
    <3> QED
      BY <2>2, <2>3, <3>2 DEF PlaceInPlan, PairsKept
  <2>4. ASSUME NEW p \in Moved, NEW n \in Candidates, PlaceInAlternative(p, n)
        PROVE  PairsKept'
    <3>1. CheckAffinityOnNode(p, Occupants(alternative, n))
      BY <2>4 DEF PlaceInAlternative, PlacePod, Preferred, Admissible
    <3>2. PairsKeptIn(alternative')
      BY <2>4, <3>1, PlacingKeepsPairs
      DEF PlaceInAlternative, AssignmentsOK, PairsKept
    <3> QED
      BY <2>2, <2>4, <3>2 DEF PlaceInAlternative, PairsKept
  <2>5. ASSUME NEW p \in Moved, NoPlan(p) \/ NoAlternative(p) PROVE PairsKept'
    BY <2>2, <2>5, UnplacedKeepsPairs DEF NoPlan, NoAlternative, PairsKept
  <2>6. CASE StartAlternative \/ AlternativeDone \/ Conclude
    BY <2>2, <2>6 DEF StartAlternative, AlternativeDone, Conclude, PairsKept
  <2>7. CASE UNCHANGED vars
    BY <2>2, <2>7 DEF vars, PairsKept
  <2> QED
    BY <2>3, <2>4, <2>5, <2>6, <2>7 DEF Next
<1> QED
  BY <1>1, <1>2, Assigned, PTL DEF Spec

-----------------------------------------------------------------------------
\* What is still to place is what has no destination yet, and an order that
\* ended has given every pod one.
Progress ==
  /\ stage = "partnersFirst" =>
       \A p \in Moved : p \in todo <=> plan[p] = Nowhere
  /\ stage = "followersFirst" =>
       \A p \in Moved : p \in todo <=> alternative[p] = Nowhere
  /\ stage = "partnersFirst" => alternative = Unplaced
  /\ stage \in {"followersFirst", "spread", "planned"} =>
       \A p \in Moved : plan[p] # Nowhere
  /\ stage \in {"spread", "planned"} =>
       alternative = Unplaced \/ \A p \in Moved : alternative[p] # Nowhere

\* What is left to place is what has no destination.
LEMMA Progressing == Spec => []Progress
<1>1. Init => Progress
  BY DEF Init, Progress, Unplaced
<1>2. AssignmentsOK /\ Progress /\ [Next]_vars => Progress'
  <2> SUFFICES ASSUME AssignmentsOK, Progress, [Next]_vars PROVE Progress'
    OBVIOUS
  <2> USE DEF Progress
  <2>1. \A n \in Candidates : n # Nowhere
    BY MigrationAssumption
  <2>2. ASSUME NEW p \in Moved, NEW n \in Candidates, PlaceInPlan(p, n)
        PROVE  Progress'
    BY <2>1, <2>2 DEF PlaceInPlan, PlacePod, AssignmentsOK, Assignments
  <2>3. ASSUME NEW p \in Moved, NEW n \in Candidates, PlaceInAlternative(p, n)
        PROVE  Progress'
    BY <2>1, <2>3 DEF PlaceInAlternative, PlacePod, AssignmentsOK, Assignments
  <2>4. ASSUME NEW p \in Moved, NoPlan(p) \/ NoAlternative(p) PROVE Progress'
    BY <2>4 DEF NoPlan, NoAlternative
  <2>5. CASE StartAlternative
    BY <2>5 DEF StartAlternative, Unplaced
  <2>6. CASE AlternativeDone
    BY <2>6 DEF AlternativeDone
  <2>7. CASE Conclude
    BY <2>7 DEF Conclude
  <2>8. CASE UNCHANGED vars
    BY <2>8 DEF vars
  <2> QED
    BY <2>2, <2>3, <2>4, <2>5, <2>6, <2>7, <2>8 DEF Next
<1> QED
  BY <1>1, <1>2, Assigned, PTL DEF Spec

\* A plan moves every pod, its alternative every pod or none.
THEOREM Complete == Spec => []PlanComplete
<1>1. AssignmentsOK /\ Progress => PlanComplete
  BY DEF AssignmentsOK, Assignments, Progress, PlanComplete
<1> QED
  BY <1>1, Assigned, Progressing, PTL

-----------------------------------------------------------------------------
\* A pod is of one of the kinds, and so its amounts are natural numbers.
SpecOK ==
  spec \in [Pods -> Kinds \cup ResidentKinds] /\ \A p \in Moved : spec[p] \in Kinds

\* The requests of a pod are amounts.
LEMMA PodAmounts ==
  ASSUME SpecOK, NEW p \in Pods
  PROVE  spec[p].cpu \in Nat /\ spec[p].mem \in Nat
BY AmountsAssumption DEF SpecOK

\* There are finitely many pods.
LEMMA PodsFinite ==
  IsFiniteSet(Pods) /\ \A S \in SUBSET Pods : IsFiniteSet(S)
BY MigrationAssumption, FS_Union, FS_Subset DEF Pods

\* What a set of pods requests, and what one more pod adds to it.
LEMMA RequestedIsNat ==
  ASSUME SpecOK, NEW S \in SUBSET Pods
  PROVE  Requested(S).cpu \in Nat /\ Requested(S).mem \in Nat
<1> DEFINE running == {p \in S : ~spec[p].finished}
           cpu == [p \in running |-> spec[p].cpu]
           mem == [p \in running |-> spec[p].mem]
<1>1. IsFiniteSet(running) /\ \A p \in running : spec[p].cpu \in Nat /\ spec[p].mem \in Nat
  BY PodsFinite, PodAmounts
<1>2. SumFunction(cpu) \in Nat /\ SumFunction(mem) \in Nat
  <2>1. /\ IsFiniteSet(DOMAIN cpu) /\ \A p \in DOMAIN cpu : cpu[p] \in Nat
        /\ IsFiniteSet(DOMAIN mem) /\ \A p \in DOMAIN mem : mem[p] \in Nat
    BY <1>1
  <2> HIDE DEF cpu, mem
  <2> QED
    BY <2>1, TotalIsNat
<1> QED
  BY <1>2 DEF Requested

\* A pod adds its requests to those of the others.
LEMMA RequestedAdd ==
  ASSUME SpecOK, NEW S \in SUBSET Pods, NEW p \in Pods \ S
  PROVE  /\ Requested(S \cup {p}).cpu =< Requested(S).cpu + spec[p].cpu
         /\ Requested(S \cup {p}).mem =< Requested(S).mem + spec[p].mem
<1> DEFINE Running(T) == {q \in T : ~spec[q].finished}
           Cpu(T) == [q \in Running(T) |-> spec[q].cpu]
           Mem(T) == [q \in Running(T) |-> spec[q].mem]
           T == S \cup {p}
<1>1. /\ IsFiniteSet(Running(S)) /\ p \notin Running(S)
      /\ \A q \in Running(T) : spec[q].cpu \in Nat /\ spec[q].mem \in Nat
  BY PodsFinite, PodAmounts
<1>2. Requested(S).cpu \in Nat /\ Requested(S).mem \in Nat
  BY RequestedIsNat
<1>3. spec[p].cpu \in Nat /\ spec[p].mem \in Nat
  BY PodAmounts
<1>4. CASE spec[p].finished
  <2>1. Running(T) = Running(S)
    BY <1>4
  <2>2. Requested(T) = Requested(S)
    BY <2>1 DEF Requested
  <2> QED
    BY <1>2, <1>3, <2>2
<1>5. CASE ~spec[p].finished
  <2>1. Running(T) = Running(S) \cup {p}
    BY <1>5
  <2>2. SumFunction(Cpu(T)) = SumFunction(Cpu(S)) + spec[p].cpu
    <3> DEFINE f == Cpu(S)
               h == Cpu(T)
    <3>1. /\ IsFiniteSet(DOMAIN f) /\ p \notin DOMAIN f
          /\ DOMAIN h = DOMAIN f \cup {p} /\ \A q \in DOMAIN f : h[q] = f[q]
          /\ \A q \in DOMAIN h : h[q] \in Int
      BY <1>1, <2>1
    <3>2. h[p] = spec[p].cpu
      BY <2>1
    <3> HIDE DEF f, h
    <3>3. SumFunction(h) = SumFunction(f) + h[p]
      BY <3>1, TotalAdd
    <3> QED
      BY <3>2, <3>3 DEF f, h
  <2>3. SumFunction(Mem(T)) = SumFunction(Mem(S)) + spec[p].mem
    <3> DEFINE f == Mem(S)
               h == Mem(T)
    <3>1. /\ IsFiniteSet(DOMAIN f) /\ p \notin DOMAIN f
          /\ DOMAIN h = DOMAIN f \cup {p} /\ \A q \in DOMAIN f : h[q] = f[q]
          /\ \A q \in DOMAIN h : h[q] \in Int
      BY <1>1, <2>1
    <3>2. h[p] = spec[p].mem
      BY <2>1
    <3> HIDE DEF f, h
    <3>3. SumFunction(h) = SumFunction(f) + h[p]
      BY <3>1, TotalAdd
    <3> QED
      BY <3>2, <3>3 DEF f, h
  <2>4. /\ Requested(T).cpu = Requested(S).cpu + spec[p].cpu
        /\ Requested(T).mem = Requested(S).mem + spec[p].mem
    BY <2>2, <2>3 DEF Requested
  <2> QED
    BY <1>2, <1>3, <2>4
<1> QED
  BY <1>4, <1>5

-----------------------------------------------------------------------------
Amounts == [cpu : Int, mem : Int]
FreeOK  == free \in [Candidates -> Amounts]

\* What is free before the search are amounts.
LEMMA FreeAtFirst ==
  ASSUME SpecOK
  PROVE  [n \in Candidates |-> NodeFreeResources(n)] \in [Candidates -> Amounts]
<1> SUFFICES ASSUME NEW n \in Candidates PROVE NodeFreeResources(n) \in Amounts
  OBVIOUS
<1>1. ResidentsOn(n) \in SUBSET Pods
  BY DEF ResidentsOn, Pods
<1>2. Requested(ResidentsOn(n)).cpu \in Nat /\ Requested(ResidentsOn(n)).mem \in Nat
  BY <1>1, RequestedIsNat
<1>3. Allocatable[n].cpu \in Nat /\ Allocatable[n].mem \in Nat
  BY AmountsAssumption
<1> QED
  BY <1>2, <1>3 DEF NodeFreeResources, Without, Amounts

\* What is left free after a pod was placed are amounts.
LEMMA FreeAfter ==
  ASSUME SpecOK, NEW avail \in [Candidates -> Amounts], NEW p \in Moved, NEW n \in Candidates
  PROVE  [avail EXCEPT ![n] = Without(@, spec[p])] \in [Candidates -> Amounts]
<1>1. spec[p].cpu \in Nat /\ spec[p].mem \in Nat
  BY PodAmounts DEF Pods
<1>2. avail[n] \in Amounts
  OBVIOUS
<1>3. Without(avail[n], spec[p]) \in Amounts
  BY <1>1, <1>2 DEF Without, Amounts
<1> QED
  BY <1>3

\* The variables keep their types: in particular the second order places no pods but
\* those of the drained node.
THEOREM Typing == Spec => []TypeOK
<1> DEFINE Typed == SpecOK /\ FreeOK /\ stage \in Stages
<1>1. Init => Typed
  <2> SUFFICES ASSUME Init PROVE Typed
    OBVIOUS
  <2>1. SpecOK
    BY DEF Init, SpecOK, Pods
  <2> QED
    BY <2>1, FreeAtFirst DEF Init, FreeOK, Stages
<1>2. Typed /\ [Next]_vars => Typed'
  <2> SUFFICES ASSUME Typed, [Next]_vars PROVE Typed'
    OBVIOUS
  <2>1. ASSUME NEW p \in Moved, NEW n \in Candidates,
               PlaceInPlan(p, n) \/ PlaceInAlternative(p, n)
        PROVE  Typed'
    <3>1. free' \in [Candidates -> Amounts]
      BY <2>1, FreeAfter DEF PlaceInPlan, PlaceInAlternative, PlacePod, FreeOK
    <3> QED
      BY <2>1, <3>1 DEF PlaceInPlan, PlaceInAlternative, SpecOK, FreeOK
  <2>2. ASSUME NEW p \in Moved, NoPlan(p) \/ NoAlternative(p) PROVE Typed'
    BY <2>2 DEF NoPlan, NoAlternative, SpecOK, FreeOK, Stages
  <2>3. CASE StartAlternative
    BY <2>3, FreeAtFirst DEF StartAlternative, SpecOK, FreeOK, Stages
  <2>4. CASE AlternativeDone \/ Conclude
    BY <2>4 DEF AlternativeDone, Conclude, SpecOK, FreeOK, Stages
  <2>5. CASE UNCHANGED vars
    BY <2>5 DEF vars, SpecOK, FreeOK
  <2> QED
    BY <2>1, <2>2, <2>3, <2>4, <2>5 DEF Next
<1>3. AssignmentsOK /\ Typed => TypeOK
  BY DEF AssignmentsOK, Assignments, SpecOK, FreeOK, Amounts, TypeOK
<1> QED
  BY <1>1, <1>2, <1>3, Assigned, PTL DEF Spec

-----------------------------------------------------------------------------
\* What is left of a candidate and what its pods request make no more than it has,
\* and a candidate that a pod was placed on has not run out.
On(at, n) == ResidentsOn(n) \cup {p \in Moved : at[p] = n}

Fits(at, avail) ==
  \A n \in Candidates :
    /\ Requested(On(at, n)).cpu + avail[n].cpu =< Allocatable[n].cpu
    /\ Requested(On(at, n)).mem + avail[n].mem =< Allocatable[n].mem
    /\ (\E p \in Moved : at[p] = n) => avail[n].cpu >= 0 /\ avail[n].mem >= 0

FitsIn(at) ==
  \A n \in {at[p] : p \in Moved} \ {Nowhere} :
    /\ Requested(On(at, n)).cpu =< Allocatable[n].cpu
    /\ Requested(On(at, n)).mem =< Allocatable[n].mem

\* The pods on a node are pods.
LEMMA OnIsPods ==
  ASSUME NEW at, NEW n PROVE On(at, n) \in SUBSET Pods
BY DEF On, ResidentsOn, Pods

\* What is free before the search, with the residents, fits the nodes.
LEMMA FitsAtFirst ==
  ASSUME SpecOK
  PROVE  Fits(Unplaced, [n \in Candidates |-> NodeFreeResources(n)])
<1> SUFFICES ASSUME NEW n \in Candidates
             PROVE  LET avail == NodeFreeResources(n)
                        used  == Requested(On(Unplaced, n))
                    IN  /\ used.cpu + avail.cpu =< Allocatable[n].cpu
                        /\ used.mem + avail.mem =< Allocatable[n].mem
                        /\ \A p \in Moved : Unplaced[p] # n
  BY DEF Fits
<1>1. \A p \in Moved : Unplaced[p] # n
  BY MigrationAssumption DEF Unplaced
<1>2. On(Unplaced, n) = ResidentsOn(n)
  BY <1>1 DEF On
<1>3. Requested(ResidentsOn(n)).cpu \in Nat /\ Requested(ResidentsOn(n)).mem \in Nat
  BY <1>2, OnIsPods, RequestedIsNat
<1>4. Allocatable[n].cpu \in Nat /\ Allocatable[n].mem \in Nat
  BY AmountsAssumption
<1> QED
  BY <1>1, <1>2, <1>3, <1>4 DEF NodeFreeResources, Without

\* A pod that fits what is left still leaves a balance.
LEMMA PlacingFits ==
  ASSUME SpecOK, NEW avail \in [Candidates -> Amounts], NEW at \in Assignments,
         Fits(at, avail), NEW p \in Moved, at[p] = Nowhere,
         NEW n \in Admissible(p, at, avail)
  PROVE  Fits([at EXCEPT ![p] = n], [avail EXCEPT ![n] = Without(@, spec[p])])
<1> DEFINE to   == [at EXCEPT ![p] = n]
           left == [avail EXCEPT ![n] = Without(@, spec[p])]
<1>0. /\ n \in Candidates /\ n # Nowhere /\ p \in Pods /\ p \notin Residents
      /\ spec[p].cpu =< avail[n].cpu /\ spec[p].mem =< avail[n].mem
  BY MigrationAssumption DEF Admissible, Pods
<1>1. to[p] = n /\ \A q \in Moved \ {p} : to[q] = at[q]
  BY DEF Assignments
<1>2. spec[p].cpu \in Nat /\ spec[p].mem \in Nat
  BY <1>0, PodAmounts
<1> SUFFICES ASSUME NEW m \in Candidates
             PROVE  /\ Requested(On(to, m)).cpu + left[m].cpu =< Allocatable[m].cpu
                    /\ Requested(On(to, m)).mem + left[m].mem =< Allocatable[m].mem
                    /\ (\E q \in Moved : to[q] = m) => left[m].cpu >= 0 /\ left[m].mem >= 0
  BY DEF Fits
<1>3. avail[m].cpu \in Int /\ avail[m].mem \in Int
  BY DEF Amounts
<1>4. CASE m # n
  <2>0. {q \in Moved : to[q] = m} = {q \in Moved : at[q] = m}
    BY <1>1, <1>4, MigrationAssumption
  <2>1. On(to, m) = On(at, m) /\ left[m] = avail[m]
    BY <1>4, <2>0 DEF On
  <2>2. (\E q \in Moved : to[q] = m) => \E q \in Moved : at[q] = m
    BY <1>1, <1>4
  <2> HIDE DEF to, left
  <2> QED
    BY <2>1, <2>2 DEF Fits
<1>5. CASE m = n
  <2>1. On(to, n) = On(at, n) \cup {p} /\ p \notin On(at, n)
    BY <1>0, <1>1 DEF On, ResidentsOn
  <2>2. left[n] = Without(avail[n], spec[p])
    BY <1>0
  <2>3. left[n].cpu = avail[n].cpu - spec[p].cpu /\ left[n].mem = avail[n].mem - spec[p].mem
    BY <2>2 DEF Without
  <2> DEFINE old == Requested(On(at, n))
             new == Requested(On(to, n))
  <2>4. new.cpu =< old.cpu + spec[p].cpu /\ new.mem =< old.mem + spec[p].mem
    BY <1>0, <2>1, OnIsPods, RequestedAdd
  <2>5. old.cpu \in Nat /\ old.mem \in Nat /\ new.cpu \in Nat /\ new.mem \in Nat
    BY OnIsPods, RequestedIsNat
  <2>6. /\ old.cpu + avail[n].cpu =< Allocatable[n].cpu
        /\ old.mem + avail[n].mem =< Allocatable[n].mem
    BY <1>0 DEF Fits
  <2>7. Allocatable[n].cpu \in Nat /\ Allocatable[n].mem \in Nat
    BY <1>0, AmountsAssumption
  <2> HIDE DEF old, new, left, to
  <2>8. new.cpu + left[n].cpu =< Allocatable[n].cpu /\ new.mem + left[n].mem =< Allocatable[n].mem
    BY <1>2, <1>3, <1>5, <2>3, <2>4, <2>5, <2>6, <2>7
  <2>9. left[n].cpu >= 0 /\ left[n].mem >= 0
    BY <1>0, <1>2, <1>3, <1>5, <2>3
  <2> QED
    BY <1>5, <2>8, <2>9 DEF new
<1> QED
  BY <1>4, <1>5

\* If what is placed and what is left free fit the nodes, so does what is placed.
LEMMA FittingFits ==
  ASSUME SpecOK, NEW avail \in [Candidates -> Amounts], NEW at \in Assignments,
         Fits(at, avail)
  PROVE  FitsIn(at)
<1> SUFFICES ASSUME NEW n \in {at[p] : p \in Moved} \ {Nowhere}
             PROVE  /\ Requested(On(at, n)).cpu =< Allocatable[n].cpu
                    /\ Requested(On(at, n)).mem =< Allocatable[n].mem
  BY DEF FitsIn
<1>1. n \in Candidates /\ \E p \in Moved : at[p] = n
  BY DEF Assignments
<1>2. avail[n].cpu \in Int /\ avail[n].mem \in Int
  BY <1>1 DEF Amounts
<1>3. Requested(On(at, n)).cpu \in Nat /\ Requested(On(at, n)).mem \in Nat
  BY OnIsPods, RequestedIsNat
<1>4. Allocatable[n].cpu \in Nat /\ Allocatable[n].mem \in Nat
  BY <1>1, AmountsAssumption
<1> QED
  BY <1>1, <1>2, <1>3, <1>4 DEF Fits

FitInv ==
  /\ stage = "partnersFirst" => Fits(plan, free)
  /\ stage = "followersFirst" => Fits(alternative, free)
  /\ FitsIn(plan) /\ FitsIn(alternative)

\* The residents alone fit the nodes.
LEMMA UnplacedFits == FitsIn(Unplaced)
BY DEF FitsIn, Unplaced

\* No destination gets more pods than it can hold, in either order: what is left is
\* counted down pod by pod, and the second order starts with the count of the first.
THEOREM Fitting == Spec => []PlanFits
<1>1. Init => FitInv
  <2> SUFFICES ASSUME Init PROVE FitInv
    OBVIOUS
  <2>1. SpecOK
    BY DEF Init, SpecOK, Pods
  <2> QED
    BY <2>1, FitsAtFirst, UnplacedFits DEF Init, FitInv
<1>2. TypeOK /\ AssignmentsOK /\ Progress /\ FitInv /\ [Next]_vars => FitInv'
  <2> SUFFICES ASSUME TypeOK, AssignmentsOK, Progress, FitInv, [Next]_vars PROVE FitInv'
    OBVIOUS
  <2>0. SpecOK /\ free \in [Candidates -> Amounts]
    BY DEF TypeOK, SpecOK, Amounts
  <2>1. spec' = spec =>
          (FitInv' <=> /\ stage' = "partnersFirst" => Fits(plan', free')
                       /\ stage' = "followersFirst" => Fits(alternative', free')
                       /\ FitsIn(plan') /\ FitsIn(alternative'))
    BY DEF FitInv, Fits, FitsIn, Requested, On, ResidentsOn
  <2>2. ASSUME NEW p \in Moved, NEW n \in Candidates, PlaceInPlan(p, n) PROVE FitInv'
    <3>1. /\ stage = "partnersFirst" /\ p \in todo /\ n \in Admissible(p, plan, free)
          /\ plan' = [plan EXCEPT ![p] = n]
          /\ free' = [free EXCEPT ![n] = Without(@, spec[p])]
          /\ UNCHANGED <<spec, stage, alternative>>
      BY <2>2 DEF PlaceInPlan, PlacePod, IsNext, Preferred
    <3>2. Fits(plan', free') /\ plan' \in Assignments
      BY <2>0, <3>1, PlacingFits, StaysAssignment DEF Progress, AssignmentsOK, FitInv
    <3>3. free' \in [Candidates -> Amounts]
      BY <2>0, <3>1, FreeAfter
    <3>4. FitsIn(plan')
      BY <2>0, <3>2, <3>3, FittingFits
    <3> QED
      BY <2>1, <3>1, <3>2, <3>4 DEF FitInv
  <2>3. ASSUME NEW p \in Moved, NEW n \in Candidates, PlaceInAlternative(p, n)
        PROVE  FitInv'
    <3>1. /\ stage = "followersFirst" /\ p \in todo
          /\ n \in Admissible(p, alternative, free)
          /\ alternative' = [alternative EXCEPT ![p] = n]
          /\ free' = [free EXCEPT ![n] = Without(@, spec[p])]
          /\ UNCHANGED <<spec, stage, plan>>
      BY <2>3 DEF PlaceInAlternative, PlacePod, IsNext, Preferred
    <3>2. Fits(alternative', free') /\ alternative' \in Assignments
      BY <2>0, <3>1, PlacingFits, StaysAssignment DEF Progress, AssignmentsOK, FitInv
    <3>3. free' \in [Candidates -> Amounts]
      BY <2>0, <3>1, FreeAfter
    <3>4. FitsIn(alternative')
      BY <2>0, <3>2, <3>3, FittingFits
    <3> QED
      BY <2>1, <3>1, <3>2, <3>4 DEF FitInv
  <2>4. ASSUME NEW p \in Moved, NoPlan(p) \/ NoAlternative(p) PROVE FitInv'
    BY <2>1, <2>4, UnplacedFits DEF NoPlan, NoAlternative, FitInv
  <2>5. CASE StartAlternative
    BY <2>0, <2>1, <2>5, FitsAtFirst DEF StartAlternative, Progress, FitInv
  <2>6. CASE AlternativeDone \/ Conclude
    BY <2>1, <2>6 DEF AlternativeDone, Conclude, FitInv
  <2>7. CASE UNCHANGED vars
    BY <2>1, <2>7 DEF vars, FitInv
  <2> QED
    BY <2>2, <2>3, <2>4, <2>5, <2>6, <2>7 DEF Next
<1>3. FitInv => PlanFits
  BY DEF FitInv, FitsIn, PlanFits, On
<1> QED
  BY <1>1, <1>2, <1>3, Assigned, Typing, Progressing, PTL DEF Spec

-----------------------------------------------------------------------------
(***************************************************************************)
(* Scores are integers, so that one candidate is preferred.                *)
(***************************************************************************)
LEMMA TermsOfPod ==
  ASSUME SpecOK, NEW p \in Pods,
         NEW terms \in {spec[p].follows, spec[p].shuns, spec[p].preferences}
  PROVE  IsFiniteSet(terms) /\ \A term \in terms : term.weight \in 1..100
BY AmountsAssumption DEF SpecOK

\* Weights of finitely many terms add up.
LEMMA MatchedWeightIsInt ==
  ASSUME NEW terms, IsFiniteSet(terms), \A term \in terms : term.weight \in 1..100,
         NEW owner, NEW target, NEW a, NEW b
  PROVE  MatchedWeight(owner, target, terms, a, b) \in Int
<1> DEFINE matched == {term \in terms : /\ SameTopologyDomain(a, b, term.key)
                                        /\ PodMatchesAffinityTerm(owner, target, term)}
           weight == [term \in matched |-> term.weight]
<1>1. IsFiniteSet(DOMAIN weight) /\ \A term \in DOMAIN weight : weight[term] \in Int
  BY FS_Subset
<1>2. SumFunction(weight) \in Int
  <2> HIDE DEF weight
  <2> QED
    BY <1>1, TotalIsInt
<1> QED
  BY <1>2 DEF MatchedWeight

\* The weight of a pod's preferred nodes is a number.
LEMMA NodeWeightIsNat ==
  ASSUME SpecOK, NEW p \in Pods, NEW n
  PROVE  PreferredNodeAffinityWeight(p, n) \in Nat
<1> DEFINE matched == {preference \in spec[p].preferences :
                         MatchNodeSelectorTerm(preference.term, n)}
           weight == [preference \in matched |-> preference.weight]
<1>1. IsFiniteSet(spec[p].preferences) /\ \A x \in spec[p].preferences : x.weight \in 1..100
  BY TermsOfPod
<1>2. IsFiniteSet(DOMAIN weight) /\ \A x \in DOMAIN weight : weight[x] \in Nat
  BY <1>1, FS_Subset
<1>3. SumFunction(weight) \in Nat
  <2> HIDE DEF weight
  <2> QED
    BY <1>2, TotalIsNat
<1> QED
  BY <1>3 DEF PreferredNodeAffinityWeight

\* The score for neighbours is a number.
LEMMA InterPodIsInt ==
  ASSUME SpecOK, NEW p \in Moved, NEW n, NEW at
  PROVE  InterPodAffinityScore(p, n, at) \in Int
<1> DEFINE Pull(q, m) ==
             LET a == spec[p]
                 b == spec[q]
             IN   MatchedWeight(a, b, a.follows, n, m) - MatchedWeight(a, b, a.shuns, n, m)
                + MatchedWeight(b, a, b.follows, n, m) - MatchedWeight(b, a, b.shuns, n, m)
           Pulls(m) == [q \in Occupants(at, m) |-> Pull(q, m)]
           All == [m \in Candidates |-> SumFunction(Pulls(m))]
<1>1. ASSUME NEW q \in Pods, NEW m PROVE Pull(q, m) \in Int
  <2>1. p \in Pods
    BY DEF Pods
  <2>2. \A k \in {spec[p].follows, spec[p].shuns, spec[q].follows, spec[q].shuns} :
          IsFiniteSet(k) /\ \A term \in k : term.weight \in 1..100
    BY <2>1, TermsOfPod
  <2> QED
    BY <2>2, MatchedWeightIsInt
<1>2. ASSUME NEW m PROVE SumFunction(Pulls(m)) \in Int
  <2>1. Occupants(at, m) \in SUBSET Pods
    BY DEF Occupants, ResidentsOn, Pods
  <2>2. \A q \in Occupants(at, m) : Pull(q, m) \in Int
    BY <1>1, <2>1
  <2> HIDE DEF Pull
  <2>3. IsFiniteSet(DOMAIN Pulls(m)) /\ \A q \in DOMAIN Pulls(m) : Pulls(m)[q] \in Int
    BY <2>1, <2>2, PodsFinite
  <2> HIDE DEF Pulls
  <2> QED
    BY <2>3, TotalIsInt
<1>3. SumFunction(All) \in Int
  <2>1. IsFiniteSet(Candidates)
    BY MigrationAssumption, FS_Subset
  <2> HIDE DEF Pulls
  <2>2. IsFiniteSet(DOMAIN All) /\ \A m \in DOMAIN All : All[m] \in Int
    BY <1>2, <2>1
  <2> HIDE DEF All
  <2> QED
    BY <2>2, TotalIsInt
<1> QED
  BY <1>3 DEF InterPodAffinityScore

\* The score of an admissible node is a number.
LEMMA ScoreIsInt ==
  ASSUME SpecOK, NEW p \in Moved, NEW at, NEW avail \in [Candidates -> Amounts],
         NEW n \in Admissible(p, at, avail)
  PROVE  Score(p, n, at, avail) \in Int
<1> DEFINE admissible == Admissible(p, at, avail)
           others  == {InterPodAffinityScore(p, m, at) : m \in admissible}
           weights == {PreferredNodeAffinityWeight(p, m) : m \in admissible}
<1>1. p \in Pods /\ n \in Candidates /\ admissible \subseteq Candidates
  BY DEF Admissible, Pods
<1>2. IsFiniteSet(admissible)
  BY <1>1, MigrationAssumption, FS_Subset
<1>3. others \subseteq Int /\ others # {} /\ IsFiniteSet(others)
  <2> DEFINE score == [m \in admissible |-> InterPodAffinityScore(p, m, at)]
  <2>1. IsFiniteSet(others)
    <3>1. IsFiniteSet(Range(score))
      BY <1>2, RangeFinite
    <3> QED
      BY <3>1 DEF Range
  <2> QED
    BY <2>1, InterPodIsInt
<1>4. weights \subseteq Int /\ weights # {} /\ IsFiniteSet(weights)
  <2> DEFINE weight == [m \in admissible |-> PreferredNodeAffinityWeight(p, m)]
  <2>1. IsFiniteSet(weights)
    <3>1. IsFiniteSet(Range(weight))
      BY <1>2, RangeFinite
    <3> QED
      BY <3>1 DEF Range
  <2>2. \A m \in admissible : PreferredNodeAffinityWeight(p, m) \in Int
    BY <1>1, NodeWeightIsNat
  <2> QED
    BY <2>1, <2>2
<1>5. Max(others) \in Int /\ Min(others) \in Int /\ Max(weights) \in Int
  <2> HIDE DEF others, weights
  <2> QED
    BY <1>3, <1>4, MaxIsGreatest, MinIsLeast
<1>6. ResourceScore(p, n, avail) \in Int
  <2>1. /\ avail[n].cpu \in Int /\ avail[n].mem \in Int
        /\ spec[p].cpu \in Int /\ spec[p].mem \in Int
    BY <1>1, PodAmounts DEF Amounts
  <2>2. Unit \div Allocatable[n].cpu \in Int /\ Unit \div Allocatable[n].mem \in Int /\ Unit \in Int
    BY <1>1, AmountsAssumption
  <2>3. \A x, y, z, w \in Int : (x - y) * z \in Int
    OBVIOUS
  <2> QED
    BY <2>1, <2>2, <2>3 DEF ResourceScore
<1>7. /\ PreferredNodeAffinityWeight(p, n) \in Int /\ InterPodAffinityScore(p, n, at) \in Int
      /\ Unit \in Int
  BY <1>1, NodeWeightIsNat, InterPodIsInt, AmountsAssumption
<1> DEFINE scale == IF Max(weights) > 0 THEN Max(weights) ELSE 1
           range == IF Max(others) > Min(others) THEN Max(others) - Min(others) ELSE 1
<1>8. scale \in Int /\ range \in Int
  <2> HIDE DEF others, weights
  <2> QED
    BY <1>5
<1>9. \A r, s, g, u, w, i, l \in Int :
        r * s * g + 4 * u * w * g + 4 * u * (i - l) * s \in Int
  OBVIOUS
<1>10. Score(p, n, at, avail)
         = ResourceScore(p, n, avail) * scale * range
           + 4 * Unit * PreferredNodeAffinityWeight(p, n) * range
           + 4 * Unit * (InterPodAffinityScore(p, n, at) - Min(others)) * scale
  BY DEF Score
<1> HIDE DEF scale, range, others
<1> QED
  BY <1>5, <1>6, <1>7, <1>8, <1>9, <1>10

\* At most one node is preferred, as ties go by name.
LEMMA PreferredUnique ==
  ASSUME SpecOK, NEW p \in Moved, NEW at, NEW avail \in [Candidates -> Amounts],
         NEW n, NEW m, Preferred(p, n, at, avail), Preferred(p, m, at, avail)
  PROVE  n = m
<1> DEFINE score(k) == Score(p, k, at, avail)
<1>1. /\ n \in Admissible(p, at, avail) /\ m \in Admissible(p, at, avail)
      /\ n # m => /\ score(n) > score(m) \/ (score(n) = score(m) /\ n < m)
                  /\ score(m) > score(n) \/ (score(m) = score(n) /\ m < n)
  BY DEF Preferred
<1>2. score(n) \in Int /\ score(m) \in Int
  BY <1>1, ScoreIsInt
<1>3. n \in Nat /\ m \in Nat
  BY <1>1, MigrationAssumption DEF Admissible
<1> HIDE DEF score
<1> QED
  BY <1>1, <1>2, <1>3

-----------------------------------------------------------------------------
(***************************************************************************)
(* The two orders.  When all pods are alike in following others, the order *)
(* of placement is that of their sizes, and the second order goes through  *)
(* the situations of the first.                                            *)
(***************************************************************************)
Larger(p, q) ==
  \/ spec[p].cpu > spec[q].cpu
  \/ /\ spec[p].cpu = spec[q].cpu
     /\ spec[p].mem > spec[q].mem \/ (spec[p].mem = spec[q].mem /\ p < q)

Largest(S, p) == p \in S /\ \A q \in S \ {p} : Larger(p, q)

AllAlike == \A p, q \in Moved : Follower(p) = Follower(q)

\* Among pods without preferences the next one is the largest.
LEMMA NextIsLargest ==
  ASSUME AllAlike, todo \subseteq Moved, NEW p
  PROVE  IsNext(p) <=> Largest(todo, p)
<1>1. \A a, b \in Moved : Precedes(a, b) <=> Larger(a, b)
  BY DEF AllAlike, Precedes, Larger
<1> QED
  BY <1>1 DEF IsNext, Largest

\* At most one pod is the largest, as ties go by name.
LEMMA LargestUnique ==
  ASSUME SpecOK, NEW S \in SUBSET Moved, NEW p, NEW q, Largest(S, p), Largest(S, q)
  PROVE  p = q
<1>1. p \in Moved /\ q \in Moved
  BY DEF Largest
<1>2. /\ spec[p].cpu \in Nat /\ spec[p].mem \in Nat /\ spec[q].cpu \in Nat
      /\ spec[q].mem \in Nat /\ p \in Nat /\ q \in Nat
  BY <1>1, PodAmounts, MigrationAssumption DEF Pods
<1>3. p # q => Larger(p, q) /\ Larger(q, p)
  BY DEF Largest
<1> QED
  BY <1>2, <1>3 DEF Larger

\* A situation of an order: what is to place, what is placed, what is left.
Situation(pods, at, avail) == [pods |-> pods, at |-> at, avail |-> avail]

First == Situation(Moved, Unplaced, [n \in Candidates |-> NodeFreeResources(n)])

\* t follows s when the largest pod is placed on the candidate it prefers.
Leads(s, t) ==
  \E p \in Moved, n \in Candidates :
    /\ Largest(s.pods, p) /\ Preferred(p, n, s.at, s.avail)
    /\ t = Situation(s.pods \ {p}, [s.at EXCEPT ![p] = n],
                     [s.avail EXCEPT ![n] = Without(@, spec[p])])

\* The first order has come from situation to situation to now; the second one is
\* in a situation of the first, which ended with the plan.
Reached(S, now) ==
  /\ First \in S /\ now \in S
  /\ \A s \in S \ {now} : \E t \in S : Leads(s, t)
Repeats(S, now, result) ==
  /\ First \in S /\ now \in S
  /\ \A s \in S : \/ \E t \in S : Leads(s, t)
                  \/ s.pods = {} /\ s.at = result

SameOrder ==
  AllAlike =>
    /\ stage = "partnersFirst" => \E S : Reached(S, Situation(todo, plan, free))
    /\ stage = "followersFirst" =>
         \E S : Repeats(S, Situation(todo, alternative, free), plan)
    /\ stage \in {"spread", "planned"} => alternative = plan

\* None of this looks at anything but the pods and its arguments.
LEMMA SamePods ==
  ASSUME spec' = spec
  PROVE  /\ AllAlike' <=> AllAlike
         /\ First' = First
         /\ \A s, t : Leads(s, t)' <=> Leads(s, t)
<1>1. AllAlike' <=> AllAlike
  BY DEF AllAlike, Follower
<1>2. First' = First
  BY DEF First, Situation, NodeFreeResources, ResidentsOn, Requested
<1>3. \A p, n : PreferredNodeAffinityWeight(p, n)' = PreferredNodeAffinityWeight(p, n)
  BY DEF PreferredNodeAffinityWeight
<1>4. \A p, n, at : InterPodAffinityScore(p, n, at)' = InterPodAffinityScore(p, n, at)
  BY DEF InterPodAffinityScore, Occupants, ResidentsOn
<1>5. \A p, at, avail : Admissible(p, at, avail)' = Admissible(p, at, avail)
  BY DEF Admissible, ToleratesTaints, MatchesNodeAffinity, CheckAffinityOnNode,
         Occupants, ResidentsOn
<1>6. \A p, n, avail : ResourceScore(p, n, avail)' = ResourceScore(p, n, avail)
  BY DEF ResourceScore
<1>7. \A p, n, at, avail : Score(p, n, at, avail)' = Score(p, n, at, avail)
  BY <1>3, <1>4, <1>5, <1>6 DEF Score
<1>8. \A p, n, at, avail : Preferred(p, n, at, avail)' <=> Preferred(p, n, at, avail)
  BY <1>5, <1>7 DEF Preferred
<1>9. \A S, p : Largest(S, p)' <=> Largest(S, p)
  BY DEF Largest, Larger
<1> QED
  BY <1>1, <1>2, <1>8, <1>9 DEF Leads, Situation

\* The search does not change the pods.
LEMMA PodsStay ==
  ASSUME [Next]_vars PROVE spec' = spec
<1>1. ASSUME NEW p \in Moved, NEW n \in Candidates,
             PlaceInPlan(p, n) \/ PlaceInAlternative(p, n)
      PROVE  spec' = spec
  BY <1>1 DEF PlaceInPlan, PlaceInAlternative
<1>2. ASSUME NEW p \in Moved, NoPlan(p) \/ NoAlternative(p) PROVE spec' = spec
  BY <1>2 DEF NoPlan, NoAlternative
<1>3. CASE StartAlternative \/ AlternativeDone \/ Conclude
  BY <1>3 DEF StartAlternative, AlternativeDone, Conclude
<1>4. CASE UNCHANGED vars
  BY <1>4 DEF vars
<1> QED
  BY <1>1, <1>2, <1>3, <1>4 DEF Next

\* What the invariant says of the next state, while the pods stay.
LEMMA SameOrderAfter ==
  ASSUME spec' = spec
  PROVE  SameOrder' <=>
           (AllAlike =>
              /\ stage' = "partnersFirst" => \E S : Reached(S, Situation(todo', plan', free'))
              /\ stage' = "followersFirst" =>
                   \E S : Repeats(S, Situation(todo', alternative', free'), plan')
              /\ stage' \in {"spread", "planned"} => alternative' = plan')
<1>1. \A S, now : Reached(S, now)' <=> Reached(S, now)
  BY SamePods DEF Reached
<1>2. \A S, now, result : Repeats(S, now, result)' <=> Repeats(S, now, result)
  BY SamePods DEF Repeats
<1>3. \A t, a, f : Situation(t, a, f)' = Situation(t, a, f)
  BY DEF Situation
<1> QED
  BY <1>1, <1>2, <1>3, SamePods DEF SameOrder

\* The first order moves on.
LEMMA ReachedNext ==
  ASSUME NEW S, NEW now, NEW next, Reached(S, now), Leads(now, next)
  PROVE  \E T : Reached(T, next)
<1>1. Reached(S \cup {next}, next)
  BY DEF Reached
<1> QED
  BY <1>1

\* It ends: nothing is left to place, the situations it went through had something.
LEMMA ReachedEnds ==
  ASSUME NEW S, NEW at, NEW avail, Reached(S, Situation({}, at, avail))
  PROVE  Repeats(S, First, at)
<1> DEFINE now == Situation({}, at, avail)
<1>1. now.pods = {} /\ now.at = at
  BY DEF Situation
<1> QED
  BY <1>1 DEF Reached, Repeats

\* The second order does what the first one did in the same situation.
LEMMA RepeatsNext ==
  ASSUME SpecOK, NEW S, NEW pods \in SUBSET Moved, NEW at,
         NEW avail \in [Candidates -> Amounts], NEW result,
         Repeats(S, Situation(pods, at, avail), result),
         NEW p \in Moved, Largest(pods, p)
  PROVE  /\ Admissible(p, at, avail) # {}
         /\ \A n \in Candidates : Preferred(p, n, at, avail) =>
              Repeats(S, Situation(pods \ {p}, [at EXCEPT ![p] = n],
                                   [avail EXCEPT ![n] = Without(@, spec[p])]), result)
<1> DEFINE now == Situation(pods, at, avail)
<1>1. now \in S /\ now.pods = pods /\ now.at = at /\ now.avail = avail
  BY DEF Repeats, Situation
<1>2. pods # {}
  BY DEF Largest
<1>3. PICK t \in S : Leads(now, t)
  <2> HIDE DEF now
  <2> QED
    BY <1>1, <1>2 DEF Repeats
<1>4. PICK q \in Moved, m \in Candidates :
        /\ Largest(pods, q) /\ Preferred(q, m, at, avail)
        /\ t = Situation(pods \ {q}, [at EXCEPT ![q] = m],
                         [avail EXCEPT ![m] = Without(@, spec[q])])
  <2> HIDE DEF now
  <2> QED
    BY <1>1, <1>3 DEF Leads
<1>5. q = p
  BY <1>4, LargestUnique
<1>6. Admissible(p, at, avail) # {}
  BY <1>4, <1>5 DEF Preferred
<1>7. ASSUME NEW n \in Candidates, Preferred(p, n, at, avail)
      PROVE  Repeats(S, Situation(pods \ {p}, [at EXCEPT ![p] = n],
                                  [avail EXCEPT ![n] = Without(@, spec[p])]), result)
  <2>1. n = m
    BY <1>4, <1>5, <1>7, PreferredUnique
  <2> QED
    BY <1>3, <1>4, <1>5, <2>1 DEF Repeats
<1> QED
  BY <1>6, <1>7

\* When all pods are alike in following others, the alternative is the plan: the
\* second order starts where the first one did, finds in each situation the same
\* pod first and the same candidate preferred, and never fails.
THEOREM OneOrder == Spec => []OrdersAgree
<1>1. Init => SameOrder
  <2> SUFFICES ASSUME Init PROVE SameOrder
    OBVIOUS
  <2>1. Situation(todo, plan, free) = First
    BY DEF Init, First
  <2>2. Reached({First}, First)
    BY DEF Reached
  <2>3. stage = "partnersFirst"
    BY DEF Init
  <2> QED
    BY <2>1, <2>2, <2>3 DEF SameOrder
<1>2. TypeOK /\ Progress /\ SameOrder /\ [Next]_vars => SameOrder'
  <2> SUFFICES ASSUME TypeOK, Progress, SameOrder, [Next]_vars, AllAlike PROVE SameOrder'
    BY PodsStay, SameOrderAfter
  <2>0. SpecOK /\ free \in [Candidates -> Amounts] /\ todo \in SUBSET Moved
    BY DEF TypeOK, SpecOK, Amounts
  <2>1. ASSUME NEW p \in Moved, NEW n \in Candidates, PlaceInPlan(p, n)
        PROVE  SameOrder'
    <3>1. /\ stage = "partnersFirst" /\ stage' = stage /\ spec' = spec
          /\ IsNext(p) /\ Preferred(p, n, plan, free)
          /\ plan' = [plan EXCEPT ![p] = n] /\ todo' = todo \ {p}
          /\ free' = [free EXCEPT ![n] = Without(@, spec[p])]
      BY <2>1 DEF PlaceInPlan, PlacePod
    <3>2. Largest(todo, p)
      BY <2>0, <3>1, NextIsLargest
    <3>3. Leads(Situation(todo, plan, free), Situation(todo', plan', free'))
      BY <3>1, <3>2 DEF Leads, Situation
    <3>4. \E S : Reached(S, Situation(todo, plan, free))
      BY <3>1 DEF SameOrder
    <3>5. \E S : Reached(S, Situation(todo', plan', free'))
      BY <3>3, <3>4, ReachedNext
    <3> QED
      BY <3>1, <3>5, SameOrderAfter
  <2>2. ASSUME NEW p \in Moved, NEW n \in Candidates, PlaceInAlternative(p, n)
        PROVE  SameOrder'
    <3>1. /\ stage = "followersFirst" /\ stage' = stage /\ spec' = spec /\ plan' = plan
          /\ IsNext(p) /\ Preferred(p, n, alternative, free)
          /\ alternative' = [alternative EXCEPT ![p] = n] /\ todo' = todo \ {p}
          /\ free' = [free EXCEPT ![n] = Without(@, spec[p])]
      BY <2>2 DEF PlaceInAlternative, PlacePod
    <3>2. Largest(todo, p)
      BY <2>0, <3>1, NextIsLargest
    <3>3. PICK S : Repeats(S, Situation(todo, alternative, free), plan)
      BY <3>1 DEF SameOrder
    <3>4. Repeats(S, Situation(todo', alternative', free'), plan)
      BY <2>0, <3>1, <3>2, <3>3, RepeatsNext
    <3> QED
      BY <3>1, <3>4, SameOrderAfter
  <2>3. ASSUME NEW p \in Moved, NoPlan(p) PROVE SameOrder'
    BY <2>3, SameOrderAfter DEF NoPlan
  <2>4. ASSUME NEW p \in Moved, NoAlternative(p) PROVE SameOrder'
    <3>1. /\ stage = "followersFirst" /\ IsNext(p)
          /\ Admissible(p, alternative, free) = {}
      BY <2>4 DEF NoAlternative
    <3>2. Largest(todo, p)
      BY <2>0, <3>1, NextIsLargest
    <3>3. PICK S : Repeats(S, Situation(todo, alternative, free), plan)
      BY <3>1 DEF SameOrder
    <3> QED
      BY <2>0, <3>1, <3>2, <3>3, RepeatsNext
  <2>5. CASE StartAlternative
    <3>1. /\ stage = "partnersFirst" /\ todo = {} /\ stage' = "followersFirst"
          /\ spec' = spec /\ plan' = plan /\ alternative = Unplaced
          /\ Situation(todo', alternative', free') = First
      BY <2>5 DEF StartAlternative, Progress, First
    <3>2. PICK S : Reached(S, Situation({}, plan, free))
      BY <3>1 DEF SameOrder
    <3>3. Repeats(S, First, plan)
      BY <3>2, ReachedEnds
    <3> QED
      BY <3>1, <3>3, SameOrderAfter
  <2>6. CASE AlternativeDone
    <3>1. /\ stage = "followersFirst" /\ todo = {} /\ spec' = spec
          /\ stage' = "spread" /\ plan' = plan /\ alternative' = alternative
      BY <2>6 DEF AlternativeDone
    <3>2. PICK S : Repeats(S, Situation({}, alternative, free), plan)
      BY <3>1 DEF SameOrder
    <3>3. alternative = plan
      BY <3>2 DEF Repeats, Leads, Largest, Situation
    <3> QED
      BY <3>1, <3>3, SameOrderAfter
  <2>7. CASE Conclude
    <3>1. spec' = spec /\ plan' = plan /\ alternative' = alternative
          /\ stage' \in {"planned", "nil"}
      BY <2>7 DEF Conclude
    <3>2. alternative = plan
      BY <2>7 DEF Conclude, SameOrder
    <3> QED
      BY <3>1, <3>2, SameOrderAfter
  <2>8. CASE UNCHANGED vars
    <3>1. SameOrder' <=> SameOrder
      BY <2>8, SameOrderAfter DEF vars, SameOrder
    <3> QED
      BY <3>1
  <2> QED
    BY <2>1, <2>2, <2>3, <2>4, <2>5, <2>6, <2>7, <2>8 DEF Next
<1>3. SameOrder => OrdersAgree
  BY DEF SameOrder, AllAlike, OrdersAgree
<1> QED
  BY <1>1, <1>2, <1>3, Typing, Progressing, PTL DEF Spec

-----------------------------------------------------------------------------
(***************************************************************************)
(* The skew of a constraint, and how many of its pods two domains have.    *)
(***************************************************************************)
Site(moving, q) == IF q \in moving THEN plan[q] ELSE RunsNow(q)

Sharing(moving, n, constraint) ==
  {q \in Pods : /\ ~spec[q].finished /\ spec[q].app \in constraint.apps
                /\ Site(moving, q) \in Labelled(constraint.key)
                /\ Labels[Site(moving, q)][constraint.key] = Labels[n][constraint.key]}

\* The names of the pods that move tell them apart from all others.
NamesTell(moving) == \A p \in moving, q \in Pods : Name[p] = Name[q] => p = q

\* calculateRealSkew is the greatest difference between two domains.
LEMMA SkewIsWorst ==
  ASSUME SpecOK, NEW moving \in SUBSET Moved, NamesTell(moving), NEW constraint
  PROVE  LET domains == Labelled(constraint.key)
             size(n) == Cardinality(Sharing(moving, n, constraint))
             skew    == CalculateRealSkew(moving, constraint)
         IN  /\ \A n : size(n) \in Nat
             /\ skew \in Int
             /\ domains = {} => skew = 0
             /\ \A m, n \in domains : size(m) - size(n) =< skew
             /\ domains # {} => \E m, n \in domains : size(m) - size(n) = skew
<1> DEFINE key     == constraint.key
           domains == Labelled(key)
           static  == {q \in Pods : /\ ~spec[q].finished
                                    /\ \A p \in moving : Name[p] # Name[q]}
           At(n)   == {q \in {r \in static : RunsNow(r) = n} \cup {p \in moving : plan[p] = n} :
                         spec[q].app \in constraint.apps}
           Count(value) ==
             Cardinality(UNION {At(n) : n \in {m \in domains : Labels[m][key] = value}})
           counts  == {Count(Labels[n][key]) : n \in domains}
           skew    == CalculateRealSkew(moving, constraint)
           size(n) == Cardinality(Sharing(moving, n, constraint))
<1>1. skew = IF counts = {} THEN 0 ELSE Max(counts) - Min(counts)
  BY DEF CalculateRealSkew
<1>2. \A q \in Pods : ~spec[q].finished => (q \in static <=> q \notin moving)
  BY DEF NamesTell, Pods
<1>3. \A p \in moving : p \in Pods /\ ~spec[p].finished
  BY AmountsAssumption DEF SpecOK, Pods
<1>4. \A q, n : q \in At(n) <=> /\ q \in Pods /\ ~spec[q].finished
                                /\ Site(moving, q) = n /\ spec[q].app \in constraint.apps
  BY <1>2, <1>3 DEF Site
<1>5. ASSUME NEW n PROVE Count(Labels[n][key]) = size(n)
  <2> HIDE DEF At
  <2>1. UNION {At(k) : k \in {m \in domains : Labels[m][key] = Labels[n][key]}}
          = Sharing(moving, n, constraint)
    BY <1>4 DEF Sharing
  <2> QED
    BY <2>1
<1>6. \A n : size(n) \in Nat
  <2>1. \A n : IsFiniteSet(Sharing(moving, n, constraint))
    BY PodsFinite DEF Sharing
  <2> QED
    BY <2>1, FS_CardinalityType
<1>7. counts = {size(n) : n \in domains}
  <2> HIDE DEF Count, size
  <2> QED
    BY <1>5
<1>8. IsFiniteSet(counts) /\ counts \subseteq Int
  <2> DEFINE f == [n \in domains |-> size(n)]
  <2>1. IsFiniteSet(domains)
    BY MigrationAssumption, FS_Subset DEF Labelled
  <2>2. IsFiniteSet(Range(f))
    BY <2>1, RangeFinite
  <2> HIDE DEF counts, size
  <2>3. counts = Range(f)
    BY <1>7 DEF Range
  <2> QED
    BY <1>6, <1>7, <2>2, <2>3
<1> HIDE DEF counts, size, skew
<1>9. domains = {} <=> counts = {}
  BY <1>7
<1>10. CASE counts = {}
  BY <1>1, <1>6, <1>9, <1>10 DEF size, skew
<1>11. CASE counts # {}
  <2>1. /\ Max(counts) \in counts /\ \A x \in counts : Max(counts) >= x
        /\ Min(counts) \in counts /\ \A x \in counts : Min(counts) =< x
    BY <1>8, <1>11, MaxIsGreatest, MinIsLeast
  <2>2. skew \in Int /\ skew = Max(counts) - Min(counts)
    <3>1. Max(counts) \in Int /\ Min(counts) \in Int
      BY <1>8, <2>1
    <3>2. skew = Max(counts) - Min(counts)
      BY <1>1, <1>11
    <3> QED
      BY <3>1, <3>2
  <2>3. \A m, n \in domains : size(m) - size(n) =< skew
    BY <1>6, <1>7, <1>8, <2>1, <2>2
  <2>4. \E m, n \in domains : size(m) - size(n) = skew
    BY <1>7, <2>1, <2>2
  <2> QED
    BY <1>6, <1>9, <1>11, <2>2, <2>3, <2>4 DEF size, skew
<1> QED
  BY <1>10, <1>11

\* What the properties say of the pods after the move and before it.
LEMMA AfterAndBefore ==
  ASSUME NEW n, NEW constraint
  PROVE  /\ SharingDomain(n, constraint, RunsOn) = Sharing(Moved, n, constraint)
         /\ SharingDomain(n, constraint, RunsNow) = Sharing({}, n, constraint)
BY MigrationAssumption DEF SharingDomain, Sharing, Site, RunsOn, RunsNow

\* When the names of the moved pods tell them apart, a plan keeps their hard
\* constraints: the counts that are compared are those of the cluster after it.
THEOREM Spread == ASSUME NamesTell(Moved) PROVE Spec => []SpreadKept
<1> DEFINE Checked == stage = "planned" => CheckTopologySpread
<1>1. Init => Checked
  BY DEF Init
<1>2. Checked /\ [Next]_vars => Checked'
  <2> SUFFICES ASSUME Checked, [Next]_vars PROVE Checked'
    OBVIOUS
  <2>1. ASSUME NEW p \in Moved, NEW n \in Candidates,
               PlaceInPlan(p, n) \/ PlaceInAlternative(p, n)
        PROVE  Checked'
    BY <2>1 DEF PlaceInPlan, PlaceInAlternative
  <2>2. ASSUME NEW p \in Moved, NoPlan(p) \/ NoAlternative(p) PROVE Checked'
    BY <2>2 DEF NoPlan, NoAlternative
  <2>3. CASE StartAlternative \/ AlternativeDone
    BY <2>3 DEF StartAlternative, AlternativeDone
  <2>4. spec' = spec /\ plan' = plan => (CheckTopologySpread' <=> CheckTopologySpread)
    BY DEF CheckTopologySpread, CalculateRealSkew, RunsNow
  <2>5. CASE Conclude
    BY <2>4, <2>5 DEF Conclude
  <2>6. CASE UNCHANGED vars
    BY <2>4, <2>6 DEF vars
  <2> QED
    BY <2>1, <2>2, <2>3, <2>5, <2>6 DEF Next
<1>3. TypeOK /\ Checked => SpreadKept
  <2> SUFFICES ASSUME TypeOK, CheckTopologySpread,
                      NEW p \in Moved, NEW c \in spec[p].spread, c.hard,
                      NEW m \in Labelled(c.key), NEW n \in Labelled(c.key)
               PROVE  Imbalance(m, n, c, RunsOn) =< c.maxSkew
    BY DEF SpreadKept
  <2>1. SpecOK
    BY DEF TypeOK, SpecOK
  <2>2. CalculateRealSkew(Moved, c) =< c.maxSkew /\ c.maxSkew \in Nat
    BY <2>1, AmountsAssumption DEF CheckTopologySpread, SpecOK
  <2> DEFINE size(k) == Cardinality(Sharing(Moved, k, c))
             skew    == CalculateRealSkew(Moved, c)
  <2>3. /\ \A k : size(k) \in Nat
        /\ skew \in Int /\ size(m) - size(n) =< skew
    BY <2>1, SkewIsWorst
  <2>4. Imbalance(m, n, c, RunsOn) = size(m) - size(n)
    BY AfterAndBefore DEF Imbalance
  <2> HIDE DEF size, skew
  <2>5. size(m) - size(n) =< c.maxSkew
    BY <2>2, <2>3 DEF skew
  <2> QED
    BY <2>4, <2>5
<1> QED
  BY <1>1, <1>2, <1>3, Typing, PTL DEF Spec

-----------------------------------------------------------------------------
(***************************************************************************)
(* What a plan costs.  Each criterion sums up natural numbers, and so is   *)
(* zero exactly when all of them are.                                      *)
(***************************************************************************)
LEMMA MeanOfNone ==
  ASSUME NEW lost \in Nat PROVE MeanOfOrders(lost) = 0 <=> lost = 0
BY DEF MeanOfOrders

\* The orders that a property looks at are those that are scored.
LEMMA OrdersScored ==
  ASSUME stage = "planned", PlanComplete
  PROVE  {plan, alternative} \ {Unplaced} = {plan, AltNodeOf}
<1>1. PICK p \in Moved : plan[p] \in Candidates
  BY MigrationAssumption DEF PlanComplete
<1>2. plan # Unplaced
  BY <1>1, MigrationAssumption DEF Unplaced
<1> QED
  BY <1>2 DEF AltNodeOf

\* The node affinity of a plan costs something exactly when a pod is worse off.
THEOREM NodeAffinity == Spec => []NodeAffinityPriced
<1>1. TypeOK /\ PlanComplete => NodeAffinityPriced
  <2> SUFFICES ASSUME TypeOK, PlanComplete, stage = "planned"
               PROVE  GetPreferredNodeAffinity = 0
                        <=> \A at \in {plan, alternative} \ {Unplaced} : \A p \in Moved :
                              PreferredNodeAffinityWeight(p, at[p])
                                >= PreferredNodeAffinityWeight(p, Drained)
    BY DEF NodeAffinityPriced
  <2> DEFINE weight(p, n) == PreferredNodeAffinityWeight(p, n)
             loss(p, n) == NodeAffinityLoss(weight(p, Drained), weight(p, n))
             both == [p \in Moved |-> loss(p, plan[p]) + loss(p, AltNodeOf[p])]
  <2>1. \A p \in Moved : \A n : weight(p, n) \in Nat
    BY NodeWeightIsNat DEF TypeOK, SpecOK, Pods
  <2> HIDE DEF weight
  <2>2. \A p \in Moved : \A n :
          loss(p, n) \in Nat /\ (loss(p, n) = 0 <=> weight(p, n) >= weight(p, Drained))
    BY <2>1 DEF NodeAffinityLoss
  <2> HIDE DEF loss
  <2>3. IsFiniteSet(DOMAIN both) /\ \A p \in DOMAIN both : both[p] \in Nat
    BY <2>2, MigrationAssumption
  <2>4. SumFunction(both) \in Nat /\ (SumFunction(both) = 0 <=> \A p \in DOMAIN both : both[p] = 0)
    <3> HIDE DEF both
    <3> QED
      BY <2>3, TotalIsNat
  <2>5. SumFunction(both) = 0
          <=> \A p \in Moved : loss(p, plan[p]) = 0 /\ loss(p, AltNodeOf[p]) = 0
    BY <2>2, <2>4
  <2>6. GetPreferredNodeAffinity = MeanOfOrders(SumFunction(both))
    BY DEF GetPreferredNodeAffinity, weight, loss
  <2> HIDE DEF both
  <2> QED
    BY <2>2, <2>4, <2>5, <2>6, MeanOfNone, OrdersScored DEF weight
<1> QED
  BY <1>1, Typing, Complete, PTL

-----------------------------------------------------------------------------
\* There are finitely many preferred pairs.
LEMMA PairsFinite ==
  ASSUME SpecOK
  PROVE  IsFiniteSet(PreferredPairs)
<1> DEFINE terms == UNION {spec[p].follows : p \in Pods}
           all   == (Pods \X Pods) \X terms
           f     == [x \in all |-> <<x[1][1], x[1][2], x[2]>>]
           h     == [p \in Pods |-> spec[p].follows]
<1>1. IsFiniteSet(Pods) /\ ExistingPods \subseteq Pods
  BY PodsFinite DEF ExistingPods, ResidentsOn, Pods
<1>2. IsFiniteSet(terms)
  <2>1. IsFiniteSet(Range(h))
    BY <1>1, RangeFinite
  <2>2. Range(h) = {spec[p].follows : p \in Pods}
    BY DEF Range
  <2>3. \A T \in {spec[p].follows : p \in Pods} : IsFiniteSet(T)
    BY TermsOfPod
  <2> HIDE DEF h
  <2> QED
    BY <2>1, <2>2, <2>3, FS_UNION
<1> HIDE DEF terms
<1>3. IsFiniteSet(Pods \X Pods)
  BY <1>1, FS_Product
<1>4. IsFiniteSet(all)
  BY <1>2, <1>3, FS_Product
<1>5. IsFiniteSet(Range(f))
  BY <1>4, RangeFinite
<1>6. PreferredPairs \subseteq Range(f)
  <2> SUFFICES ASSUME NEW pair \in PreferredPairs PROVE pair \in Range(f)
    OBVIOUS
  <2>1. PICK p \in ExistingPods, q \in ExistingPods : \E t \in spec[p].follows : pair = <<p, q, t>>
    BY DEF PreferredPairs
  <2>2. PICK t \in spec[p].follows : pair = <<p, q, t>>
    BY <2>1
  <2>3. <<<<p, q>>, t>> \in all
    BY <1>1 DEF terms
  <2>4. f[<<<<p, q>>, t>>] = pair
    BY <2>2, <2>3
  <2> QED
    BY <2>3, <2>4 DEF Range
<1> QED
  BY <1>5, <1>6, FS_Subset

\* Preferred partners cost something exactly when a pod has to do without one.
THEOREM Partners == Spec => []PartnersPriced
<1>1. TypeOK /\ PlanComplete => PartnersPriced
  <2> SUFFICES ASSUME TypeOK, PlanComplete, stage = "planned"
               PROVE  GetPreferredInterPodAffinity = 0
                        <=> \A at \in {plan, AltNodeOf} :
                              \A p \in ExistingPods : \A q \in ExistingPods \ {p} :
                                \A term \in spec[p].follows :
                                  PodMatchesAffinityTerm(spec[p], spec[q], term)
                                    => StillTogether(p, q, at, term.key)
    BY OrdersScored DEF PartnersPriced, StillTogether
  <2> DEFINE both == [pair \in PreferredPairs |-> LostIn(plan, pair) + LostIn(AltNodeOf, pair)]
             Kept(at, pair) == StillTogether(pair[1], pair[2], at, pair[3].key)
  <2>0. SpecOK /\ ExistingPods \subseteq Pods
    BY DEF TypeOK, SpecOK, ExistingPods, ResidentsOn, Pods
  <2>1. \A pair : pair \in PreferredPairs
          <=> \E p \in ExistingPods : \E q \in ExistingPods \ {p} : \E term \in spec[p].follows :
                /\ pair = <<p, q, term>>
                /\ PodMatchesAffinityTerm(spec[p], spec[q], term)
    BY DEF PreferredPairs
  <2>2. ASSUME NEW pair \in PreferredPairs, NEW at
        PROVE  LostIn(at, pair) \in Nat /\ (LostIn(at, pair) = 0 <=> Kept(at, pair))
    <3>0. PICK p \in ExistingPods, q \in ExistingPods :
            \E term \in spec[p].follows : pair = <<p, q, term>>
      BY <2>1
    <3>1. PICK term \in spec[p].follows : pair = <<p, q, term>>
      BY <3>0
    <3>2. term.weight \in 1..100
      BY <2>0, <3>1, TermsOfPod
    <3> QED
      BY <3>1, <3>2 DEF LostIn
  <2>3. IsFiniteSet(DOMAIN both) /\ \A pair \in DOMAIN both : both[pair] \in Nat
    BY <2>0, <2>2, PairsFinite
  <2>4. /\ SumFunction(both) \in Nat
        /\ SumFunction(both) = 0 <=> \A pair \in DOMAIN both : both[pair] = 0
    <3> HIDE DEF both
    <3> QED
      BY <2>3, TotalIsNat
  <2>5. SumFunction(both) = 0
          <=> \A pair \in PreferredPairs : Kept(plan, pair) /\ Kept(AltNodeOf, pair)
    <3> HIDE DEF Kept
    <3>1. \A pair \in PreferredPairs :
            both[pair] = 0 <=> Kept(plan, pair) /\ Kept(AltNodeOf, pair)
      BY <2>2
    <3> QED
      BY <2>4, <3>1
  <2>6. GetPreferredInterPodAffinity = 0 <=> SumFunction(both) = 0
    <3>1. GetPreferredInterPodAffinity = MeanOfOrders(SumFunction(both))
      BY DEF GetPreferredInterPodAffinity
    <3> HIDE DEF both
    <3> QED
      BY <2>4, <3>1, MeanOfNone
  <2>7. ASSUME NEW at
        PROVE  (\A pair \in PreferredPairs : Kept(at, pair))
                 <=> \A p \in ExistingPods : \A q \in ExistingPods \ {p} :
                       \A term \in spec[p].follows :
                         PodMatchesAffinityTerm(spec[p], spec[q], term)
                           => StillTogether(p, q, at, term.key)
    <3>1. ASSUME \A pair \in PreferredPairs : Kept(at, pair),
                 NEW p \in ExistingPods, NEW q \in ExistingPods \ {p}, NEW term \in spec[p].follows,
                 PodMatchesAffinityTerm(spec[p], spec[q], term)
          PROVE  StillTogether(p, q, at, term.key)
      <4>1. <<p, q, term>> \in PreferredPairs
        BY <2>1, <3>1
      <4> QED
        BY <3>1, <4>1
    <3>2. ASSUME \A p \in ExistingPods : \A q \in ExistingPods \ {p} :
                   \A term \in spec[p].follows :
                     PodMatchesAffinityTerm(spec[p], spec[q], term)
                       => StillTogether(p, q, at, term.key),
                 NEW pair \in PreferredPairs
          PROVE  Kept(at, pair)
      BY <2>1, <3>2
    <3> QED
      BY <3>1, <3>2
  <2> HIDE DEF both, Kept
  <2> QED
    BY <2>5, <2>6, <2>7
<1> QED
  BY <1>1, Typing, Complete, PTL

-----------------------------------------------------------------------------
\* What a pod holds against another one is a number, and zero only without a matching term.
LEMMA ShunnedIsNat ==
  ASSUME SpecOK, NEW p \in Pods, NEW q
  PROVE  /\ Shunned(p, q) \in Nat
         /\ Shunned(p, q) = 0
              <=> \A term \in spec[p].shuns : ~PodMatchesAffinityTerm(spec[p], spec[q], term)
<1> DEFINE matched == {term \in spec[p].shuns : PodMatchesAffinityTerm(spec[p], spec[q], term)}
           weight  == [term \in matched |-> term.weight]
<1>1. IsFiniteSet(spec[p].shuns) /\ \A term \in spec[p].shuns : term.weight \in 1..100
  BY TermsOfPod
<1>2. IsFiniteSet(DOMAIN weight) /\ \A term \in DOMAIN weight : weight[term] \in Nat
  BY <1>1, FS_Subset
<1>3. /\ SumFunction(weight) \in Nat
      /\ SumFunction(weight) = 0 <=> \A term \in DOMAIN weight : weight[term] = 0
  <2> HIDE DEF weight
  <2> QED
    BY <1>2, TotalIsNat
<1>4. SumFunction(weight) = 0 <=> matched = {}
  BY <1>1, <1>3
<1>5. Shunned(p, q) = SumFunction(weight)
  BY DEF Shunned
<1> HIDE DEF weight
<1> QED
  BY <1>3, <1>4, <1>5

\* Crowding costs something exactly when a moved pod gets a neighbour it shuns.
THEOREM Crowding == Spec => []CrowdingPriced
<1>1. TypeOK /\ PlanComplete => CrowdingPriced
  <2> SUFFICES ASSUME TypeOK, PlanComplete, stage = "planned"
               PROVE  GetPreferredInterPodAntiAffinity = 0
                        <=> \A p \in Moved : \A q \in Pods \ {p} :
                              RunsOn(q) = plan[p] /\ ~spec[q].system
                                => \A term \in spec[p].shuns :
                                     ~PodMatchesAffinityTerm(spec[p], spec[q], term)
    BY DEF CrowdingPriced
  <2>0. SpecOK /\ Moved \subseteq Pods
    BY DEF TypeOK, SpecOK, Pods
  <2>1. ASSUME NEW p \in Moved
        PROVE  Neighbours(p) = {q \in Pods \ {p} : RunsOn(q) = plan[p] /\ ~spec[q].system}
    <3>1. \A q \in Moved : ~spec[q].system
      BY <2>0, AmountsAssumption DEF SpecOK
    <3> QED
      BY <3>1, MigrationAssumption DEF Neighbours, Occupants, ResidentsOn, RunsOn, Pods
  <2> DEFINE shuns(p) == [q \in Neighbours(p) |-> Shunned(p, q)]
             against  == [p \in Moved |-> SumFunction(shuns(p))]
  <2>2. ASSUME NEW p \in Moved
        PROVE  /\ SumFunction(shuns(p)) \in Nat
               /\ SumFunction(shuns(p)) = 0 <=> \A q \in Neighbours(p) : Shunned(p, q) = 0
    <3> DEFINE f == shuns(p)
    <3>1. IsFiniteSet(Neighbours(p))
      BY <2>1, PodsFinite
    <3>2. \A q \in Neighbours(p) : Shunned(p, q) \in Nat
      BY <2>0, ShunnedIsNat
    <3>3. IsFiniteSet(DOMAIN f) /\ \A q \in DOMAIN f : f[q] \in Nat
      BY <3>1, <3>2
    <3>4. SumFunction(f) \in Nat /\ (SumFunction(f) = 0 <=> \A q \in DOMAIN f : f[q] = 0)
      <4> HIDE DEF f
      <4> QED
        BY <3>3, TotalIsNat
    <3> QED
      BY <3>4
  <2> HIDE DEF shuns
  <2>3. IsFiniteSet(DOMAIN against) /\ \A p \in DOMAIN against : against[p] \in Nat
    BY <2>2, MigrationAssumption
  <2>4. SumFunction(against) = 0 <=> \A p \in DOMAIN against : against[p] = 0
    <3> HIDE DEF against
    <3> QED
      BY <2>3, TotalIsNat
  <2>5. GetPreferredInterPodAntiAffinity = SumFunction(against)
    BY DEF GetPreferredInterPodAntiAffinity, shuns
  <2>6. GetPreferredInterPodAntiAffinity = 0
          <=> \A p \in Moved : \A q \in Neighbours(p) : Shunned(p, q) = 0
    BY <2>2, <2>4, <2>5
  <2>7. \A p \in Moved, q \in Pods :
          Shunned(p, q) = 0
            <=> \A term \in spec[p].shuns : ~PodMatchesAffinityTerm(spec[p], spec[q], term)
    BY <2>0, ShunnedIsNat
  <2> QED
    BY <2>1, <2>6, <2>7
<1> QED
  BY <1>1, Typing, Complete, PTL

-----------------------------------------------------------------------------
\* There are finitely many spread constraints.
LEMMA ConstraintsFinite ==
  ASSUME SpecOK PROVE IsFiniteSet(DistinctConstraints)
<1> DEFINE spreads == [p \in Moved |-> spec[p].spread]
           all == UNION {spec[p].spread : p \in Moved}
           d   == [c \in all |-> [key |-> c.key, apps |-> c.apps]]
<1>1. IsFiniteSet(all)
  <2>1. IsFiniteSet(Range(spreads))
    BY MigrationAssumption, RangeFinite
  <2>2. Range(spreads) = {spec[p].spread : p \in Moved}
    BY DEF Range
  <2>3. \A T \in {spec[p].spread : p \in Moved} : IsFiniteSet(T)
    BY AmountsAssumption DEF SpecOK
  <2> HIDE DEF spreads
  <2> QED
    BY <2>1, <2>2, <2>3, FS_UNION
<1> HIDE DEF all
<1>2. IsFiniteSet(Range(d))
  BY <1>1, RangeFinite
<1>3. Range(d) = DistinctConstraints
  BY DEF Range, DistinctConstraints, all
<1> QED
  BY <1>2, <1>3

\* The spread costs something exactly when two domains of a moved pod's constraint
\* come to differ by more than any two did before.
THEOREM SpreadCost == ASSUME NamesTell(Moved) PROVE Spec => []SpreadPriced
<1>1. TypeOK => SpreadPriced
  <2> DEFINE Apart(c) ==
               \A m, n \in Labelled(c.key) : \E k, l \in Labelled(c.key) :
                 Imbalance(m, n, c, RunsOn) =< Imbalance(k, l, c, RunsNow)
             degradation == [c \in DistinctConstraints |-> Degradation(c)]
  <2> SUFFICES ASSUME TypeOK
               PROVE  GetTopologySpreadScore = 0 <=> \A p \in Moved : \A c \in spec[p].spread : Apart(c)
    BY DEF SpreadPriced
  <2>0. SpecOK /\ NamesTell({})
    BY DEF TypeOK, SpecOK, NamesTell
  <2>1. ASSUME NEW c PROVE Degradation(c) \in Nat /\ (Degradation(c) = 0 <=> Apart(c))
    <3> DEFINE domains == Labelled(c.key)
               size(n) == Cardinality(Sharing(Moved, n, c))
               sizeNow(n) == Cardinality(Sharing({}, n, c))
               skew    == CalculateRealSkew(Moved, c)
               skewNow == CalculateRealSkew({}, c)
    <3>1. /\ \A n : size(n) \in Nat
          /\ skew \in Int /\ (domains = {} => skew = 0)
          /\ \A m, n \in domains : size(m) - size(n) =< skew
          /\ domains # {} => \E m, n \in domains : size(m) - size(n) = skew
      BY <2>0, SkewIsWorst
    <3>2. /\ \A n : sizeNow(n) \in Nat
          /\ skewNow \in Int /\ (domains = {} => skewNow = 0)
          /\ \A m, n \in domains : sizeNow(m) - sizeNow(n) =< skewNow
          /\ domains # {} => \E m, n \in domains : sizeNow(m) - sizeNow(n) = skewNow
      BY <2>0, SkewIsWorst
    <3>3. Apart(c) <=> \A m, n \in domains : \E k, l \in domains :
                         size(m) - size(n) =< sizeNow(k) - sizeNow(l)
      <4>1. \A m, n : Imbalance(m, n, c, RunsOn) = size(m) - size(n)
        BY AfterAndBefore DEF Imbalance
      <4>2. \A m, n : Imbalance(m, n, c, RunsNow) = sizeNow(m) - sizeNow(n)
        BY AfterAndBefore DEF Imbalance
      <4> DEFINE after(m, n) == Imbalance(m, n, c, RunsOn)
                 before(m, n) == Imbalance(m, n, c, RunsNow)
      <4>3. Apart(c) <=> \A m, n \in domains : \E k, l \in domains : after(m, n) =< before(k, l)
        OBVIOUS
      <4>4. /\ \A m, n : after(m, n) = size(m) - size(n)
            /\ \A m, n : before(m, n) = sizeNow(m) - sizeNow(n)
        BY <4>1, <4>2
      <4> HIDE DEF size, sizeNow, after, before, domains, Apart
      <4> QED
        BY <4>3, <4>4
    <3>4. Degradation(c) = Max({0, skew - skewNow})
      BY DEF Degradation
    <3> HIDE DEF size, sizeNow, skew, skewNow, domains, Apart
    <3>5. Apart(c) <=> skew - skewNow =< 0
      <4>1. CASE domains = {}
        BY <3>1, <3>2, <3>3, <4>1
      <4>2. CASE domains # {}
        <5>1. PICK m \in domains, n \in domains : size(m) - size(n) = skew
          BY <3>1, <4>2
        <5>2. PICK k \in domains, l \in domains : sizeNow(k) - sizeNow(l) = skewNow
          BY <3>2, <4>2
        <5>3. ASSUME Apart(c) PROVE skew - skewNow =< 0
          <6>1. PICK i \in domains, j \in domains : skew =< sizeNow(i) - sizeNow(j)
            BY <3>3, <5>1, <5>3
          <6> QED
            BY <3>1, <3>2, <6>1
        <5>4. ASSUME skew - skewNow =< 0 PROVE Apart(c)
          <6>1. \A i, j \in domains : size(i) - size(j) =< sizeNow(k) - sizeNow(l)
            BY <3>1, <3>2, <5>2, <5>4
          <6> QED
            BY <3>3, <6>1
        <5> QED
          BY <5>3, <5>4
      <4> QED
        BY <4>1, <4>2
    <3>6. /\ Max({0, skew - skewNow}) \in {0, skew - skewNow}
          /\ \A x \in {0, skew - skewNow} : Max({0, skew - skewNow}) >= x
      <4> DEFINE S == {0, skew - skewNow}
      <4>1. S \subseteq Int /\ S # {}
        BY <3>1, <3>2
      <4>2. IsFiniteSet(S)
        <5>1. PICK x : x = skew - skewNow
          OBVIOUS
        <5>2. IsFiniteSet({0}) /\ IsFiniteSet({x})
          BY FS_Singleton
        <5>3. IsFiniteSet({0} \cup {x})
          BY <5>2, FS_Union
        <5>4. S = {0} \cup {x}
          BY <5>1
        <5> QED
          BY <5>3, <5>4
      <4> HIDE DEF S
      <4>3. Max(S) \in S /\ \A x \in S : Max(S) >= x
        BY <4>1, <4>2, MaxIsGreatest
      <4> QED
        BY <4>3 DEF S
    <3> QED
      BY <3>1, <3>2, <3>4, <3>5, <3>6
  <2>2. IsFiniteSet(DOMAIN degradation) /\ \A c \in DOMAIN degradation : degradation[c] \in Nat
    BY <2>0, <2>1, ConstraintsFinite
  <2>3. SumFunction(degradation) = 0 <=> \A c \in DOMAIN degradation : degradation[c] = 0
    <3> HIDE DEF degradation
    <3> QED
      BY <2>2, TotalIsNat
  <2>4. GetTopologySpreadScore = 0 <=> \A c \in DistinctConstraints : Apart(c)
    <3> HIDE DEF Apart
    <3> QED
      BY <2>1, <2>3 DEF GetTopologySpreadScore
  <2>5. ASSUME NEW p \in Moved, NEW c \in spec[p].spread
        PROVE  /\ [key |-> c.key, apps |-> c.apps] \in DistinctConstraints
               /\ Apart([key |-> c.key, apps |-> c.apps]) <=> Apart(c)
    <3>1. [key |-> c.key, apps |-> c.apps] \in DistinctConstraints
      BY DEF DistinctConstraints
    <3>2. Apart([key |-> c.key, apps |-> c.apps]) <=> Apart(c)
      BY DEF Imbalance, SharingDomain
    <3> QED
      BY <3>1, <3>2
  <2>6. \A d \in DistinctConstraints : \E p \in Moved : \E c \in spec[p].spread :
          d = [key |-> c.key, apps |-> c.apps]
    BY DEF DistinctConstraints
  <2> HIDE DEF Apart
  <2> QED
    BY <2>4, <2>5, <2>6
<1> QED
  BY <1>1, Typing, PTL
=============================================================================
