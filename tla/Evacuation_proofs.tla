-------------------------- MODULE Evacuation_proofs --------------------------
(***************************************************************************)
(* What holds of an evacuation for any pods, any budget, any room and any  *)
(* number of faults.                                                       *)
(***************************************************************************)
EXTENDS Evacuation, FiniteSetTheorems, TLAPS

\* The pods a drain waits for are no more than there are.
LEMMA RemainingBounded == Remaining \in 0..Cardinality(Pods)
<1>1. StillThere \subseteq Pods
  BY DEF StillThere, Drained, Pods
<1>2. IsFiniteSet(Pods)
  BY EvacuationAssumption
<1>3. /\ IsFiniteSet(StillThere)
      /\ Cardinality(StillThere) \in Nat /\ Cardinality(Pods) \in Nat
      /\ Cardinality(StillThere) <= Cardinality(Pods)
  BY <1>1, <1>2, FS_Subset, FS_CardinalityType
<1> QED
  BY <1>3 DEF Remaining

\* A fault is counted up to the bound.
LEMMA FaultCounted ==
  ASSUME faults \in 0..MaxFaults, NEW kind, Fault(kind)
  PROVE  faults' \in 0..MaxFaults
BY EvacuationAssumption DEF Fault

\* A patch of spec.unschedulable leaves a flag, and the operator at a position.
LEMMA PatchEffect ==
  ASSUME TypeOK, NEW value \in BOOLEAN, NEW next \in Stages, NEW else \in Stages,
         Patches(value, next, else)
  PROVE  cordoned' \in BOOLEAN /\ stage' \in {next, else} /\ faults' \in 0..MaxFaults
<1>1. cordoned' \in BOOLEAN
  BY DEF Patches, TypeOK, FlagsOK
<1>2. stage' \in {next, else}
  BY DEF Patches, Succeeds, Fails, Goto
<1>3. faults' = faults \/ (\E kind : Fault(kind))
  BY DEF Patches, Succeeds, Fails
<1> QED
  BY <1>1, <1>2, <1>3, FaultCounted DEF TypeOK

\* A replaced pod is off the node, and so is the one that replaces it.
LEMMA ReplacedEffect ==
  ASSUME TypeOK, NEW p \in Pods, Replaced(p)
  PROVE  /\ place' \in [Pods -> Places]
         /\ \A q \in Pods : place'[q] \in {place[q], "none", "waiting"}
BY EvacuationAssumption DEF Replaced, Places, TypeOK

\* An eviction brings no pod to the node.
LEMMA EvictionEffect ==
  ASSUME TypeOK, NEW p \in Pods, Eviction(p) \/ UNCHANGED place
  PROVE  /\ place' \in [Pods -> Places]
         /\ \A q \in Pods : place'[q] \in OnNode => place[q] \in OnNode
<1>1. CASE Replaced(p)
  BY <1>1, ReplacedEffect DEF OnNode
<1>2. ASSUME NEW to \in Places, Move(p, to), place[p] = "here" \/ to \notin OnNode
      PROVE  /\ place' \in [Pods -> Places]
             /\ \A q \in Pods : place'[q] \in OnNode => place[q] \in OnNode
  BY <1>2 DEF Move, OnNode, TypeOK
<1>3. CASE UNCHANGED place
  BY <1>3 DEF TypeOK
<1> QED
  BY <1>1, <1>2, <1>3 DEF Eviction, OnNode, Places

\* Caches and flags stay flags.
LEMMA Flags ==
  ASSUME TypeOK, [Next]_vars
  PROVE  FlagsOK'
<1>1. CASE Cordon \/ Abort
  <2>1. /\ cordoned' \in BOOLEAN
    BY <1>1, PatchEffect DEF Cordon, Abort, Stages
  <2> QED
    BY <1>1, <2>1 DEF Cordon, Abort, views, TypeOK, FlagsOK
<1>2. CASE Restart \/ DeliverNode
  BY <1>2 DEF Restart, DeliverNode, nodeVars, TypeOK, FlagsOK
<1>3. CASE Select \/ List \/ PollEnds \/ SwitchOff \/ AwaitOff \/ Deadline
  BY <1>3 DEF Select, List, PollEnds, SwitchOff, AwaitOff, Deadline, nodeVars,
              views, TypeOK, FlagsOK
<1>4. ASSUME NEW p \in Pods, Evict(p) \/ PodStep(p) PROVE FlagsOK'
  BY <1>4 DEF Evict, PodStep, Deliver, ChooseNode, Bind, PlaceElsewhere,
              Terminate, Finish, Moves, nodeVars, views, TypeOK, FlagsOK
<1>5. CASE MachineStops \/ UNCHANGED vars
  BY <1>5 DEF MachineStops, vars, nodeVars, views, TypeOK, FlagsOK
<1> QED
  BY <1>1, <1>2, <1>3, <1>4, <1>5 DEF Next, ScaleDown

\* Pods, caches, machine and drain have their types.
THEOREM Typing == Spec => []TypeOK
<1>1. Init => TypeOK
  <2> SUFFICES ASSUME Init PROVE TypeOK
    OBVIOUS
  <2>1. Cardinality(Pods) \in Nat
    BY EvacuationAssumption, FS_CardinalityType
  <2>2. place \in [Pods -> Places] /\ seen \in [Pods -> Places]
    <3>1. place \in [Pods -> {"none", "waiting", "here", "away"}] /\ seen = place
      BY DEF Init
    <3> QED
      BY <3>1 DEF Places
  <2>3. FlagsOK
    BY DEF Init, FlagsOK
  <2> QED
    BY <2>1, <2>2, <2>3, EvacuationAssumption DEF Init, TypeOK, Stages
<1>2. TypeOK /\ [Next]_vars => TypeOK'
  <2> SUFFICES ASSUME TypeOK, [Next]_vars PROVE TypeOK'
    OBVIOUS
  <2>0. FlagsOK'
    BY Flags
  <2>c. Cardinality(Pods) \in Nat
    BY EvacuationAssumption, FS_CardinalityType
  <2> USE <2>0, <2>c DEF TypeOK
  <2>1. CASE Select
    BY <2>1 DEF Select, Succeeds, Goto, Stages, podVars, nodeVars, views, poll
  <2>2. CASE Cordon
    BY <2>2, PatchEffect DEF Cordon, Stages, podVars, views, poll
  <2>3. CASE List
    <3>1. stage' \in Stages /\ faults' \in 0..MaxFaults
      BY <2>3 DEF List, Succeeds, Goto, Stages
    <3>2. todo' \subseteq Pods /\ remaining' \in 0..Cardinality(Pods)
      BY <2>3, RemainingBounded DEF List, SeenAt
    <3>3. unlisted' \subseteq Pods
      BY <2>3 DEF List
    <3> QED
      BY <2>3, <3>1, <3>2, <3>3 DEF List, nodeVars, views
  <2>4. ASSUME NEW p \in Pods, Evict(p) PROVE TypeOK'
    <3>1. stage' \in Stages /\ faults' \in 0..MaxFaults
      BY <2>4, FaultCounted DEF Evict, Succeeds, Fails, Goto, Stages
    <3>2. place' \in [Pods -> Places]
      BY <2>4, EvictionEffect DEF Evict
    <3> QED
      BY <2>4, <3>1, <3>2 DEF Evict, nodeVars, views
  <2>5. CASE PollEnds
    BY <2>5 DEF PollEnds, Succeeds, Goto, Stages, podVars, nodeVars, views, poll
  <2>6. CASE SwitchOff
    <3>1. stage' \in Stages /\ faults' \in 0..MaxFaults
      BY <2>6, FaultCounted DEF SwitchOff, Succeeds, Fails, Goto, Stages
    <3>2. machine' \in {"on", "stopping", "off"}
      BY <2>6 DEF SwitchOff, Shutdown
    <3> QED
      BY <2>6, <3>1, <3>2 DEF SwitchOff, podVars, views, poll
  <2>7. CASE AwaitOff \/ Deadline
    <3>1. stage' \in Stages /\ faults' \in 0..MaxFaults
      BY <2>7, FaultCounted DEF AwaitOff, Deadline, Succeeds, Fails, Goto, Stages
    <3> QED
      BY <2>7, <3>1 DEF AwaitOff, Deadline, podVars, nodeVars, views, poll
  <2>8. CASE Abort
    BY <2>8, PatchEffect DEF Abort, Stages, podVars, views, poll
  <2>9. CASE Restart
    <3>1. stage' \in Stages /\ faults' \in 0..MaxFaults
      BY <2>9, FaultCounted DEF Restart, Fails, Goto, Stages
    <3> QED
      BY <2>9, <3>1 DEF Restart, podVars, nodeVars
  <2>10. ASSUME NEW p \in Pods, PodStep(p) PROVE TypeOK'
    <3>1. CASE Deliver(p)
      BY <3>1 DEF Deliver, Beside, podVars, nodeVars, poll
    <3>2. ASSUME NEW from, NEW to \in Places, Moves(p, from, to),
                 unlisted' \subseteq Pods
          PROVE  TypeOK'
      BY <3>2 DEF Moves, Move, Beside, nodeVars, views, poll
    <3>3. CASE Terminate(p)
      <4>1. place' \in [Pods -> Places]
        BY <3>3, ReplacedEffect DEF Terminate, Move, Places
      <4> QED
        BY <3>3, <4>1 DEF Terminate, Beside, nodeVars, views, poll
    <3> QED
      BY <2>10, <3>1, <3>2, <3>3
         DEF PodStep, ChooseNode, Bind, PlaceElsewhere, Finish, Places
  <2>11. CASE DeliverNode \/ MachineStops
    BY <2>11 DEF DeliverNode, MachineStops, Beside, podVars, nodeVars, views, poll
  <2>12. CASE UNCHANGED vars
    BY <2>12 DEF vars, podVars, nodeVars, views, poll
  <2> QED
    BY <2>1, <2>2, <2>3, <2>4, <2>5, <2>6, <2>7, <2>8, <2>9, <2>10, <2>11,
       <2>12 DEF Next, ScaleDown
<1> QED
  BY <1>1, <1>2, PTL DEF Spec

-----------------------------------------------------------------------------
Present(where) == {p \in Evictable : where[p] \in OnNode}

\* Why known pods leave first.  The cache forgets a pod only once it left, so
\* a pod on the node that is not in the cache arrived unlisted; a list without
\* pods to wait for therefore leaves unlisted ones only, and no step up to the
\* shutdown brings another kind.
NothingForgotten ==
  /\ \A p \in Present(place) : p \in unlisted \/ p \in Present(seen)
  /\ (stage = "evict" /\ remaining = 0) \/ stage = "switchOff"
       => Present(place) \subseteq unlisted

\* An empty count is an empty list.
LEMMA NoneRemaining ==
  ASSUME TypeOK, Remaining = 0
  PROVE  Present(seen) = {}
<1>1. StillThere \subseteq Pods /\ IsFiniteSet(StillThere)
  BY EvacuationAssumption, FS_Subset DEF StillThere, Drained, Pods
<1>2. StillThere = {}
  BY <1>1, FS_EmptySet DEF Remaining
<1> QED
  BY <1>2 DEF StillThere, Drained, SeenAt, Present, OnNode, Pods

\* A step that leaves the operator's position, its list and the cache alone
\* and brings pods to the node only as unlisted ones.
LEMMA BesideStep ==
  ASSUME NothingForgotten, UNCHANGED <<stage, remaining, seen>>,
         \A p \in Present(place') : p \in unlisted' \/ p \in Present(place),
         \A p \in unlisted : p \in unlisted' \/ p \notin Present(place')
  PROVE  NothingForgotten'
BY DEF NothingForgotten, Present

\* Every step keeps the cache from hiding a pod that a list has shown.
LEMMA ForgetStep ==
  ASSUME TypeOK, NothingForgotten, [Next]_vars
  PROVE  NothingForgotten'
<1>1. CASE Select \/ Cordon \/ SwitchOff \/ AwaitOff \/ Abort \/ Deadline
  <2>1. UNCHANGED <<place, unlisted, seen>>
    BY <1>1 DEF Select, Cordon, SwitchOff, AwaitOff, Abort, Deadline, podVars,
                views
  <2>2. stage' \notin {"evict", "switchOff"}
    BY <1>1 DEF Select, Cordon, SwitchOff, AwaitOff, Abort, Deadline, Patches,
                Succeeds, Fails, Goto
  <2> QED
    BY <2>1, <2>2 DEF NothingForgotten, Present
<1>2. CASE List
  <2>1. UNCHANGED <<place, seen>>
    BY <1>2 DEF List, views
  <2>2. /\ stage' = "evict" /\ remaining' = Remaining
        /\ unlisted' = unlisted \ (SeenAt("here") \cup SeenAt("leaving"))
    BY <1>2 DEF List, Succeeds, Goto
  <2>3. \A p \in Present(place) : p \in unlisted' \/ p \in Present(seen)
    BY <2>2 DEF NothingForgotten, Present, SeenAt, OnNode
  <2>4. Remaining = 0 => Present(place) \subseteq unlisted'
    BY <2>3, NoneRemaining
  <2> QED
    BY <2>1, <2>2, <2>3, <2>4 DEF NothingForgotten, Present
<1>3. ASSUME NEW p \in Pods, Evict(p) PROVE NothingForgotten'
  <2>1. UNCHANGED <<unlisted, seen, remaining>>
    BY <1>3 DEF Evict, views
  <2>2. stage = "evict" /\ stage' \in {"evict", "abort"}
    BY <1>3 DEF Evict, Succeeds, Fails, Goto
  <2>3. Present(place') \subseteq Present(place)
    <3>1. \A q \in Pods : place'[q] \in OnNode => place[q] \in OnNode
      BY <1>3, EvictionEffect DEF Evict
    <3> QED
      BY <3>1 DEF Present, Pods
  <2> QED
    BY <2>1, <2>2, <2>3 DEF NothingForgotten, Present
<1>4. CASE PollEnds
  <2>1. UNCHANGED <<place, unlisted, seen, remaining>> /\ stage = "evict"
    BY <1>4 DEF PollEnds, podVars, views, poll
  <2>2. stage' = "switchOff" => remaining = 0
    BY <1>4 DEF PollEnds, Succeeds, Goto, TypeOK
  <2>3. stage' # "evict"
    BY <1>4 DEF PollEnds, Succeeds, Goto
  <2> QED
    BY <2>1, <2>2, <2>3 DEF NothingForgotten, Present
<1>5. CASE Restart
  BY <1>5 DEF Restart, Fails, Goto, podVars, NothingForgotten, Present
<1>6. ASSUME NEW p \in Pods, Deliver(p) PROVE NothingForgotten'
  <2>1. UNCHANGED <<stage, remaining, place, unlisted>>
    BY <1>6 DEF Deliver, Beside, podVars, poll
  <2>2. \A q \in Pods : seen'[q] = IF q = p THEN place[q] ELSE seen[q]
    BY <1>6 DEF Deliver, TypeOK
  <2>3. \A q \in Present(place) \cap Present(seen) : q \in Present(seen')
    BY <2>2 DEF Present, Pods
  <2> QED
    BY <2>1, <2>3 DEF NothingForgotten, Present
<1>7. ASSUME NEW p \in Pods, NEW from, NEW to,
             Moves(p, from, to),
             \/ to \notin OnNode /\ UNCHANGED unlisted
             \/ unlisted' = unlisted \cup {p}
             \/ unlisted' = unlisted \ {p} /\ to \notin OnNode
      PROVE  NothingForgotten'
  <2>1. UNCHANGED <<stage, remaining, seen>>
    BY <1>7 DEF Moves, Beside, views, poll
  <2>2. \A q \in Pods : place'[q] = IF q = p THEN to ELSE place[q]
    BY <1>7 DEF Moves, Move, TypeOK
  <2>3. \A q \in Evictable : q \in Pods /\ q \notin Daemons
    BY EvacuationAssumption DEF Pods
  <2>4. \A q \in Present(place') : q \in unlisted' \/ q \in Present(place)
    BY <1>7, <2>2, <2>3 DEF Present
  <2>5. \A q \in unlisted : q \in unlisted' \/ q \notin Present(place')
    BY <1>7, <2>2, <2>3 DEF Present
  <2> QED
    BY <2>1, <2>4, <2>5, BesideStep
<1>8. ASSUME NEW p \in Pods, Terminate(p) PROVE NothingForgotten'
  <2>1. UNCHANGED <<stage, remaining, seen>> /\ unlisted' = unlisted \ {p}
    BY <1>8 DEF Terminate, Beside, views, poll
  <2>2. CASE p \in Daemons
    <3>1. \A q \in Evictable : q \in Pods /\ q # p /\ place'[q] = place[q]
      BY <1>8, <2>2, EvacuationAssumption DEF Terminate, Move, TypeOK, Pods
    <3> QED
      BY <2>1, <3>1 DEF NothingForgotten, Present
  <2>3. CASE p \notin Daemons
    <3>1. Replaced(p) /\ place[p] = "leaving"
      BY <1>8, <2>3 DEF Terminate
    <3>2. \A q \in Evictable : q \in Pods
      BY DEF Pods
    <3>3. place'[p] \notin OnNode
      BY <3>1, EvacuationAssumption DEF Replaced, OnNode, TypeOK
    <3>4. \A q \in Present(place') : q \in Present(place) /\ q # p
      BY <3>1, <3>2, <3>3, ReplacedEffect DEF Present, OnNode
    <3> QED
      BY <2>1, <3>4 DEF NothingForgotten, Present
  <2> QED
    BY <2>2, <2>3
<1>10. ASSUME NEW p \in Pods, PodStep(p) PROVE NothingForgotten'
  BY <1>6, <1>7, <1>8, <1>10
     DEF PodStep, ChooseNode, Bind, PlaceElsewhere, Finish, OnNode
<1>9. CASE DeliverNode \/ MachineStops \/ UNCHANGED vars
  <2>1. UNCHANGED <<stage, remaining, seen, place, unlisted>>
    BY <1>9 DEF DeliverNode, MachineStops, Beside, podVars, views, poll, vars
  <2> QED
    BY <2>1, BesideStep DEF Present
<1> QED
  BY <1>1, <1>2, <1>3, <1>4, <1>5, <1>9, <1>10 DEF Next, ScaleDown

\* No known pod is cut off by a shutdown, whatever the caches lag, whatever is
\* being bound and however often the operator restarts.
THEOREM KnownLeave == Spec => KnownPodsLeave
<1>1. Init => NothingForgotten
  BY DEF Init, NothingForgotten, Present
<1>2. TypeOK /\ NothingForgotten /\ [Next]_vars => NothingForgotten'
  BY ForgetStep
<1>3. NothingForgotten /\ [Next]_vars =>
        [machine = "on" /\ machine' = "stopping" =>
           \A p \in Evictable : place[p] \in OnNode => p \in unlisted]_vars
  <2> SUFFICES ASSUME NothingForgotten, [Next]_vars,
                      machine = "on", machine' = "stopping"
               PROVE  Present(place) \subseteq unlisted
    BY DEF Present
  <2>1. SwitchOff
    BY DEF Next, ScaleDown, Select, Cordon, List, Evict, PollEnds, AwaitOff,
           Abort, Deadline, Restart, PodStep, Deliver, ChooseNode, Bind,
           PlaceElsewhere, Terminate, Finish, Moves, DeliverNode, MachineStops,
           nodeVars, vars
  <2> QED
    BY <2>1 DEF SwitchOff, NothingForgotten
<1> QED
  BY <1>1, <1>2, <1>3, Typing, PTL DEF Spec, KnownPodsLeave
=============================================================================
