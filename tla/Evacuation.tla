------------------------------ MODULE Evacuation ------------------------------
(***************************************************************************)
(* A scale-down pod by pod: a node is selected because a plan places its   *)
(* pods elsewhere, cordoned, drained through the Eviction API and switched *)
(* off.  NodeHandlingReconciler takes the drain for one step; this module  *)
(* follows each list and each eviction of it, on caches that lag, beside a *)
(* scheduler that may still be binding pods to the node.                   *)
(***************************************************************************)
EXTENDS Integers, FiniteSets

CONSTANTS
  Apps,         \* names of pods the migration plan places
  Systems,      \* evictable pods of kube* and monitoring, which it leaves out
  Daemons,      \* DaemonSet and static pods
  Jobs,         \* pods that may finish by themselves
  Replacement,  \* the name a pod's controller gives the next pod
  Protected,    \* pods of a PodDisruptionBudget
  MinAvailable, \* how many of them must run
  Room,         \* pods the other nodes can take
  FaultKinds,   \* the faults that may happen
  MaxFaults     \* bound: faults in a behaviour

Evictable == Apps \cup Systems
Pods == Evictable \cup Daemons

ASSUME EvacuationAssumption ==
  /\ IsFiniteSet(Pods) /\ Evictable \cap Daemons = {}
  /\ Jobs \subseteq Evictable /\ Protected \subseteq Evictable
  /\ Replacement \in [Pods -> Pods]
  /\ \A p \in Pods : Replacement[Replacement[p]] = p
  /\ MinAvailable \in Nat /\ Room \in Nat /\ MaxFaults \in Nat
  /\ FaultKinds \subseteq {"api", "lost", "bmc", "timeout", "crash"}

VARIABLES
  place,        \* where the pod of a name is
  seen,         \* the operator's cache of place
  cordoned,     \* spec.unschedulable of the node
  seenCordoned, \* the operator's cache of it
  machine,      \* the node's machine
  stage,        \* the operator's position in selection and scaleDown
  todo,         \* pods of the current list still to evict
  remaining,    \* how many pods of that list the drain waits for
  faults,       \* faults so far
  unlisted      \* history: pods that reached the node after the lists so far

podVars  == <<place, unlisted>>
nodeVars == <<cordoned, machine>>
views    == <<seen, seenCordoned>>
poll     == <<todo, remaining>>
vars     == <<podVars, nodeVars, views, stage, poll, faults>>

\* "none": no pod has the name.  "waiting": Pending.  "binding": the scheduler
\* has chosen the node and the API server does not know yet.  "leaving":
\* terminating.  "away": on another node.  "finished": Succeeded or Failed,
\* still on the node.
Places == {"none", "waiting", "binding", "here", "leaving", "away", "finished"}
OnNode == {"here", "leaving"}
Stages == {"select", "cordon", "list", "evict", "switchOff", "awaitOff",
           "abort", "completed", "failed"}
Scaling == Stages \ {"select", "completed", "failed"}

FlagsOK == cordoned \in BOOLEAN /\ seenCordoned \in BOOLEAN

TypeOK ==
  /\ FlagsOK
  /\ place \in [Pods -> Places] /\ seen \in [Pods -> Places]
  /\ machine \in {"on", "stopping", "off"} /\ stage \in Stages
  /\ todo \subseteq Pods /\ remaining \in 0..Cardinality(Pods)
  /\ unlisted \subseteq Pods
  /\ faults \in 0..MaxFaults

\* A pod keeps its name for ever, as a StatefulSet's does, or two names take
\* turns and one of them is free.
Init ==
  /\ place \in {where \in [Pods -> {"none", "waiting", "here", "away"}] :
        /\ \A p \in Daemons : where[p] = "here"
        /\ \A p \in Pods : Replacement[p] # p =>
             where[p] = "none" \/ where[Replacement[p]] = "none"}
  /\ seen = place /\ unlisted = {}
  /\ cordoned = FALSE /\ seenCordoned = FALSE /\ machine = "on"
  /\ stage = "select" /\ todo = {} /\ remaining = 0 /\ faults = 0

Goto(next) == stage' = next

\* "api": a call fails without effect.  "lost": it takes effect and returns an
\* error.  "bmc": the machine refuses.  "timeout": a wait reaches its limit.
\* "crash": the operator restarts.
Fault(kind) ==
  /\ kind \in FaultKinds /\ faults < MaxFaults
  /\ faults' = faults + 1

Succeeds(next) == Goto(next) /\ UNCHANGED faults
Fails(kind, next) == Fault(kind) /\ Goto(next)

At(where) == {p \in Pods : place[p] = where}
SeenAt(where) == {p \in Pods : seen[p] = where}

-----------------------------------------------------------------------------
\* selectNodeScaleDown: the pods of getMigratablePodsOnNode fit elsewhere.
Migratable == Apps \cap (SeenAt("here") \cup SeenAt("leaving"))

Select ==
  /\ stage = "select" /\ Succeeds("cordon")
  /\ Cardinality(Migratable) + Cardinality(SeenAt("away")) =< Room
  /\ UNCHANGED <<podVars, nodeVars, views, poll>>

\* A patch of spec.unschedulable, left out when the cache shows the value.
Patches(value, next, else) ==
  \/ seenCordoned = value /\ UNCHANGED cordoned /\ Succeeds(next)
  \/ /\ seenCordoned # value
     /\ \/ cordoned' = value /\ Succeeds(next)
        \/ cordoned' = value /\ Fails("lost", else)
        \/ UNCHANGED cordoned /\ Fails("api", else)

Cordon ==
  /\ stage = "cordon" /\ Patches(TRUE, "list", "abort")
  /\ UNCHANGED <<podVars, machine, views, poll>>

\* Mutant: the pods of DaemonSets are drained as well.
DrainedAll == Pods

\* The pods a drain evicts; finished ones are told apart by their place.
Drained == Evictable

\* Mutant: terminating pods are skipped before they are counted.
StillRunning == Drained \cap SeenAt("here")

\* The pods of the list a drain waits for.
StillThere == Drained \cap (SeenAt("here") \cup SeenAt("leaving"))

\* Mutant: the count goes on from one poll to the next.
RemainingOfAllPolls == remaining + Cardinality(StillThere)

Remaining == Cardinality(StillThere)

\* Read from the cache, so it does not fail.
List ==
  /\ stage = "list" /\ Succeeds("evict")
  /\ todo' = Drained \cap SeenAt("here")
  /\ remaining' = Remaining
  /\ unlisted' = unlisted \ (SeenAt("here") \cup SeenAt("leaving"))
  /\ UNCHANGED <<place, nodeVars, views>>

Available == Protected \cap (At("here") \cup At("away"))
BudgetAllows(p) ==
  p \in Protected => Cardinality(Available \ {p}) >= MinAvailable
Move(p, where) == place' = [place EXCEPT ![p] = where]

\* The pod of that name is gone and its controller creates the next one.
Replaced(p) ==
  place' = [place EXCEPT ![p] = "none", ![Replacement[p]] = "waiting"]

(***************************************************************************)
(* What the Eviction API makes of the name of p.  It deletes the pod that  *)
(* has it by now, on the node or elsewhere, or one that no node has yet or *)
(* that finished; or the pod waits for its PodDisruptionBudget (429), is   *)
(* going already, or is not found.  The grace period of a pod elsewhere is *)
(* left out.                                                               *)
(***************************************************************************)
Eviction(p) ==
  CASE place[p] = "here" /\ BudgetAllows(p) -> Move(p, "leaving")
    [] place[p] = "away" /\ BudgetAllows(p) -> Replaced(p)
    [] place[p] \in {"waiting", "binding"}  -> Replaced(p)
    [] place[p] = "finished"                -> Move(p, "none")
    [] OTHER                                -> UNCHANGED place

Evict(p) ==
  /\ stage = "evict" /\ p \in todo
  /\ todo' = todo \ {p}
  /\ \/ Eviction(p) /\ Succeeds("evict")
     \/ Eviction(p) /\ Fails("lost", "abort")
     \/ UNCHANGED place /\ Fails("api", "abort")
  /\ UNCHANGED <<unlisted, nodeVars, views, remaining>>

PollEnds ==
  /\ stage = "evict" /\ todo = {}
  /\ Succeeds(IF remaining > 0 THEN "list" ELSE "switchOff")
  /\ UNCHANGED <<podVars, nodeVars, views, poll>>

\* A drain that cannot end: a budget refuses an eviction, or a pod terminates
\* on a machine that is off.
Stuck ==
  \E p \in Drained : \/ place[p] = "here" /\ ~BudgetAllows(p)
                     \/ place[p] = "leaving" /\ machine = "off"

Polling == stage = "list" \/ (stage = "evict" /\ remaining > 0)

\* Mutant: a blocked drain is polled without limit.
DeadlineOnFault ==
  /\ Polling /\ Fails("timeout", "abort")
  /\ UNCHANGED <<podVars, nodeVars, views, poll>>

\* The ten minutes of a drain are over: they are enough unless it is stuck.
Deadline ==
  /\ Polling
  /\ \/ Stuck /\ Succeeds("abort")
     \/ Fails("timeout", "abort")
  /\ UNCHANGED <<podVars, nodeVars, views, poll>>

\* GracefulShutdown, posted to the BMC.
Shutdown == machine' = IF machine = "on" THEN "stopping" ELSE machine

SwitchOff ==
  /\ stage = "switchOff"
  /\ \/ Shutdown /\ Succeeds("awaitOff")
     \/ Shutdown /\ Fails("lost", "abort")
     \/ UNCHANGED machine /\ Fails("bmc", "abort")
  /\ UNCHANGED <<podVars, cordoned, views, poll>>

AwaitOff ==
  /\ stage = "awaitOff"
  /\ \/ machine = "off" /\ Succeeds("completed")
     \/ machine # "off" /\ Fails("timeout", "failed")
  /\ UNCHANGED <<podVars, nodeVars, views, poll>>

\* The uncordon after a drain or a shutdown that failed; its error is dropped.
Abort ==
  /\ stage = "abort" /\ Patches(FALSE, "failed", "failed")
  /\ UNCHANGED <<podVars, machine, views, poll>>

\* A restarted operator finds the NodeHandling Running and begins again.
Restart ==
  /\ stage \in Scaling /\ Fails("crash", "cordon")
  /\ seen' = place /\ seenCordoned' = cordoned
  /\ todo' = {} /\ remaining' = 0
  /\ UNCHANGED <<podVars, nodeVars>>

-----------------------------------------------------------------------------
\* The cluster around the operator.
Beside == UNCHANGED <<stage, poll, faults>>

Deliver(p) ==
  /\ seen[p] # place[p]
  /\ seen' = [seen EXCEPT ![p] = place[p]]
  /\ UNCHANGED <<podVars, nodeVars, seenCordoned>> /\ Beside

DeliverNode ==
  /\ seenCordoned # cordoned /\ seenCordoned' = cordoned
  /\ UNCHANGED <<podVars, nodeVars, seen>> /\ Beside

Moves(p, from, to) ==
  /\ place[p] = from /\ Move(p, to)
  /\ UNCHANGED <<nodeVars, views>> /\ Beside

HasRoom == Cardinality(At("away")) < Room

\* The scheduler looks at the cordon when it chooses, not when it binds.
ChooseNode(p) ==
  machine = "on" /\ ~cordoned /\ Moves(p, "waiting", "binding") /\ UNCHANGED unlisted
Bind(p) ==
  Moves(p, "binding", "here") /\ unlisted' = unlisted \cup {p}
PlaceElsewhere(p) ==
  HasRoom /\ Moves(p, "waiting", "away") /\ UNCHANGED unlisted

\* A pod's grace period ends and its controller replaces it; the replacement
\* of a DaemonSet's pod is on the node at once.
Terminate(p) ==
  /\ machine # "off" /\ place[p] = "leaving"
  /\ IF p \in Daemons THEN Move(p, "here") ELSE Replaced(p)
  /\ unlisted' = unlisted \ {p}
  /\ UNCHANGED <<nodeVars, views>> /\ Beside

Finish(p) ==
  /\ p \in Jobs /\ machine = "on"
  /\ Moves(p, "here", "finished") /\ unlisted' = unlisted \ {p}

MachineStops ==
  /\ machine = "stopping" /\ machine' = "off"
  /\ UNCHANGED <<podVars, cordoned, views>> /\ Beside

-----------------------------------------------------------------------------
ScaleDown ==
  \/ Cordon \/ List \/ (\E p \in Pods : Evict(p)) \/ PollEnds
  \/ SwitchOff \/ AwaitOff \/ Abort

PodStep(p) ==
  \/ Deliver(p) \/ ChooseNode(p) \/ Bind(p) \/ PlaceElsewhere(p)
  \/ Terminate(p) \/ Finish(p)

Next ==
  \/ Select \/ ScaleDown \/ Deadline \/ Restart
  \/ (\E p \in Pods : PodStep(p)) \/ DeliverNode \/ MachineStops

(***************************************************************************)
(* The worker goes on, its deadline strikes, caches catch up, terminating  *)
(* pods go, the scheduler places and binds pods, a machine stops.  No      *)
(* fault has to happen.                                                    *)
(***************************************************************************)
Fairness ==
  /\ WF_vars(ScaleDown /\ UNCHANGED faults) /\ WF_vars(Deadline /\ UNCHANGED faults)
  /\ WF_vars(DeliverNode) /\ WF_vars(MachineStops)
  /\ \A p \in Pods : /\ WF_vars(Deliver(p)) /\ WF_vars(Bind(p))
                     /\ WF_vars(Terminate(p)) /\ WF_vars(PlaceElsewhere(p))

Spec == Init /\ [][Next]_vars
FairSpec == Spec /\ Fairness

-----------------------------------------------------------------------------
\* A machine is only shut down once every evictable pod that any list showed
\* on its node is gone, with its grace period over: what it cuts off can only
\* have reached the node unseen.  Caches may lag and bindings be under way,
\* calls fail, lose their answer or be repeated by a restarted operator.
KnownPodsLeave ==
  [][machine = "on" /\ machine' = "stopping" =>
       \A p \in Evictable : place[p] \in OnNode => p \in unlisted]_vars

\* A scale-down comes to an end although a budget may refuse an eviction for
\* ever, calls fail and the operator restarts.
ScaleDownEnds == stage = "cordon" ~> stage \in {"completed", "failed"}

\* Without faults it is completed, unless the drain gets stuck.
CompletesUnlessStuck ==
  stage = "cordon" ~> stage = "completed" \/ Stuck \/ faults > 0

-----------------------------------------------------------------------------
(***************************************************************************)
(* What the source says and the code does not do.                          *)
(***************************************************************************)

\* A scale-down that fails leaves the node schedulable, unless it was shut down.
AbortedServes == stage = "failed" /\ machine = "on" => ~cordoned
=============================================================================
