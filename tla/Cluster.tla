------------------------------- MODULE Cluster -------------------------------
(***************************************************************************)
(* What the three reconcilers of the DREEM operator share: the API objects *)
(* (ClusterConfiguration, NodeSelecting, NodeHandling, Node), the informer *)
(* caches every read of the operator goes through, the work queues, the    *)
(* workers' positions inside a reconciliation, the machines behind the     *)
(* nodes and the faults a run allows.                                      *)
(*                                                                         *)
(* A NodeSelecting and a NodeHandling are named after their                *)
(* ClusterConfiguration, so there is at most one of each per configuration *)
(* and all three are functions on Configs.                                 *)
(***************************************************************************)
EXTENDS Integers, FiniteSets

CONSTANTS
  Configs,        \* names of ClusterConfigurations
  Nodes,          \* worker nodes of the managed cluster
  NoNode,         \* spec.selectedNode of a NodeHandling that does not exist
  Profiled,       \* nodes with a power-cycle and a consumption annotation
  InitiallyOn,    \* nodes powered on at the start
  MinNodes,       \* spec.minNodes of every ClusterConfiguration
  MaxNodes,       \* spec.maxNodes of every ClusterConfiguration
  Requests,       \* values of spec.requiredNodes
  OldHandlings,   \* NodeHandlings left by earlier, finished requests
  FaultKinds,     \* the faults that may happen
  MaxFaults,      \* bound: faults in a behaviour
  MaxCycles       \* bound: see NHHandleRunningPhase

AllFaultKinds == {"api", "lost", "bmc", "timeout", "crash"}

ASSUME ClusterAssumption ==
  /\ IsFiniteSet(Nodes) /\ NoNode \notin Nodes /\ IsFiniteSet(Configs)
  /\ Profiled \subseteq Nodes /\ InitiallyOn \subseteq Nodes
  /\ MinNodes \in Nat /\ MaxNodes \in Nat
  /\ MinNodes =< Cardinality(InitiallyOn)
  /\ Requests \subseteq Int
  /\ OldHandlings \in Nat /\ MaxFaults \in Nat /\ MaxCycles \in Nat
  /\ FaultKinds \subseteq AllFaultKinds

(***************************************************************************)
(* Phases.  Absent: the object does not exist.  Unset: it exists and no    *)
(* reconciler has written its status.                                      *)
(***************************************************************************)
Absent == "Absent"
Unset  == ""
CCPhases == {Absent, Unset, "Stable", "Selecting", "Switching",
             "Completed", "Failed", "Finished"}
NSPhases == {Absent, Unset, "Running", "Completed", "Failed"}
NHPhases == {Absent, Unset, "Running", "Completed", "Failed"}

\* CC_TERMINAL_PHASES of the forecaster.
TerminalPhases == {"Finished", "Failed"}

VARIABLES
  ccPhase,        \* ClusterConfiguration.status.phase
  ccRequired,     \* ClusterConfiguration.spec.requiredNodes
  nsPhase,        \* NodeSelecting.status.phase
  nsLabel,        \* spec.scalingLabel, of the NodeSelecting and its NodeHandling
  nhPhase,        \* NodeHandling.status.phase
  nhNode,         \* NodeHandling.spec.selectedNode
  seenCC,         \* ccPhase, as the informer cache has it
  seenNS,         \* nsPhase, as the informer cache has it
  seenNH,         \* nhPhase, as the informer cache has it
  power,          \* state of the machine, as its Ready condition shows it
  cordoned,       \* Node.spec.unschedulable
  cycles,         \* the power-cycle annotation
  seenCordoned,   \* cordoned, as the informer cache has it
  seenCycles,     \* cycles, as the informer cache has it
  queueCC, queueNS, queueNH,  \* configurations queued at each controller
  ccStep,         \* where the ClusterConfiguration worker is
  ccHeld,         \* resource version (a phase) that worker will update from
  nsStep,         \* where the NodeSelecting worker is
  nhStep,         \* where the NodeHandling worker is
  faults          \* faults so far

ccObject   == <<ccPhase, ccRequired>>
nsObject   == <<nsPhase, nsLabel>>
nhObject   == <<nhPhase, nhNode>>
seenObjects == <<seenCC, seenNS, seenNH>>
nodeCache  == <<seenCordoned, seenCycles>>
nodeVars   == <<power, cordoned, cycles, seenCordoned, seenCycles>>
queues     == <<queueCC, queueNS, queueNH>>
ccWork     == <<ccStep, ccHeld>>
works      == <<ccWork, nsStep, nhStep>>
vars == <<ccObject, nsObject, nhObject, seenObjects, nodeVars, queues, works,
          faults>>

(***************************************************************************)
(* Positions of a worker.  Between the two Gets of a ClusterConfiguration  *)
(* reconciliation the worker is at the phase the first Get returned; at    *)
(* "markSelecting" it has created the NodeSelecting of a scale-down; at    *)
(* "finish" or "fail" it has counted the workers of a Completed one.       *)
(***************************************************************************)
Handled == {Unset, "Stable", "Selecting", "Switching", "Completed"}
CCSteps == {"idle", "markSelecting", "finish", "fail"} \cup Handled
NSSteps == {"idle", "report"}
ScaleUpSteps   == {"powerOn", "awaitReady", "uncordon", "annotate"}
ScaleDownSteps == {"cordon", "drain", "powerOff", "awaitOff", "abort"}
NHSteps == {"idle", "complete", "fail"} \cup ScaleUpSteps \cup ScaleDownSteps

(***************************************************************************)
(* Machines.  "stopping" has accepted GracefulShutdown and is still Ready; *)
(* "booting" has accepted On and is not Ready yet.                         *)
(***************************************************************************)
PowerStates == {"off", "booting", "on", "stopping"}
Ready(n) == power[n] \in {"on", "stopping"}

\* getNumberOfWorkerNodes: a cordoned node that is Ready counts.
ActiveNodes == Cardinality({n \in Nodes : Ready(n)})

TypeOK ==
  /\ ccPhase \in [Configs -> CCPhases] /\ ccRequired \in [Configs -> Int]
  /\ nsPhase \in [Configs -> NSPhases] /\ nsLabel \in [Configs -> Int]
  /\ nhPhase \in [Configs -> NHPhases]
  /\ nhNode \in [Configs -> Nodes \cup {NoNode}]
  /\ seenCC \in [Configs -> CCPhases] /\ seenNS \in [Configs -> NSPhases]
  /\ seenNH \in [Configs -> NHPhases]
  /\ power \in [Nodes -> PowerStates]
  /\ cordoned \in [Nodes -> BOOLEAN] /\ cycles \in [Nodes -> Nat]
  /\ seenCordoned \in [Nodes -> BOOLEAN]
  /\ seenCycles \in [Nodes -> Nat]
  /\ queueCC \subseteq Configs /\ queueNS \subseteq Configs
  /\ queueNH \subseteq Configs
  /\ ccStep \in [Configs -> CCSteps] /\ ccHeld \in [Configs -> CCPhases]
  /\ nsStep \in [Configs -> NSSteps] /\ nhStep \in [Configs -> NHSteps]
  /\ faults \in 0..MaxFaults

\* Nodes that are off were cordoned by the scale-down that switched them off.
Init ==
  /\ ccPhase = [c \in Configs |-> Absent] /\ ccRequired = [c \in Configs |-> 0]
  /\ nsPhase = [c \in Configs |-> Absent] /\ nsLabel = [c \in Configs |-> 0]
  /\ nhPhase = [c \in Configs |-> Absent]
  /\ nhNode = [c \in Configs |-> NoNode]
  /\ seenCC = ccPhase /\ seenNS = nsPhase /\ seenNH = nhPhase
  /\ power = [n \in Nodes |-> IF n \in InitiallyOn THEN "on" ELSE "off"]
  /\ cordoned = [n \in Nodes |-> n \notin InitiallyOn]
  /\ cycles = [n \in Nodes |-> 0]
  /\ seenCordoned = cordoned /\ seenCycles = cycles
  /\ queueCC = {} /\ queueNS = {} /\ queueNH = {}
  /\ ccStep = [c \in Configs |-> "idle"] /\ ccHeld = [c \in Configs |-> Absent]
  /\ nsStep = [c \in Configs |-> "idle"] /\ nhStep = [c \in Configs |-> "idle"]
  /\ faults = 0

-----------------------------------------------------------------------------
(***************************************************************************)
(* Faults.  "api": a call to the API server fails without effect.  "lost": *)
(* it takes effect and the caller gets an error.  "bmc": the Redfish       *)
(* request fails.  "timeout": a wait reaches its limit.  "crash": the      *)
(* operator restarts.                                                      *)
(***************************************************************************)
Fault(kind) ==
  /\ kind \in FaultKinds
  /\ faults < MaxFaults
  /\ faults' = faults + 1

(***************************************************************************)
(* Status().Update of object c of table obj, read at resource version      *)
(* held.  Each table has one writer and a write changes the phase, so the  *)
(* phase stands for the resource version; an update from any other version *)
(* is a Conflict.                                                          *)
(***************************************************************************)

\* Mutant: the update carries no resource version.
WrittenUnconditionally(obj, c, held, phase) ==
  obj' = [obj EXCEPT ![c] = phase]

Written(obj, c, held, phase) ==
  /\ obj[c] = held
  /\ obj' = [obj EXCEPT ![c] = phase]

UpdateSucceeds(obj, c, held, phase) ==
  /\ Written(obj, c, held, phase)
  /\ UNCHANGED faults

UpdateConflicts(obj, c, held) ==
  /\ obj[c] # held
  /\ UNCHANGED <<obj, faults>>

CallFails(obj, c, held, phase) ==
  \/ Fault("api") /\ UNCHANGED obj
  \/ Fault("lost") /\ Written(obj, c, held, phase)

UpdateFails(obj, c, held, phase) ==
  \/ UpdateConflicts(obj, c, held)
  \/ CallFails(obj, c, held, phase)

(***************************************************************************)
(* Informers: the cache takes the stored state and the objects concerned   *)
(* are queued.  The ClusterConfiguration controller owns the other two     *)
(* kinds, so their events queue the owner there as well.                   *)
(***************************************************************************)
\* Mutant: SetupWithManager without its two Owns calls.
NoOwner(c) == {}

OwnerOf(c) == {c}

DeliverCC(c) ==
  /\ seenCC[c] # ccPhase[c]
  /\ seenCC' = [seenCC EXCEPT ![c] = ccPhase[c]]
  /\ queueCC' = queueCC \cup {c}
  /\ UNCHANGED <<ccObject, nsObject, nhObject, seenNS, seenNH, nodeVars,
                 queueNS, queueNH, works, faults>>

DeliverNS(c) ==
  /\ seenNS[c] # nsPhase[c]
  /\ seenNS' = [seenNS EXCEPT ![c] = nsPhase[c]]
  /\ queueNS' = queueNS \cup {c}
  /\ queueCC' = queueCC \cup OwnerOf(c)
  /\ UNCHANGED <<ccObject, nsObject, nhObject, seenCC, seenNH, nodeVars,
                 queueNH, works, faults>>

DeliverNH(c) ==
  /\ seenNH[c] # nhPhase[c]
  /\ seenNH' = [seenNH EXCEPT ![c] = nhPhase[c]]
  /\ queueNH' = queueNH \cup {c}
  /\ queueCC' = queueCC \cup OwnerOf(c)
  /\ UNCHANGED <<ccObject, nsObject, nhObject, seenCC, seenNS, nodeVars,
                 queueNS, works, faults>>

DeliverNode(n) ==
  /\ <<seenCordoned[n], seenCycles[n]>> # <<cordoned[n], cycles[n]>>
  /\ seenCordoned' = [seenCordoned EXCEPT ![n] = cordoned[n]]
  /\ seenCycles' = [seenCycles EXCEPT ![n] = cycles[n]]
  /\ UNCHANGED <<ccObject, nsObject, nhObject, seenObjects, power, cordoned,
                 cycles, queues, works, faults>>

(***************************************************************************)
(* The machine of node n finishes a power transition.  The Ready condition *)
(* that shows it arrives in the same informer event as every earlier write *)
(* to the node.                                                            *)
(***************************************************************************)
PowerSettles(n, from, to) ==
  /\ power[n] = from
  /\ power' = [power EXCEPT ![n] = to]
  /\ seenCordoned' = [seenCordoned EXCEPT ![n] = cordoned[n]]
  /\ seenCycles' = [seenCycles EXCEPT ![n] = cycles[n]]
  /\ UNCHANGED <<ccObject, nsObject, nhObject, seenObjects, cordoned, cycles,
                 queues, works, faults>>

NodeBoots(n) == PowerSettles(n, "booting", "on")
NodeStops(n) == PowerSettles(n, "stopping", "off")

(***************************************************************************)
(* The forecaster creates a request.  It lists the configurations first    *)
(* and gives up while one is in a phase it does not take for final.        *)
(***************************************************************************)

\* Mutant: a request the operator has not picked up yet is overlooked.
ScalingPickedUp ==
  \E c \in Configs : ccPhase[c] \notin TerminalPhases \cup {Absent, Unset}

ScalingInProgress ==
  \E c \in Configs : ccPhase[c] \notin TerminalPhases \cup {Absent}

CreateClusterConfiguration(c, required) ==
  /\ ccPhase[c] = Absent
  /\ ~ScalingInProgress
  /\ ccPhase' = [ccPhase EXCEPT ![c] = Unset]
  /\ ccRequired' = [ccRequired EXCEPT ![c] = required]
  /\ UNCHANGED <<nsObject, nhObject, seenObjects, nodeVars, queues, works,
                 faults>>

(***************************************************************************)
(* The operator restarts: what the workers were doing is gone, the caches  *)
(* are filled from the API server and every object is queued.              *)
(***************************************************************************)
Existing(obj) == {c \in Configs : obj[c] # Absent}

Restart ==
  /\ Fault("crash")
  /\ seenCC' = ccPhase /\ seenNS' = nsPhase /\ seenNH' = nhPhase
  /\ seenCordoned' = cordoned /\ seenCycles' = cycles
  /\ queueCC' = Existing(ccPhase)
  /\ queueNS' = Existing(nsPhase)
  /\ queueNH' = Existing(nhPhase)
  /\ ccStep' = [c \in Configs |-> "idle"] /\ ccHeld' = [c \in Configs |-> Absent]
  /\ nsStep' = [c \in Configs |-> "idle"] /\ nhStep' = [c \in Configs |-> "idle"]
  /\ UNCHANGED <<ccObject, nsObject, nhObject, power, cordoned, cycles>>

Environment ==
  \/ \E c \in Configs : DeliverCC(c) \/ DeliverNS(c) \/ DeliverNH(c)
  \/ \E n \in Nodes : DeliverNode(n) \/ NodeBoots(n) \/ NodeStops(n)
  \/ \E c \in Configs, required \in Requests :
       CreateClusterConfiguration(c, required)
  \/ Restart
=============================================================================
