---------------------------- MODULE Resizing_proofs ----------------------------
(***************************************************************************)
(* Theorems about the machines Operator switches on and off, up to the     *)
(* first fault and for every set of requests and nodes, every bound and    *)
(* every number of requests.                                               *)
(*                                                                         *)
(* HandleSwitchingPhase counts the NodeHandlings of the whole namespace    *)
(* and, when it sees more than one and none of its own, fails a request    *)
(* whose machine has still to be switched; run UnfilteredHandlings shows   *)
(* where that leads when a request follows.  JudgedByOwnHandling is the    *)
(* hypothesis that the count decides at most about the last request.       *)
(* Nothing deletes NodeHandlings, so the operator itself does not see to   *)
(* it: whoever runs it has to remove those of earlier requests.            *)
(***************************************************************************)
EXTENDS Operator_proofs

\* There is a name left for a request, or one that has no selection yet.
RequestFollows == \E c \in Configs : nsPhase[c] = Absent

JudgedByOwnHandling ==
  \A c \in Configs :
    ccStep[c] = "Switching" /\ seenNH[c] = Absent /\ RequestFollows
      => HandlingsInNamespace =< 1

(***************************************************************************)
(* At most one request is open: it is the one the whole invariant is       *)
(* about.                                                                  *)
(***************************************************************************)
OneOpen == \A c, d \in Configs : Open(c) /\ Open(d) => c = d

(***************************************************************************)
(* Requests.  As long as another may follow, one that has or will have its *)
(* verdict is not pending; until a selection exists nothing queues its     *)
(* request behind its back, so the worker that is about to create it has   *)
(* read the stored phase; and the workers counted for the label are still  *)
(* what the cluster has.                                                   *)
(***************************************************************************)
VerdictInStep(c) == RequestFollows =>
  /\ Pending(c) => ccPhase[c] \notin TerminalPhases
  /\ \/ ccPhase[c] = "Completed" \/ seenCC[c] = "Completed"
     \/ ccStep[c] \in {"Completed", "finish", "fail"}
     => ~Pending(c)

CacheInStep(c) ==
  /\ ccPhase[c] = Absent =>
       /\ seenCC[c] = Absent /\ nsPhase[c] = Absent
       /\ c \notin queueCC /\ ccStep[c] = "idle"
  /\ nsPhase[c] = Absent =>
       /\ c \in queueCC => seenCC[c] = ccPhase[c] /\ ccStep[c] = "idle"
       /\ ccStep[c] # "idle" => seenCC[c] = ccPhase[c]
       /\ ccStep[c] \in Handled => ccPhase[c] = ccStep[c]

LabelInStep(c) ==
  /\ nsPhase[c] # Absent => ~OutOfBounds(ccRequired[c]) /\ nsLabel[c] # 0
  /\ Pending(c) /\ nsLabel[c] < 0 => ActiveNodes > ccRequired[c]
  /\ Pending(c) /\ nsLabel[c] > 0 => ActiveNodes < ccRequired[c]

RequestsInStep ==
  \A c \in Configs : VerdictInStep(c) /\ CacheInStep(c) /\ LabelInStep(c)

(***************************************************************************)
(* Machines.  What the worker of a scaling step finds at its node n, and   *)
(* what holds of a node whoever works on it.                               *)
(***************************************************************************)
NotStarted(c) == nhPhase[c] \in {Unset, "Running"} /\ nhStep[c] = "idle"

StepOnMachine(c, n) ==
  /\ (NotStarted(c) \/ nhStep[c] = "powerOn") /\ nsLabel[c] > 0 =>
       power[n] = "off"
  /\ (NotStarted(c) \/ nhStep[c] = "cordon") /\ nsLabel[c] < 0 =>
       power[n] = "on" /\ ~cordoned[n] /\ ~seenCordoned[n]
  /\ nhStep[c] \in {"drain", "powerOff"} => power[n] = "on" /\ cordoned[n]
  /\ nhStep[c] = "awaitOff" => power[n] \in {"stopping", "off"} /\ cordoned[n]
  /\ nhStep[c] = "awaitReady" =>
       power[n] \in {"booting", "on"} /\ cordoned[n] /\ seenCordoned[n]
  /\ nhStep[c] = "uncordon" =>
       power[n] = "on" /\ cordoned[n] /\ seenCordoned[n]

HasWorkerAt(n, steps) ==
  \E c \in Configs : nhNode[c] = n /\ nhStep[c] \in steps

NodeInStep(n) ==
  /\ power[n] = "booting" => HasWorkerAt(n, {"awaitReady"})
  /\ power[n] = "stopping" => HasWorkerAt(n, {"awaitOff"})
  /\ power[n] \in {"off", "booting"} => cordoned[n] /\ seenCordoned[n]
  /\ power[n] = "stopping" => cordoned[n]
  /\ power[n] = "on" /\ cordoned[n] /\ ~seenCordoned[n] =>
       HasWorkerAt(n, {"drain", "powerOff"})

MachinesInStep ==
  /\ \A c \in Configs, n \in Nodes : nhNode[c] = n => StepOnMachine(c, n)
  /\ \A n \in Nodes : NodeInStep(n)

InStep == SelectionsInStep /\ HandlingsInStep /\ StoredHandlingsNameANode
Resizing == OneOpen /\ RequestsInStep /\ MachinesInStep

(***************************************************************************)
(* What every step but the forecaster's Create does to the requests: none  *)
(* is opened, and those asked for stay the same.                           *)
(***************************************************************************)
Serves ==
  /\ \A c \in Configs : Open(c)' => Open(c)
  /\ UNCHANGED ccRequired
  /\ \A c \in Configs : ccPhase'[c] = Absent <=> ccPhase[c] = Absent

-----------------------------------------------------------------------------
(***************************************************************************)
(* A scaling step the worker has not finished belongs to a pending         *)
(* request, so at most one is under way.                                   *)
(***************************************************************************)
LEMMA UnfinishedIsPending ==
  ASSUME InStep, NEW c \in Configs,
         NotStarted(c) \/ nhStep[c] # "idle", ~MachineDone(c)
  PROVE  Pending(c)
<1>1. nhPhase[c] # Absent
  BY DEF InStep, HandlingsInStep, HandlingInStep, NotStarted, Absent, Unset
<1>2. nsPhase[c] \notin {Absent, "Failed"}
  BY <1>1 DEF InStep, SelectionsInStep, SelectionInStep, Absent
<1> QED
  BY <1>2 DEF Pending

\* A handling that has yet to move a machine is pending.
LEMMA WaitingIsPending ==
  ASSUME InStep, NEW c \in Configs, NEW n, nhNode[c] = n,
         \/ nhStep[c] = "awaitReady" /\ power[n] = "booting"
         \/ nhStep[c] = "awaitOff" /\ power[n] = "stopping"
         \/ nhStep[c] \in {"powerOn", "cordon", "drain", "powerOff"}
  PROVE  Pending(c)
<1>1. nhPhase[c] = "Running" /\ nhStep[c] # "idle"
  BY DEF InStep, HandlingsInStep, HandlingInStep
<1>2. ~MachineDone(c)
  BY <1>1 DEF MachineDone
<1> QED
  BY <1>1, <1>2, UnfinishedIsPending

(***************************************************************************)
(* Steps that neither switch a machine nor touch a cordon.                 *)
(***************************************************************************)
LEMMA MachinesFramed ==
  ASSUME MachinesInStep,
         UNCHANGED <<nhPhase, nhStep, nhNode, power, cordoned, seenCordoned>>,
         \A c \in Configs : \/ nsLabel'[c] = nsLabel[c]
                            \/ nhPhase[c] = Absent /\ nhStep[c] = "idle"
  PROVE  MachinesInStep'
<1>1. ASSUME NEW c \in Configs, NEW n \in Nodes, nhNode'[c] = n
      PROVE  StepOnMachine(c, n)'
  BY <1>1 DEF MachinesInStep, StepOnMachine, NotStarted, Absent, Unset
<1>2. ASSUME NEW n \in Nodes
      PROVE  NodeInStep(n)'
  BY <1>2 DEF MachinesInStep, NodeInStep, HasWorkerAt
<1> QED
  BY <1>1, <1>2 DEF MachinesInStep

(***************************************************************************)
(* Steps of the other two controllers and of the machines: they only take  *)
(* requests out of the pending ones, and when they change the number of    *)
(* active workers no request is pending any more.                          *)
(***************************************************************************)
LEMMA RequestsFramed ==
  ASSUME OneOpen, RequestsInStep,
         UNCHANGED <<ccPhase, ccRequired, seenCC, queueCC, ccStep, nsLabel>>,
         \A c \in Configs :
           /\ Pending(c)' => Pending(c)
           /\ nsPhase'[c] = Absent <=> nsPhase[c] = Absent,
         ActiveNodes' = ActiveNodes \/ \A c \in Configs : ~Pending(c)'
  PROVE  OneOpen' /\ RequestsInStep' /\ Serves
<1>0. Serves
  BY DEF Serves, Open
<1>1. OneOpen'
  BY <1>0 DEF OneOpen, Serves
<1>2. ASSUME NEW c \in Configs
      PROVE  VerdictInStep(c)' /\ CacheInStep(c)' /\ LabelInStep(c)'
  <2>1. VerdictInStep(c) /\ CacheInStep(c) /\ LabelInStep(c)
    BY DEF RequestsInStep
  <2>2. VerdictInStep(c)'
    BY <2>1 DEF VerdictInStep, RequestFollows
  <2>3. CacheInStep(c)'
    BY <2>1 DEF CacheInStep
  <2>4. LabelInStep(c)'
    BY <2>1 DEF LabelInStep, OutOfBounds
  <2> QED
    BY <2>2, <2>3, <2>4
<1> QED
  BY <1>0, <1>1, <1>2 DEF RequestsInStep

\* The count of workers depends on which nodes are Ready only.
LEMMA ActiveNodesKept ==
  ASSUME \A n \in Nodes : Ready(n)' <=> Ready(n)
  PROVE  ActiveNodes' = ActiveNodes
<1>1. {n \in Nodes : Ready(n)}' = {n \in Nodes : Ready(n)}
  OBVIOUS
<1> QED
  BY <1>1 DEF ActiveNodes

-----------------------------------------------------------------------------
(***************************************************************************)
(* A machine settles: the worker that waits for it is the one pending      *)
(* request's, and after the step nothing is pending.                       *)
(***************************************************************************)
LEMMA SettlingResizes ==
  ASSUME TypeOK, InStep, Resizing, NEW n \in Nodes, NodeBoots(n) \/ NodeStops(n)
  PROVE  Resizing' /\ Serves /\ \A c \in Configs : ~Open(c)'
<1> USE DEF TypeOK, Resizing
<1>0. UNCHANGED <<ccPhase, ccRequired, nsPhase, nsLabel, nhPhase, nhNode,
                  seenCC, seenNS, seenNH, cordoned, queueCC, ccStep, nhStep>>
  BY DEF NodeBoots, NodeStops, PowerSettles, ccObject, nsObject, nhObject,
         seenObjects, queues, works, ccWork
<1>1. seenCordoned' = [seenCordoned EXCEPT ![n] = cordoned[n]]
  BY DEF NodeBoots, NodeStops, PowerSettles
<1>2. PICK c \in Configs :
        /\ nhNode[c] = n
        /\ \/ /\ nhStep[c] = "awaitReady" /\ power[n] = "booting"
              /\ power' = [power EXCEPT ![n] = "on"]
           \/ /\ nhStep[c] = "awaitOff" /\ power[n] = "stopping"
              /\ power' = [power EXCEPT ![n] = "off"]
  BY DEF NodeBoots, NodeStops, PowerSettles, MachinesInStep, NodeInStep,
         HasWorkerAt
<1>3. \A d \in Configs : Pending(d) => d = c
  BY <1>2, WaitingIsPending DEF OneOpen, Open
<1>4. MachineDone(c)'
  BY <1>0, <1>2 DEF MachineDone
<1>5. ASSUME NEW d \in Configs, MachineDone(d)
      PROVE  MachineDone(d)'
  <2>1. CASE nhNode[d] = n
    BY <1>0, <1>2, <1>5, <2>1 DEF MachineDone
  <2>2. CASE nhNode[d] # n
    <3>1. nhStep[d] # "idle" => nhNode[d] \in Nodes
      BY DEF InStep, HandlingsInStep, HandlingInStep, StoredHandlingsNameANode,
             Absent
    <3> QED
      BY <1>0, <1>2, <1>5, <2>2, <3>1 DEF MachineDone
  <2> QED
    BY <2>1, <2>2
<1>6. \A d \in Configs : ~Pending(d)'
  BY <1>0, <1>3, <1>4, <1>5 DEF Pending
<1>7. OneOpen' /\ RequestsInStep' /\ Serves
  BY <1>0, <1>6, RequestsFramed
<1>11. ASSUME NEW d \in Configs, Open(d)'
       PROVE  FALSE
  <2>1. nsPhase[d] = Absent /\ Open(d)
    BY <1>0, <1>6, <1>7, <1>11 DEF Open, Serves
  <2>2. Pending(c)
    BY <1>2, WaitingIsPending
  <2> QED
    BY <2>1, <2>2 DEF OneOpen, Open, Pending
<1>8. \A d \in Configs : nhStep[d] # "idle" => d = c
  BY <1>2 DEF InStep, HandlingsInStep
<1>9. ASSUME NEW d \in Configs, NEW m \in Nodes, nhNode'[d] = m
      PROVE  StepOnMachine(d, m)'
  <2>1. StepOnMachine(d, m) /\ NodeInStep(m)
    BY <1>0, <1>9 DEF MachinesInStep
  <2>2. CASE m = n
    <3>1. CASE d = c
      BY <1>0, <1>1, <1>2, <2>1, <2>2, <3>1 DEF StepOnMachine, NotStarted
    <3>2. CASE d # c
      BY <1>0, <1>1, <1>2, <1>8, <2>1, <2>2, <3>2
      DEF StepOnMachine, NotStarted
    <3> QED
      BY <3>1, <3>2
  <2>3. CASE m # n
    BY <1>0, <1>1, <1>2, <2>1, <2>3 DEF StepOnMachine, NotStarted
  <2> QED
    BY <2>2, <2>3
<1>10. ASSUME NEW m \in Nodes
       PROVE  NodeInStep(m)'
  <2>1. NodeInStep(m)
    BY DEF MachinesInStep
  <2>2. CASE m = n
    BY <1>0, <1>1, <1>2, <2>1, <2>2 DEF NodeInStep
  <2>3. CASE m # n
    BY <1>0, <1>1, <1>2, <2>1, <2>3 DEF NodeInStep, HasWorkerAt
  <2> QED
    BY <2>2, <2>3
<1> QED
  BY <1>7, <1>9, <1>10, <1>11 DEF MachinesInStep

(***************************************************************************)
(* The forecaster's Create finds no request whose machine is pending.      *)
(***************************************************************************)
LEMMA CreationResizes ==
  ASSUME TypeOK, InStep, Resizing, NEW c \in Configs, NEW required \in Requests,
         CreateClusterConfiguration(c, required)
  PROVE  Resizing' /\ \A d \in Configs : ~Open(d) /\ (Open(d)' <=> d = c)
<1> USE DEF TypeOK, Resizing
<1>0. UNCHANGED <<nsPhase, nsLabel, nhPhase, nhNode, seenCC, seenNS, seenNH,
                  power, cordoned, seenCordoned, queueCC, ccStep, nhStep>>
  BY DEF CreateClusterConfiguration, nsObject, nhObject, seenObjects, queues,
         works, ccWork, nodeVars
<1>1. /\ ccPhase[c] = Absent
      /\ ccPhase' = [ccPhase EXCEPT ![c] = Unset]
      /\ ccRequired' = [ccRequired EXCEPT ![c] = required]
      /\ \A d \in Configs : ccPhase[d] \in TerminalPhases \cup {Absent}
  BY DEF CreateClusterConfiguration, ScalingInProgress
<1>2. \A d \in Configs : ~Pending(d) /\ (Pending(d)' <=> Pending(d))
  <2>1. RequestFollows
    BY <1>1 DEF RequestsInStep, CacheInStep, RequestFollows
  <2>2. \A d \in Configs : ~Pending(d)
    BY <1>1, <2>1 DEF RequestsInStep, VerdictInStep, CacheInStep, Pending
  <2> QED
    BY <1>0, <2>2 DEF Pending, MachineDone
<1>3. \A d \in Configs : ~Open(d) /\ (Open(d)' <=> d = c)
  <2>1. nsPhase[c] = Absent
    BY <1>1 DEF RequestsInStep, CacheInStep
  <2> QED
    BY <1>0, <1>1, <1>2, <2>1 DEF Open, TerminalPhases, Absent, Unset
<1>4. ASSUME NEW d \in Configs
      PROVE  VerdictInStep(d)' /\ CacheInStep(d)' /\ LabelInStep(d)'
  <2>1. VerdictInStep(d) /\ CacheInStep(d) /\ LabelInStep(d)
    BY DEF RequestsInStep
  <2>2. VerdictInStep(d)'
    BY <1>2 DEF VerdictInStep
  <2>3. CacheInStep(d)'
    BY <1>0, <1>1, <2>1 DEF CacheInStep, Absent, Unset, Handled
  <2>4. LabelInStep(d)'
    BY <1>0, <1>1, <1>2, <2>1 DEF LabelInStep, CacheInStep, OutOfBounds
  <2> QED
    BY <2>2, <2>3, <2>4
<1>5. MachinesInStep'
  BY <1>0, MachinesFramed
<1> QED
  BY <1>3, <1>4, <1>5 DEF RequestsInStep, OneOpen

(***************************************************************************)
(* The informers.  An event of a NodeSelecting or a NodeHandling queues    *)
(* its request, and neither exists before the selection does.              *)
(***************************************************************************)
LEMMA DeliveryResizes ==
  ASSUME TypeOK, InStep, Resizing, NEW c \in Configs,
         DeliverCC(c) \/ DeliverNS(c) \/ DeliverNH(c)
  PROVE  Resizing' /\ Serves
<1> USE DEF TypeOK, Resizing
<1>0. UNCHANGED <<ccPhase, ccRequired, nsPhase, nsLabel, nhPhase, nhNode,
                  power, cordoned, seenCordoned, ccStep, nhStep>>
  BY DEF DeliverCC, DeliverNS, DeliverNH, ccObject, nsObject, nhObject,
         works, ccWork, nodeVars
<1>1. /\ queueCC' = queueCC \cup {c}
      /\ \/ seenCC' = seenCC /\ nsPhase[c] # Absent
         \/ /\ seenCC' = [seenCC EXCEPT ![c] = ccPhase[c]]
            /\ seenCC[c] # ccPhase[c]
  <2>1. nsPhase[c] = Absent => nhPhase[c] = Absent /\ seenNS[c] = Absent
    BY DEF InStep, SelectionsInStep, SelectionInStep, Absent
  <2>2. nhPhase[c] = Absent => seenNH[c] = Absent
    BY DEF InStep, HandlingsInStep, HandlingInStep
  <2> QED
    BY <2>1, <2>2 DEF DeliverCC, DeliverNS, DeliverNH, OwnerOf
<1>2. \A d \in Configs : Pending(d)' <=> Pending(d)
  BY <1>0 DEF Pending, MachineDone
<1>3. OneOpen' /\ Serves
  BY <1>0, <1>2 DEF OneOpen, Open, Serves
<1>4. ActiveNodes' = ActiveNodes
  BY <1>0, ActiveNodesKept DEF Ready
<1>5. ASSUME NEW d \in Configs
      PROVE  VerdictInStep(d)' /\ CacheInStep(d)' /\ LabelInStep(d)'
  <2>1. VerdictInStep(d) /\ CacheInStep(d) /\ LabelInStep(d)
    BY DEF RequestsInStep
  <2>2. VerdictInStep(d)'
    BY <1>0, <1>1, <1>2, <2>1 DEF VerdictInStep, RequestFollows
  <2>3. CacheInStep(d)'
    BY <1>0, <1>1, <2>1 DEF CacheInStep
  <2>4. LabelInStep(d)'
    BY <1>0, <1>2, <1>4, <2>1 DEF LabelInStep, OutOfBounds
  <2> QED
    BY <2>2, <2>3, <2>4
<1>6. MachinesInStep'
  BY <1>0, MachinesFramed
<1> QED
  BY <1>3, <1>5, <1>6 DEF RequestsInStep

\* The informer of the nodes moves no machine.
LEMMA NodeDeliveryResizes ==
  ASSUME TypeOK, InStep, Resizing, NEW n \in Nodes, DeliverNode(n)
  PROVE  Resizing' /\ Serves
<1> USE DEF TypeOK, Resizing
<1>0. UNCHANGED <<ccPhase, ccRequired, nsPhase, nsLabel, nhPhase, nhNode,
                  seenCC, power, cordoned, queueCC, ccStep, nhStep>>
  BY DEF DeliverNode, ccObject, nsObject, nhObject, seenObjects, queues,
         works, ccWork
<1>1. seenCordoned' = [seenCordoned EXCEPT ![n] = cordoned[n]]
  BY DEF DeliverNode
<1>2. \A d \in Configs : Pending(d)' <=> Pending(d)
  BY <1>0 DEF Pending, MachineDone
<1>3. OneOpen' /\ RequestsInStep' /\ Serves
  BY <1>0, <1>2, RequestsFramed, ActiveNodesKept DEF Ready
<1>4. ASSUME NEW d \in Configs, NEW m \in Nodes, nhNode'[d] = m
      PROVE  StepOnMachine(d, m)'
  BY <1>0, <1>1, <1>4 DEF MachinesInStep, StepOnMachine, NotStarted
<1>5. ASSUME NEW m \in Nodes
      PROVE  NodeInStep(m)'
  BY <1>0, <1>1, <1>5 DEF MachinesInStep, NodeInStep, HasWorkerAt
<1> QED
  BY <1>3, <1>4, <1>5 DEF MachinesInStep

-----------------------------------------------------------------------------
(***************************************************************************)
(* A node is selected for the pending request, so nobody is switching it:  *)
(* it is off, or it is on and schedulable for everybody.                   *)
(***************************************************************************)
LEMMA SelectionFindsMachine ==
  ASSUME TypeOK, InStep, Resizing, NEW c \in Configs, NEW n \in Nodes,
         Pending(c), nhStep[c] = "idle", n \in Selectable(c) \ {NoNode}
  PROVE  /\ nsLabel[c] > 0 => power[n] = "off"
         /\ nsLabel[c] < 0 =>
              power[n] = "on" /\ ~cordoned[n] /\ ~seenCordoned[n]
<1> USE DEF TypeOK, Resizing
<1>1. NodeInStep(n)
  BY DEF MachinesInStep
<1>2. ASSUME NEW d \in Configs, nhNode[d] = n,
             \/ nhStep[d] = "awaitReady" /\ power[n] = "booting"
             \/ nhStep[d] = "awaitOff" /\ power[n] = "stopping"
             \/ nhStep[d] \in {"drain", "powerOff"}
      PROVE  FALSE
  BY <1>2, WaitingIsPending DEF OneOpen, Open
<1>3. power[n] \in {"on", "off"}
  BY <1>1, <1>2 DEF NodeInStep, HasWorkerAt, PowerStates
<1>4. ~(power[n] = "on" /\ cordoned[n] /\ ~seenCordoned[n])
  BY <1>1, <1>2 DEF NodeInStep, HasWorkerAt
<1>5. CASE nsLabel[c] > 0
  <2>1. Selectable(c) \in {ScaleUpCandidates, {NoNode}}
    BY <1>5 DEF Selectable
  <2>2. n \in ScaleUpCandidates
    BY <2>1
  <2> QED
    BY <1>3, <1>5, <2>2 DEF ScaleUpCandidates, Ready
<1>6. CASE nsLabel[c] < 0
  <2>1. Selectable(c) = Drainable \cup {NoNode}
    BY <1>6 DEF Selectable
  <2>2. n \in ScaleDownCandidates
    BY <2>1 DEF Drainable
  <2> QED
    BY <1>3, <1>4, <1>6, <2>2 DEF ScaleDownCandidates, Ready
<1> QED
  BY <1>5, <1>6

\* A selection keeps the invariant of resizing.
LEMMA NSResizes ==
  ASSUME TypeOK, InStep, Resizing, [Next]_vars, faults' = 0,
         NEW c \in Configs, NSDequeue(c) \/ NSReport(c)
  PROVE  Resizing' /\ Serves
<1> USE DEF TypeOK, Resizing
<1>0. UNCHANGED <<ccPhase, ccRequired, nsLabel, seenCC, power, cordoned,
                  seenCordoned, queueCC, ccStep, nhStep>>
  BY DEF NSDequeue, NSReport, NSHandleInitialPhase, NSNoAction,
         NSHandleRunningPhase, NSKeeps, ccObject, seenObjects, nodeVars,
         ccWork
<1>1. \/ UNCHANGED nhObject
      \/ \E n \in Nodes : /\ NSHandleRunningPhase(c)
                          /\ n \in Selectable(c) \ {NoNode}
                          /\ NodeHandlingStored(c, n)
  BY DEF NSDequeue, NSReport, NSHandleInitialPhase, NSNoAction,
         NSHandleRunningPhase, NSSelectsNothing, NSCreatesNodeHandling
<1>2. \A d \in Configs : nsPhase'[d] = Absent <=> nsPhase[d] = Absent
  <2>1. UNCHANGED nsPhase \/ \E held \in {Unset, "Running"},
                                phase \in {"Running", "Completed", "Failed"} :
                               Written(nsPhase, c, held, phase)
    BY DEF NSDequeue, NSReport, NSHandleInitialPhase, NSNoAction,
           NSHandleRunningPhase, NSSelectsNothing, NSCreatesNodeHandling,
           UpdateSucceeds, UpdateFails, UpdateConflicts, CallFails, Written
  <2> QED
    BY <2>1 DEF Written, Absent, Unset
<1>3. \A d \in Configs : nsPhase[d] = "Failed" => nsPhase'[d] = "Failed"
  BY NextHandover DEF HandoverStep, Verdicts
<1>4. \A d \in Configs :
        \/ nhPhase'[d] = nhPhase[d] /\ nhNode'[d] = nhNode[d]
        \/ nhPhase[d] = Absent /\ nhPhase'[d] = Unset /\ nhStep[d] = "idle"
  <2>1. \A d \in Configs : nhPhase[d] = Absent => nhStep[d] = "idle"
    BY DEF InStep, HandlingsInStep, HandlingInStep, Absent
  <2> QED
    BY <1>1, <2>1 DEF nhObject, NodeHandlingStored, Written
<1>5. \A d \in Configs : Pending(d)' => Pending(d)
  BY <1>0, <1>2, <1>3, <1>4 DEF Pending, MachineDone, Absent, Unset
<1>6. OneOpen' /\ RequestsInStep' /\ Serves
  BY <1>0, <1>2, <1>5, RequestsFramed, ActiveNodesKept DEF Ready
<1>7. MachinesInStep'
  <2>1. CASE UNCHANGED nhObject
    BY <1>0, <2>1, MachinesFramed DEF nhObject
  <2>2. ASSUME NEW n \in Nodes, NSHandleRunningPhase(c),
               n \in Selectable(c) \ {NoNode}, NodeHandlingStored(c, n)
        PROVE  MachinesInStep'
    <3>1. nsPhase[c] = "Running" /\ nhPhase[c] = Absent /\ nhStep[c] = "idle"
      BY <2>2 DEF NSHandleRunningPhase, NodeHandlingStored, Written, InStep,
                  SelectionsInStep, SelectionInStep, HandlingsInStep,
                  HandlingInStep, Absent
    <3>2. Pending(c)
      BY <3>1 DEF Pending, MachineDone, Absent
    <3>3. /\ nhPhase' = [nhPhase EXCEPT ![c] = Unset]
          /\ nhNode' = [nhNode EXCEPT ![c] = n]
      BY <2>2 DEF NodeHandlingStored, Written
    <3>4. ASSUME NEW d \in Configs, NEW m \in Nodes, nhNode'[d] = m
          PROVE  StepOnMachine(d, m)'
      <4>1. CASE d = c
        BY <1>0, <2>2, <3>1, <3>2, <3>3, <3>4, <4>1, SelectionFindsMachine
        DEF StepOnMachine
      <4>2. CASE d # c
        BY <1>0, <3>3, <3>4, <4>2
        DEF MachinesInStep, StepOnMachine, NotStarted
      <4> QED
        BY <4>1, <4>2
    <3>5. ASSUME NEW m \in Nodes
          PROVE  NodeInStep(m)'
      BY <1>0, <3>1, <3>3, <3>5 DEF MachinesInStep, NodeInStep, HasWorkerAt
    <3> QED
      BY <3>4, <3>5 DEF MachinesInStep
  <2> QED
    BY <1>1, <2>1, <2>2
<1> QED
  BY <1>6, <1>7

-----------------------------------------------------------------------------
(***************************************************************************)
(* What each step of the worker does to its machine n, when nothing fails. *)
(***************************************************************************)
Works(c, from, to) ==
  /\ nhStep[c] = from
  /\ nhStep' = [nhStep EXCEPT ![c] = to]

Switches(n, state) ==
  /\ power' = [power EXCEPT ![n] = state]
  /\ UNCHANGED <<cordoned, nhPhase>>

Cordons(n, value) ==
  /\ cordoned' = [cordoned EXCEPT ![n] = value]
  /\ UNCHANGED <<power, nhPhase>>

Waits == UNCHANGED <<power, cordoned, nhPhase>>

WorkEffect(c, n) ==
  \/ Works(c, "powerOn", "awaitReady") /\ Switches(n, "booting")
  \/ Works(c, "awaitReady", "uncordon") /\ power[n] = "on" /\ Waits
  \/ Works(c, "uncordon", "annotate") /\ Cordons(n, FALSE)
  \/ Works(c, "annotate", "complete") /\ Waits
  \/ Works(c, "cordon", "drain") /\ Cordons(n, TRUE)
  \/ Works(c, "drain", "powerOff") /\ Waits
  \/ Works(c, "powerOff", "awaitOff") /\ Switches(n, "stopping")
  \/ Works(c, "awaitOff", "complete") /\ power[n] = "off" /\ Waits
  \/ /\ Works(c, "complete", "idle")
     /\ nhPhase' = [nhPhase EXCEPT ![c] = "Completed"]
     /\ UNCHANGED <<power, cordoned>>

\* A call or wait of a scaling step has one of the effects of WorkEffect.
LEMMA WorkHasEffect ==
  ASSUME TypeOK, InStep, MachinesInStep, \A kind : ~Fault(kind),
         NEW c \in Configs, NHWork(c)
  PROVE  nhNode[c] \in Nodes /\ WorkEffect(c, nhNode[c])
<1> DEFINE n == nhNode[c]
<1> USE DEF TypeOK, WorkEffect, Works, Switches, Cordons, Waits, NHStep,
            Proceeds, FailsBy, NHGoto
<1>1. /\ nhStep[c] # "idle" => nhPhase[c] = "Running" /\ n \in Nodes
      /\ nhStep[c] \notin {"fail", "abort"}
      /\ nhStep[c] \in ScaleUpSteps => nsLabel[c] > 0
      /\ nhStep[c] \in ScaleDownSteps => nsLabel[c] < 0
  BY DEF InStep, HandlingsInStep, HandlingInStep, StoredHandlingsNameANode,
         Absent
<1>2. nhStep[c] # "idle"
  BY DEF NHWork, NHPowerOn, NHAwaitReady, NHUncordon, NHAnnotate, NHCordon,
         NHDrain, NHPowerOff, NHAwaitOff, NHAbort, NHComplete, NHFail
<1>3. n \in Nodes /\ StepOnMachine(c, n)
  BY <1>1, <1>2 DEF MachinesInStep
<1> USE DEF StepOnMachine, ScaleUpSteps, ScaleDownSteps
<1>4. CASE NHPowerOn(c)
  BY <1>1, <1>3, <1>4
  DEF NHPowerOn, PerformPowerCycleAction, PowerPost, AfterOn, PowerStates
<1>5. CASE NHAwaitReady(c)
  BY <1>3, <1>5 DEF NHAwaitReady, Ready
<1>6. CASE NHUncordon(c)
  BY <1>3, <1>6 DEF NHUncordon, PatchNode, Patch
<1>7. CASE NHAnnotate(c)
  BY <1>3, <1>7 DEF NHAnnotate, PatchNode
<1>8. CASE NHCordon(c)
  BY <1>1, <1>3, <1>8 DEF NHCordon, PatchNode, Patch
<1>9. CASE NHDrain(c)
  BY <1>3, <1>9 DEF NHDrain
<1>10. CASE NHPowerOff(c)
  BY <1>1, <1>3, <1>10
  DEF NHPowerOff, PerformPowerCycleAction, PowerPost, AfterOff, PowerStates
<1>11. CASE NHAwaitOff(c)
  BY <1>3, <1>11 DEF NHAwaitOff, Ready
<1>12. CASE NHComplete(c)
  BY <1>1, <1>3, <1>12 DEF NHComplete, UpdateSucceeds, UpdateFails,
                           UpdateConflicts, CallFails, Written
<1>13. ~NHAbort(c) /\ ~NHFail(c)
  BY <1>1 DEF NHAbort, NHFail
<1> QED
  BY <1>4, <1>5, <1>6, <1>7, <1>8, <1>9, <1>10, <1>11, <1>12, <1>13
  DEF NHWork

\* Each of these effects keeps the invariant of resizing.
LEMMA WorkResizes ==
  ASSUME TypeOK, InStep, Resizing, NEW c \in Configs, NEW n \in Nodes,
         nhNode[c] = n, WorkEffect(c, n),
         UNCHANGED <<ccPhase, ccRequired, nsPhase, nsLabel, nhNode, seenCC,
                     seenCordoned, queueCC, ccStep>>
  PROVE  Resizing' /\ Serves
<1> USE DEF TypeOK, Resizing
<1>1. \A d \in Configs : nhStep[d] # "idle" => d = c
  BY DEF WorkEffect, Works, InStep, HandlingsInStep
<1>2. \A d \in Configs :
        nhStep[c] \in {"powerOn", "cordon", "drain", "powerOff"} =>
          ~NotStarted(d)
  <2>1. ASSUME NEW d \in Configs, NotStarted(d),
               nhStep[c] \in {"powerOn", "cordon", "drain", "powerOff"}
        PROVE  FALSE
    <3>1. Pending(c)
      BY <2>1, WaitingIsPending
    <3>2. Pending(d)
      BY <2>1, UnfinishedIsPending DEF MachineDone, NotStarted, Unset
    <3> QED
      BY <2>1, <3>1, <3>2 DEF OneOpen, Open, NotStarted
  <2> QED
    BY <2>1
<1>3. /\ StepOnMachine(c, n) /\ NodeInStep(n)
      /\ nhStep[c] \in ScaleUpSteps => nsLabel[c] > 0
      /\ nhStep[c] \in ScaleDownSteps => nsLabel[c] < 0
  BY DEF MachinesInStep, InStep, HandlingsInStep, HandlingInStep
<1> USE DEF ScaleUpSteps, ScaleDownSteps
<1> USE DEF WorkEffect, Works, Switches, Cordons, Waits
<1>4. ASSUME NEW d \in Configs, MachineDone(d)
      PROVE  MachineDone(d)'
  <2>1. CASE d = c
    BY <1>3, <1>4, <2>1 DEF MachineDone, StepOnMachine
  <2>2. CASE d # c
    BY <1>1, <1>4, <2>2 DEF MachineDone
  <2> QED
    BY <2>1, <2>2
<1>5. \A d \in Configs : Pending(d)' => Pending(d)
  BY <1>4 DEF Pending
<1>6. \A m \in Nodes : Ready(m)' <=> Ready(m)
  BY <1>3 DEF Ready, StepOnMachine
<1>7. OneOpen' /\ RequestsInStep' /\ Serves
  BY <1>5, <1>6, RequestsFramed, ActiveNodesKept
<1>8. ASSUME NEW d \in Configs, NEW m \in Nodes, nhNode'[d] = m
      PROVE  StepOnMachine(d, m)'
  <2>1. StepOnMachine(d, m) /\ NodeInStep(m)
    BY <1>8 DEF MachinesInStep
  <2>2. CASE d = c
    BY <1>3, <1>8, <2>2 DEF StepOnMachine, NodeInStep, NotStarted, Unset
  <2>3. CASE d # c
    <3>1. nhStep'[d] = "idle" /\ (NotStarted(d)' <=> NotStarted(d))
      BY <1>1, <2>3 DEF NotStarted
    <3> QED
      BY <1>2, <1>3, <1>8, <2>1, <2>3, <3>1 DEF StepOnMachine
  <2> QED
    BY <2>2, <2>3
<1>9. ASSUME NEW m \in Nodes
      PROVE  NodeInStep(m)'
  <2>1. NodeInStep(m)
    BY DEF MachinesInStep
  <2>2. CASE m = n
    BY <1>1, <1>3, <2>1, <2>2 DEF NodeInStep, StepOnMachine, HasWorkerAt
  <2>3. CASE m # n
    BY <1>1, <2>1, <2>3 DEF NodeInStep, HasWorkerAt
  <2> QED
    BY <2>2, <2>3
<1> QED
  BY <1>7, <1>8, <1>9 DEF MachinesInStep

(***************************************************************************)
(* Taking a NodeHandling from the queue starts its step and moves nothing. *)
(***************************************************************************)
LEMMA DequeueResizes ==
  ASSUME TypeOK, InStep, Resizing, \A kind : ~Fault(kind),
         NEW c \in Configs, NHDequeue(c)
  PROVE  Resizing' /\ Serves
<1> USE DEF TypeOK, Resizing
<1>0. /\ UNCHANGED <<ccPhase, ccRequired, nsPhase, nsLabel, nhNode, seenCC,
                     seenCordoned, queueCC, ccStep, power, cordoned>>
      /\ \A d \in Configs : nhStep[d] = "idle"
  BY NHWritesHandling
  DEF NHDequeue, NHHandleInitialPhase, NHNoAction, NHHandleRunningPhase,
      NHIdle
<1>1. \/ /\ \/ nhPhase' = nhPhase
            \/ /\ nhPhase[c] = Unset
               /\ nhPhase' = [nhPhase EXCEPT ![c] = "Running"]
         /\ UNCHANGED nhStep
      \/ /\ nhPhase' = nhPhase /\ nhPhase[c] = "Running"
         /\ nhStep' = [nhStep EXCEPT ![c] = FirstStep(nsLabel[c])]
  <2>1. c \in queueNH => seenNH[c] = nhPhase[c]
    BY DEF InStep, HandlingsInStep, HandlingInStep
  <2> QED
    BY <2>1 DEF NHDequeue, NHHandleInitialPhase, NHNoAction,
                NHHandleRunningPhase, NHGoto, UpdateSucceeds, UpdateFails,
                UpdateConflicts, CallFails, Written
<1>2. /\ FirstStep(nsLabel[c]) \in {"powerOn", "cordon", "complete"}
      /\ FirstStep(nsLabel[c]) = "powerOn" => nsLabel[c] > 0
      /\ FirstStep(nsLabel[c]) = "cordon" => nsLabel[c] < 0
  BY DEF FirstStep
<1>3. \A d \in Configs : Pending(d)' => Pending(d)
  BY <1>0, <1>1 DEF Pending, MachineDone, Unset
<1>4. OneOpen' /\ RequestsInStep' /\ Serves
  BY <1>0, <1>3, RequestsFramed, ActiveNodesKept DEF Ready
<1>5. ASSUME NEW d \in Configs, NEW m \in Nodes, nhNode'[d] = m
      PROVE  StepOnMachine(d, m)'
  <2>1. StepOnMachine(d, m)
    BY <1>0, <1>5 DEF MachinesInStep
  <2>2. CASE d = c
    BY <1>0, <1>1, <1>2, <2>1, <2>2 DEF StepOnMachine, NotStarted, Unset
  <2>3. CASE d # c
    BY <1>0, <1>1, <2>1, <2>3 DEF StepOnMachine, NotStarted
  <2> QED
    BY <2>2, <2>3
<1>6. ASSUME NEW m \in Nodes
      PROVE  NodeInStep(m)'
  BY <1>0, <1>6 DEF MachinesInStep, NodeInStep, HasWorkerAt
<1> QED
  BY <1>4, <1>5, <1>6 DEF MachinesInStep

\* The NodeHandling controller keeps the invariant of resizing.
LEMMA NHResizes ==
  ASSUME TypeOK, InStep, Resizing, \A kind : ~Fault(kind),
         NEW c \in Configs, NHDequeue(c) \/ NHWork(c)
  PROVE  Resizing' /\ Serves
<1>1. CASE NHDequeue(c)
  BY <1>1, DequeueResizes
<1>2. CASE NHWork(c)
  BY <1>2, WorkHasEffect, WorkResizes, NHWritesHandling DEF Resizing
<1> QED
  BY <1>1, <1>2

-----------------------------------------------------------------------------
(***************************************************************************)
(* A step of the ClusterConfiguration worker that writes no selection.     *)
(* Pending requests stay as they were; what has to be shown of request c   *)
(* is that it was judged rightly and is queued for a reason.               *)
(***************************************************************************)
LEMMA JudgingResizes ==
  ASSUME TypeOK, InStep, Resizing, NEW c \in Configs,
         CCDequeue(c) \/ CCHandle(c), UNCHANGED <<nsPhase, nsLabel>>,
         \A d \in Configs \ {c} :
           /\ ccPhase'[d] = ccPhase[d] /\ ccStep'[d] = ccStep[d]
           /\ d \in queueCC' <=> d \in queueCC,
         ccPhase'[c] \in {Unset, "Stable"} =>
           ccPhase[c] \in {Unset, "Stable"} \/ nsPhase[c] # Absent,
         ccPhase'[c] = Absent <=> ccPhase[c] = Absent,
         VerdictInStep(c)', CacheInStep(c)'
  PROVE  Resizing' /\ Serves
<1> USE DEF TypeOK, Resizing
<1>0. UNCHANGED <<ccRequired, nhPhase, nhNode, seenCC, power, cordoned,
                  seenCordoned, nhStep>>
  BY CCWritesSelection
<1>1. \A d \in Configs : Pending(d)' <=> Pending(d)
  BY <1>0 DEF Pending, MachineDone
<1>2. OneOpen' /\ Serves
  <2>1. \A d \in Configs : Open(d)' => Open(d)
    BY <1>0, <1>1 DEF Open
  <2> QED
    BY <1>0, <2>1 DEF OneOpen, Serves
<1>3. ActiveNodes' = ActiveNodes
  BY <1>0, ActiveNodesKept DEF Ready
<1>4. ASSUME NEW d \in Configs
      PROVE  VerdictInStep(d)' /\ CacheInStep(d)' /\ LabelInStep(d)'
  <2>1. VerdictInStep(d) /\ CacheInStep(d) /\ LabelInStep(d)
    BY DEF RequestsInStep
  <2>2. LabelInStep(d)'
    BY <1>0, <1>1, <1>3, <2>1 DEF LabelInStep, OutOfBounds
  <2>3. CASE d # c
    <3>1. VerdictInStep(d)'
      BY <1>0, <1>1, <2>1, <2>3 DEF VerdictInStep, RequestFollows
    <3>2. CacheInStep(d)'
      BY <1>0, <2>1, <2>3 DEF CacheInStep
    <3> QED
      BY <2>2, <3>1, <3>2
  <2> QED
    BY <2>2, <2>3
<1>5. MachinesInStep'
  BY <1>0, MachinesFramed
<1> QED
  BY <1>2, <1>4, <1>5 DEF RequestsInStep

(***************************************************************************)
(* A status update by the worker of c that succeeds or conflicts.          *)
(***************************************************************************)
LEMMA UpdateOutcome ==
  ASSUME TypeOK, \A kind : ~Fault(kind), NEW c \in Configs, NEW held,
         NEW phase \in CCPhases, NEW polled, CCUpdate(c, held, phase, polled)
  PROVE  /\ UNCHANGED <<nsPhase, nsLabel>>
         /\ ccStep' = [ccStep EXCEPT ![c] = "idle"]
         /\ \/ /\ ccPhase[c] = held
               /\ ccPhase' = [ccPhase EXCEPT ![c] = phase]
               /\ queueCC' = IF polled THEN queueCC \cup {c} ELSE queueCC
            \/ /\ ccPhase[c] # held
               /\ ccPhase' = ccPhase
               /\ queueCC' = queueCC \cup {c}
  BY DEF CCUpdate, UpdateSucceeds, UpdateFails, UpdateConflicts, CallFails,
         Written, CCDone, Goto, CCRequeue, nsObject

\* Taking a request from the queue keeps the invariant of resizing.
LEMMA CCDequeueResizes ==
  ASSUME TypeOK, InStep, Resizing, NEW c \in Configs, CCDequeue(c)
  PROVE  Resizing' /\ Serves
<1> USE DEF TypeOK
<1>0. /\ c \in queueCC /\ \A d \in Configs : ccStep[d] = "idle"
      /\ queueCC' = queueCC \ {c}
      /\ ccStep' = [ccStep EXCEPT ![c] = IF seenCC[c] \in Handled
                                         THEN seenCC[c] ELSE "idle"]
      /\ UNCHANGED <<ccPhase, nsPhase, nsLabel, nhPhase, nhNode, seenCC,
                     power, nhStep>>
  BY CCWritesSelection DEF CCDequeue, CCIdle, Goto, nsObject
<1>1. VerdictInStep(c) /\ CacheInStep(c) /\ (Pending(c)' <=> Pending(c))
  BY <1>0 DEF Resizing, RequestsInStep, Pending, MachineDone
<1>2. VerdictInStep(c)'
  BY <1>0, <1>1 DEF VerdictInStep, RequestFollows, Handled, Unset
<1>3. CacheInStep(c)'
  BY <1>0, <1>1 DEF CacheInStep
<1> QED
  BY <1>0, <1>2, <1>3, JudgingResizes

(***************************************************************************)
(* Handlers that write no selection, by the phase they judge.              *)
(***************************************************************************)
LEMMA HandlerResizes ==
  ASSUME TypeOK, InStep, Resizing, JudgedByOwnHandling,
         \A kind : ~Fault(kind), NEW c \in Configs, CCHandle(c),
         UNCHANGED <<nsPhase, nsLabel>>
  PROVE  Resizing' /\ Serves
<1> USE DEF TypeOK
<1>0. UNCHANGED <<ccRequired, nhPhase, nhNode, seenCC, power, nhStep>>
  BY CCWritesSelection
<1>1. /\ VerdictInStep(c) /\ CacheInStep(c) /\ LabelInStep(c)
      /\ Pending(c)' <=> Pending(c)
      /\ RequestFollows' <=> RequestFollows
      /\ ccStep[c] # "idle" => ccPhase[c] # Absent
  BY <1>0 DEF Resizing, RequestsInStep, CacheInStep, Pending, MachineDone,
                RequestFollows
<1>2. /\ seenNS[c] \in Verdicts => nsPhase[c] = seenNS[c]
      /\ seenNS[c] # Absent => nsPhase[c] # Absent
      /\ seenNH[c] # "Failed"
      /\ seenNH[c] = "Completed" => nhPhase[c] = "Completed"
      /\ seenNH[c] # Absent => nsPhase[c] # Absent
  BY DEF InStep, SelectionsInStep, SelectionInStep, HandlingsInStep,
         HandlingInStep, Verdicts, Absent
<1>3. ASSUME NEW phase \in CCPhases \ {Unset, Absent}, NEW polled \in BOOLEAN,
             CCUpdate(c, seenCC[c], phase, polled), ccStep[c] # "idle",
             phase \in TerminalPhases \cup {"Completed"} /\ RequestFollows
               => ~Pending(c),
             phase = "Stable" => seenCC[c] = Unset,
             polled => nsPhase[c] # Absent
      PROVE  Resizing' /\ Serves
  <2>1. /\ ccStep' = [ccStep EXCEPT ![c] = "idle"]
        /\ \/ /\ ccPhase[c] = seenCC[c]
              /\ ccPhase' = [ccPhase EXCEPT ![c] = phase]
              /\ queueCC' = IF polled THEN queueCC \cup {c} ELSE queueCC
           \/ /\ ccPhase[c] # seenCC[c]
              /\ ccPhase' = ccPhase
              /\ queueCC' = queueCC \cup {c}
    BY <1>3, UpdateOutcome
  <2>2. VerdictInStep(c)'
    BY <1>0, <1>1, <1>3, <2>1 DEF VerdictInStep, TerminalPhases
  <2>3. CacheInStep(c)'
    BY <1>0, <1>1, <1>3, <2>1 DEF CacheInStep, Handled, Absent, Unset
  <2>4. ccPhase'[c] \in {Unset, "Stable"} =>
          ccPhase[c] \in {Unset, "Stable"} \/ nsPhase[c] # Absent
    BY <1>3, <2>1
  <2>6. ccPhase'[c] = Absent <=> ccPhase[c] = Absent
    BY <1>1, <1>3, <2>1
  <2>5. \A d \in Configs \ {c} :
          /\ ccPhase'[d] = ccPhase[d] /\ ccStep'[d] = ccStep[d]
          /\ d \in queueCC' <=> d \in queueCC
    BY <2>1
  <2> QED
    BY <2>2, <2>3, <2>4, <2>5, <2>6, JudgingResizes
<1>4. ASSUME \/ queueCC' = queueCC /\ ccPhase' = ccPhase
             \/ queueCC' = queueCC \cup {c} /\ ccPhase' = ccPhase,
             ccStep[c] # "idle",
             \/ ccStep' = [ccStep EXCEPT ![c] = "idle"]
             \/ /\ ccStep' = [ccStep EXCEPT ![c] = "markSelecting"]
                /\ nsPhase[c] # Absent
      PROVE  Resizing' /\ Serves
  <2>1. VerdictInStep(c)' /\ CacheInStep(c)'
    BY <1>0, <1>1, <1>4 DEF VerdictInStep, CacheInStep, Handled, Absent, Unset
  <2>2. \A d \in Configs \ {c} :
          /\ ccPhase'[d] = ccPhase[d] /\ ccStep'[d] = ccStep[d]
          /\ d \in queueCC' <=> d \in queueCC
    BY <1>4
  <2> QED
    BY <1>4, <2>1, <2>2, JudgingResizes
<1>5. CASE HandleInitialPhase(c)
  <2>1. CCUpdate(c, Unset, "Stable", FALSE) /\ ccStep[c] = Unset
    BY <1>5 DEF HandleInitialPhase
  <2>2. /\ ccStep' = [ccStep EXCEPT ![c] = "idle"]
        /\ \/ /\ ccPhase[c] = Unset
              /\ ccPhase' = [ccPhase EXCEPT ![c] = "Stable"]
              /\ queueCC' = queueCC
           \/ /\ ccPhase[c] # Unset
              /\ ccPhase' = ccPhase
              /\ queueCC' = queueCC \cup {c}
    BY <2>1 DEF CCUpdate, UpdateSucceeds, UpdateFails, UpdateConflicts,
                CallFails, Written, CCDone, Goto, CCRequeue
  <2>3. VerdictInStep(c)'
    BY <1>0, <1>1, <2>2 DEF VerdictInStep, TerminalPhases
  <2>4. CacheInStep(c)'
    BY <1>0, <1>1, <2>1, <2>2 DEF CacheInStep, Handled, Absent, Unset
  <2>5. \A d \in Configs \ {c} :
          /\ ccPhase'[d] = ccPhase[d] /\ ccStep'[d] = ccStep[d]
          /\ d \in queueCC' <=> d \in queueCC
    BY <2>2
  <2>6. ccPhase'[c] \in {Unset, "Stable"} =>
          ccPhase[c] \in {Unset, "Stable"} \/ nsPhase[c] # Absent
    BY <2>2
  <2>7. ccPhase'[c] = Absent <=> ccPhase[c] = Absent
    BY <2>2 DEF Absent, Unset
  <2> QED
    BY <2>3, <2>4, <2>5, <2>6, <2>7, JudgingResizes
<1>6. CASE HandleStablePhase(c)
  <2> USE DEF CCDone, CCRequeue, Goto
  <2>1. ccStep[c] = "Stable"
    BY <1>6 DEF HandleStablePhase
  <2>2. ASSUME ActiveNodes = ccRequired[c]
        PROVE  ~Pending(c)
    BY <1>1, <2>2, ActiveNodesType DEF LabelInStep, Pending
  <2>3. ASSUME OutOfBounds(ccRequired[c])
        PROVE  ~Pending(c)
    BY <1>1, <2>3 DEF LabelInStep, Pending
  <2>4. ASSUME NEW phase \in {"Completed", "Failed"}, ~Pending(c),
               CCUpdate(c, seenCC[c], phase, FALSE)
        PROVE  Resizing' /\ Serves
    BY <1>3, <2>1, <2>4 DEF CCPhases, Absent, Unset
  <2>5. CASE StartScaleUp(c)
    BY <1>4, <2>1, <2>5 DEF StartScaleUp
  <2>6. CASE StartScaleDown(c)
    <3>1. ASSUME NEW label, CreateNodeSelectingOk(c, label)
          PROVE  nsPhase[c] # Absent
      BY <1>2, <3>1 DEF CreateNodeSelectingOk, NodeSelectingExists,
                        NodeSelectingStored, Written, Absent, Unset
    <3> QED
      BY <1>4, <2>1, <2>6, <3>1 DEF StartScaleDown
  <2> QED
    BY <1>6, <2>2, <2>3, <2>4, <2>5, <2>6 DEF HandleStablePhase
<1>7. CASE MarkSelecting(c)
  <2>1. /\ ccStep[c] = "markSelecting"
        /\ ccStep' = [ccStep EXCEPT ![c] = "idle"]
        /\ \/ /\ ccPhase' = [ccPhase EXCEPT ![c] = "Selecting"]
              /\ queueCC' = queueCC
           \/ /\ ccPhase' = ccPhase
              /\ queueCC' = queueCC \cup {c}
    BY <1>7 DEF MarkSelecting, UpdateSucceeds, UpdateFails, UpdateConflicts,
                CallFails, Written, CCRequeue, Goto
  <2>2. VerdictInStep(c)'
    BY <1>0, <1>1, <2>1 DEF VerdictInStep, TerminalPhases
  <2>3. CacheInStep(c)'
    BY <1>0, <1>1, <2>1 DEF CacheInStep, Handled, Absent, Unset
  <2>4. ccPhase'[c] = Absent <=> ccPhase[c] = Absent
    BY <1>1, <2>1 DEF Absent
  <2> QED
    BY <2>1, <2>2, <2>3, <2>4, JudgingResizes DEF Unset
<1>8. CASE HandleSelectingPhase(c)
  <2>1. ccStep[c] = "Selecting"
    BY <1>8 DEF HandleSelectingPhase
  <2>2. CASE SelectionDone(seenNS[c]) /\ CCUpdate(c, seenCC[c], "Switching", FALSE)
    BY <1>3, <2>1, <2>2 DEF CCPhases, TerminalPhases, Absent, Unset
  <2>3. CASE seenNS[c] = "Failed" /\ CCUpdate(c, seenCC[c], "Failed", TRUE)
    <3>1. nsPhase[c] # Absent /\ ~Pending(c)
      BY <1>2, <2>3 DEF Pending, Verdicts, Absent
    <3> QED
      BY <1>3, <2>1, <2>3, <3>1 DEF CCPhases, Absent, Unset
  <2>4. CASE CCWait(c)
    BY <1>4, <2>1, <2>4 DEF CCWait, CCRequeue, CCDone, Goto
  <2> QED
    BY <1>8, <2>2, <2>3, <2>4 DEF HandleSelectingPhase
<1>9. CASE HandleSwitchingPhase(c)
  <2>1. ccStep[c] = "Switching"
    BY <1>9 DEF HandleSwitchingPhase
  <2>2. CASE seenNH[c] = "Completed" /\ CCUpdate(c, seenCC[c], "Completed", FALSE)
    <3>1. ~Pending(c)
      BY <1>2, <2>2 DEF Pending, MachineDone
    <3> QED
      BY <1>3, <2>1, <2>2, <3>1 DEF CCPhases, Absent, Unset
  <2>3. CASE CCWait(c)
    BY <1>4, <2>1, <2>3 DEF CCWait, CCRequeue, CCDone, Goto
  <2>4. CASE /\ seenNH[c] = Absent /\ HandlingsInNamespace > 1
             /\ CCUpdate(c, seenCC[c], "Failed", TRUE)
    <3>1. HandlingsInNamespace \in Int
      BY FS_Subset, FS_CardinalityType, ClusterAssumption
      DEF HandlingsInNamespace, ClusterAssumption
    <3>2. ~RequestFollows
      BY <2>1, <2>4, <3>1 DEF JudgedByOwnHandling
    <3>3. nsPhase[c] # Absent
      BY <3>2 DEF RequestFollows
    <3> QED
      BY <1>3, <2>1, <2>4, <3>2, <3>3 DEF CCPhases, Absent, Unset
  <2> QED
    BY <1>2, <1>9, <2>2, <2>3, <2>4 DEF HandleSwitchingPhase
<1>10. CASE HandleCompletedPhase(c)
  <2>1. /\ ccStep[c] = "Completed" /\ UNCHANGED <<ccPhase, queueCC>>
        /\ \/ ccStep' = [ccStep EXCEPT ![c] = "finish"]
           \/ ccStep' = [ccStep EXCEPT ![c] = "fail"]
    BY <1>10 DEF HandleCompletedPhase, Goto
  <2>2. VerdictInStep(c)'
    BY <1>0, <1>1, <2>1 DEF VerdictInStep
  <2>3. CacheInStep(c)'
    BY <1>0, <1>1, <2>1 DEF CacheInStep, Handled, Unset
  <2> QED
    BY <2>1, <2>2, <2>3, JudgingResizes
<1>11. CASE RetryOnConflict(c)
  <2>1. ccStep[c] \in {"finish", "fail"} /\ (RequestFollows => ~Pending(c))
    BY <1>1, <1>11 DEF RetryOnConflict, VerdictInStep
  <2>2. CASE CCUpdate(c, seenCC[c], Verdict(c), FALSE)
    <3>1. \/ CCUpdate(c, seenCC[c], "Finished", FALSE)
          \/ CCUpdate(c, seenCC[c], "Failed", FALSE)
      BY <2>2 DEF Verdict, CCUpdate, UpdateSucceeds, UpdateFails,
                  UpdateConflicts, CallFails, Written
    <3> QED
      BY <1>3, <2>1, <3>1 DEF CCPhases, Absent, Unset
  <2>3. CASE UNCHANGED <<ccPhase, ccStep, queueCC>>
    <3>1. VerdictInStep(c)' /\ CacheInStep(c)'
      BY <1>0, <1>1, <2>3 DEF VerdictInStep, CacheInStep
    <3> QED
      BY <2>3, <3>1, JudgingResizes
  <2> QED
    BY <1>11, <2>2, <2>3 DEF RetryOnConflict, UpdateConflicts
<1> QED
  BY <1>5, <1>6, <1>7, <1>8, <1>9, <1>10, <1>11 DEF CCHandle

(***************************************************************************)
(* The request that creates its selection is the open one; its label says  *)
(* which way the number of active workers is off.                          *)
(***************************************************************************)
LEMMA SelectionCreated ==
  ASSUME TypeOK, \A kind : ~Fault(kind), NEW c \in Configs,
         HandleStablePhase(c), nsPhase[c] = Absent,
         nsPhase' = [nsPhase EXCEPT ![c] = Unset]
  PROVE  /\ ~OutOfBounds(ccRequired[c])
         /\ UNCHANGED <<ccPhase, queueCC>>
         /\ \E step \in {"idle", "markSelecting"} :
              ccStep' = [ccStep EXCEPT ![c] = step]
         /\ \A d \in Configs \ {c} : nsLabel'[d] = nsLabel[d]
         /\ \/ ActiveNodes < ccRequired[c] /\ nsLabel'[c] > 0
            \/ ActiveNodes > ccRequired[c] /\ nsLabel'[c] < 0
<1> USE DEF TypeOK, CCDone, CCRequeue, Goto
<1> DEFINE required == ccRequired[c]
<1>1. UNCHANGED nsPhase => FALSE
  BY DEF Absent, Unset
<1>2. ASSUME NEW label, CreateNodeSelectingOk(c, label)
      PROVE  nsLabel' = [nsLabel EXCEPT ![c] = label]
  BY <1>1, <1>2
  DEF CreateNodeSelectingOk, NodeSelectingStored, nsObject
<1>3. ASSUME NEW label, CreateNodeSelectingFails(c, label)
      PROVE  FALSE
  BY <1>1, <1>3 DEF CreateNodeSelectingFails, nsObject
<1>4. CASE ActiveNodes < required /\ ~OutOfBounds(required) /\ StartScaleUp(c)
  <2>1. WorkersToAddUp(required) > 0 /\ WorkersToAddUp(required) \in Int
    BY <1>4, ActiveNodesType, ClusterAssumption
    DEF WorkersToAddUp, OutOfBounds, ClusterAssumption
  <2>2. /\ nsLabel' = [nsLabel EXCEPT ![c] = WorkersToAddUp(required)]
        /\ UNCHANGED <<ccPhase, queueCC>>
        /\ ccStep' = [ccStep EXCEPT ![c] = "idle"]
    BY <1>2, <1>3, <1>4 DEF StartScaleUp
  <2> QED
    BY <1>4, <2>1, <2>2
<1>5. CASE ActiveNodes > required /\ ~OutOfBounds(required) /\ StartScaleDown(c)
  <2>1. WorkersToRemove(required) < 0 /\ WorkersToRemove(required) \in Int
    BY <1>5, ActiveNodesType, ClusterAssumption
    DEF WorkersToRemove, OutOfBounds, ClusterAssumption
  <2>2. /\ nsLabel' = [nsLabel EXCEPT ![c] = WorkersToRemove(required)]
        /\ UNCHANGED <<ccPhase, queueCC>>
        /\ ccStep' = [ccStep EXCEPT ![c] = "markSelecting"]
    BY <1>2, <1>3, <1>5 DEF StartScaleDown
  <2> QED
    BY <1>5, <2>1, <2>2
<1> QED
  BY <1>1, <1>4, <1>5 DEF HandleStablePhase, CCUpdate, nsObject

\* The selection of a request is created when the bounds allow the step.
LEMMA SelectionCreationResizes ==
  ASSUME TypeOK, InStep, Resizing, \A kind : ~Fault(kind),
         NEW c \in Configs, CCHandle(c), HandleStablePhase(c),
         nsPhase[c] = Absent, nsPhase' = [nsPhase EXCEPT ![c] = Unset]
  PROVE  Resizing' /\ Serves
<1> USE DEF TypeOK, Resizing
<1>0. UNCHANGED <<ccRequired, nhPhase, nhNode, seenCC, power, cordoned,
                  seenCordoned, nhStep>>
  BY CCWritesSelection
<1>1. /\ ~OutOfBounds(ccRequired[c])
      /\ UNCHANGED <<ccPhase, queueCC>>
      /\ \E step \in {"idle", "markSelecting"} :
           ccStep' = [ccStep EXCEPT ![c] = step]
      /\ \A d \in Configs \ {c} : nsLabel'[d] = nsLabel[d]
      /\ \/ ActiveNodes < ccRequired[c] /\ nsLabel'[c] > 0
         \/ ActiveNodes > ccRequired[c] /\ nsLabel'[c] < 0
  BY SelectionCreated
<1>2. ccStep[c] = "Stable" /\ ccPhase[c] = "Stable" /\ seenCC[c] = "Stable"
  <2>1. ccStep[c] = "Stable" /\ CacheInStep(c)
    BY DEF HandleStablePhase, RequestsInStep
  <2> QED
    BY <2>1 DEF CacheInStep, Handled
<1>3. nhPhase[c] = Absent /\ nhStep[c] = "idle"
  BY DEF InStep, SelectionsInStep, SelectionInStep, HandlingsInStep,
         HandlingInStep, Absent
<1>4. \A d \in Configs \ {c} : Pending(d)' <=> Pending(d)
  BY <1>0 DEF Pending, MachineDone
<1>10. RequestFollows
  BY DEF RequestFollows
<1>5. OneOpen' /\ Serves
  <2>1. Open(c)
    BY <1>2 DEF Open
  <2>2. \A d \in Configs \ {c} : Open(d)' => Open(d)
    BY <1>1, <1>4 DEF Open
  <2> QED
    BY <1>0, <1>1, <2>1, <2>2 DEF OneOpen, Serves
<1>6. ActiveNodes' = ActiveNodes
  BY <1>0, ActiveNodesKept DEF Ready
<1>7. VerdictInStep(c)' /\ CacheInStep(c)' /\ LabelInStep(c)'
  <2>1. VerdictInStep(c)'
    BY <1>0, <1>1, <1>2, <1>10 DEF VerdictInStep, TerminalPhases
  <2>2. CacheInStep(c)'
    BY <1>0, <1>1, <1>2 DEF CacheInStep, Absent, Unset
  <2>3. LabelInStep(c)'
    <3>0. nsLabel'[c] \in Int
      BY CCTyped
    <3>1. nsLabel'[c] # 0 /\ ~OutOfBounds(ccRequired[c])'
      BY <1>0, <1>1 DEF OutOfBounds
    <3>2. CASE ActiveNodes < ccRequired[c] /\ nsLabel'[c] > 0
      <4>1. ~(nsLabel'[c] < 0)
        BY <3>0, <3>2
      <4> QED
        BY <1>0, <1>6, <3>1, <3>2, <4>1 DEF LabelInStep
    <3>3. CASE ActiveNodes > ccRequired[c] /\ nsLabel'[c] < 0
      <4>1. ~(nsLabel'[c] > 0)
        BY <3>0, <3>3
      <4> QED
        BY <1>0, <1>6, <3>1, <3>3, <4>1 DEF LabelInStep
    <3> QED
      BY <1>1, <3>2, <3>3
  <2> QED
    BY <2>1, <2>2, <2>3
<1>8. ASSUME NEW d \in Configs, d # c
      PROVE  VerdictInStep(d)' /\ CacheInStep(d)' /\ LabelInStep(d)'
  <2>1. VerdictInStep(d) /\ CacheInStep(d) /\ LabelInStep(d)
    BY DEF RequestsInStep
  <2>2. VerdictInStep(d)'
    BY <1>0, <1>1, <1>4, <1>8, <1>10, <2>1 DEF VerdictInStep
  <2>3. CacheInStep(d)'
    BY <1>0, <1>1, <1>8, <2>1 DEF CacheInStep
  <2>4. LabelInStep(d)'
    BY <1>0, <1>1, <1>4, <1>6, <1>8, <2>1 DEF LabelInStep, OutOfBounds
  <2> QED
    BY <2>2, <2>3, <2>4
<1>9. MachinesInStep'
  BY <1>0, <1>1, <1>3, MachinesFramed
<1> QED
  BY <1>5, <1>7, <1>8, <1>9 DEF RequestsInStep

\* Until a fault happens, every step keeps the invariant of resizing.
LEMMA ResizingKept ==
  ASSUME TypeOK, InStep, Resizing, JudgedByOwnHandling, [Next]_vars,
         faults' = 0
  PROVE  /\ Resizing'
         /\ \/ Serves
            \/ \E c \in Configs, k \in Requests : CreateClusterConfiguration(c, k)
<1>0. faults = 0 /\ \A kind : ~Fault(kind)
  BY NoFaultSoFar
<1>1. ASSUME Environment
      PROVE  /\ Resizing'
             /\ \/ Serves
                \/ \E c \in Configs, k \in Requests : CreateClusterConfiguration(c, k)
  <2>1. ~Restart
    BY <1>0 DEF Restart
  <2> QED
    BY <1>1, <2>1, DeliveryResizes, NodeDeliveryResizes, SettlingResizes,
       CreationResizes
    DEF Environment
<1>2. ASSUME NEW c \in Configs, CCDequeue(c) \/ CCHandle(c)
      PROVE  Resizing' /\ Serves
  <2>1. CASE CCDequeue(c)
    BY <2>1, CCDequeueResizes
  <2>2. CASE CCHandle(c) /\ UNCHANGED <<nsPhase, nsLabel>>
    BY <1>0, <2>2, HandlerResizes
  <2>3. CASE /\ CCHandle(c) /\ HandleStablePhase(c) /\ nsPhase[c] = Absent
             /\ nsPhase' = [nsPhase EXCEPT ![c] = Unset]
    BY <1>0, <2>3, SelectionCreationResizes
  <2> QED
    BY <1>2, <2>1, <2>2, <2>3, CCWritesSelection
<1>3. ASSUME NEW c \in Configs, NSDequeue(c) \/ NSReport(c)
      PROVE  Resizing' /\ Serves
  BY <1>3, NSResizes
<1>4. ASSUME NEW c \in Configs, NHDequeue(c) \/ NHWork(c)
      PROVE  Resizing' /\ Serves
  BY <1>0, <1>4, NHResizes
<1>5. CASE UNCHANGED vars
  <2>1. UNCHANGED <<ccPhase, ccRequired, nsPhase, nsLabel, nhPhase, nhNode,
                    seenCC, power, cordoned, seenCordoned, queueCC, ccStep,
                    nhStep>>
    BY <1>5 DEF vars, ccObject, nsObject, nhObject, seenObjects, nodeVars,
                queues, ccWork, works
  <2>2. \A d \in Configs : Pending(d)' <=> Pending(d)
    BY <2>1 DEF Pending, MachineDone
  <2> QED
    BY <2>1, <2>2, RequestsFramed, MachinesFramed, ActiveNodesKept
    DEF Resizing, Ready
<1> QED
  BY <1>1, <1>2, <1>3, <1>4, <1>5 DEF Next, Controllers

\* The invariant holds initially.
LEMMA InitInStep == Init => InStep /\ Resizing
<1> SUFFICES ASSUME Init
             PROVE  InStep /\ Resizing
  OBVIOUS
<1> USE DEF Init, Absent, Unset
<1>1. InStep
  BY DEF InStep, SelectionsInStep, SelectionInStep, HandlingsInStep,
         HandlingInStep, StoredHandlingsNameANode, Verdicts, ScaleUpSteps,
         ScaleDownSteps
<1>2. \A c \in Configs : ~Open(c) /\ ~Pending(c)
  BY DEF Open, Pending
<1>3. OneOpen /\ RequestsInStep
  BY <1>2 DEF OneOpen, RequestsInStep, VerdictInStep, CacheInStep, Handled,
              LabelInStep
<1>4. MachinesInStep
  <2>1. ASSUME NEW c \in Configs, NEW n \in Nodes
        PROVE  nhNode[c] # n
    BY ClusterAssumption DEF ClusterAssumption
  <2>2. \A n \in Nodes : NodeInStep(n)
    BY DEF NodeInStep
  <2> QED
    BY <2>1, <2>2 DEF MachinesInStep
<1> QED
  BY <1>1, <1>3, <1>4 DEF Resizing

\* Until a fault happens, every step keeps the workers in step.
LEMMA InStepKept ==
  ASSUME TypeOK, InStep, [Next]_vars, faults' = 0
  PROVE  InStep'
<1>1. StoredHandlingsNameANode'
  BY NextHandover DEF HandoverStep, InStep, StoredHandlingsNameANode
<1> QED
  BY <1>1, SelectionsKept, HandlingsKept DEF InStep

(***************************************************************************)
(* The inductive invariant of everything below, up to the first fault.     *)
(***************************************************************************)
ResizingInv == faults = 0 => InStep /\ Resizing

\* A step out of a state in which the count decides at most about the last
\* request keeps the invariant of resizing.
LEMMA ResizingStep ==
  ASSUME TypeOK, ResizingInv, faults = 0 => JudgedByOwnHandling, [Next]_vars
  PROVE  ResizingInv'
<1> SUFFICES ASSUME faults' = 0
             PROVE  InStep' /\ Resizing'
  BY DEF ResizingInv
<1>1. InStep /\ Resizing /\ JudgedByOwnHandling
  BY NoFaultSoFar DEF ResizingInv
<1> QED
  BY <1>1, InStepKept, ResizingKept

\* The invariant of resizing holds up to the first fault.
LEMMA ResizingAlways ==
  Spec /\ [](faults = 0 => JudgedByOwnHandling) => []ResizingInv
<1>1. Init => ResizingInv
  BY InitInStep DEF ResizingInv
<1>2. TypeOK /\ (faults = 0 => JudgedByOwnHandling) /\ ResizingInv
        /\ [Next]_vars => ResizingInv'
  BY ResizingStep
<1> QED
  BY <1>1, <1>2, Typing, PTL DEF Spec

(***************************************************************************)
(* Until a fault happens a node that stops or is off is cordoned: a        *)
(* scale-down has cordoned it before it asked the BMC, a scale-up lifts    *)
(* the cordon when the node is Ready, and no other step works on it.       *)
(***************************************************************************)
THEOREM OffNodesCordoned ==
  Spec /\ [](faults = 0 => JudgedByOwnHandling)
    => [](faults = 0 => OffNodesStayCordoned)
<1>1. ResizingInv => (faults = 0 => OffNodesStayCordoned)
  BY DEF ResizingInv, Resizing, MachinesInStep, NodeInStep,
         OffNodesStayCordoned
<1> QED
  BY <1>1, ResizingAlways, PTL

-----------------------------------------------------------------------------
(***************************************************************************)
(* The WorkerPool of the instance counts with the same Cardinality.        *)
(***************************************************************************)
LEMMA PoolCounts ==
  ASSUME NEW S
  PROVE  Pool!Cardinality(S) = Cardinality(S)
  BY DEF Pool!Cardinality, Cardinality

(***************************************************************************)
(* A machine on its way has a worker that waits for it, whose request is   *)
(* pending: without a pending request the pool is steady.                  *)
(***************************************************************************)
LEMMA BusyIsPending ==
  InStep /\ Resizing /\ (\A c \in Configs : ~Pending(c))
    => InState("booting") = {} /\ InState("stopping") = {}
<1> SUFFICES ASSUME InStep, Resizing, \A c \in Configs : ~Pending(c)
             PROVE  InState("booting") = {} /\ InState("stopping") = {}
  OBVIOUS
<1>1. ASSUME NEW n \in Nodes, power[n] \in {"booting", "stopping"}
      PROVE  FALSE
  <2>1. PICK c \in Configs :
          /\ nhNode[c] = n
          /\ \/ nhStep[c] = "awaitReady" /\ power[n] = "booting"
             \/ nhStep[c] = "awaitOff" /\ power[n] = "stopping"
    BY <1>1 DEF Resizing, MachinesInStep, NodeInStep, HasWorkerAt
  <2> QED
    BY <2>1, WaitingIsPending
<1> QED
  BY <1>1 DEF InState

(***************************************************************************)
(* While the worker is at "powerOn" or "powerOff" its request is the open  *)
(* one, nothing boots or stops, and the machines that are on are fewer, or *)
(* more, than the request asks for.                                        *)
(***************************************************************************)
LEMMA PoolSteady ==
  ASSUME TypeOK, InStep, Resizing, NEW c \in Configs,
         nhStep[c] \in {"powerOn", "powerOff"}
  PROVE  /\ InState("booting") = {} /\ InState("stopping") = {}
         /\ nhStep[c] = "powerOn" =>
              /\ Cardinality(InState("on")) < ccRequired[c]
              /\ Cardinality(InState("on")) < MaxNodes
         /\ nhStep[c] = "powerOff" =>
              /\ Cardinality(InState("on")) > ccRequired[c]
              /\ Cardinality(InState("on")) > MinNodes
<1> USE DEF TypeOK, Resizing
<1>1. \A n \in Nodes : power[n] \notin {"booting", "stopping"}
  BY DEF InStep, HandlingsInStep, MachinesInStep, NodeInStep, HasWorkerAt
<1>2. InState("booting") = {} /\ InState("stopping") = {}
  BY <1>1 DEF InState
<1>3. ActiveNodes = Cardinality(InState("on"))
  <2>1. {n \in Nodes : Ready(n)} = InState("on")
    BY <1>1 DEF InState, Ready
  <2> QED
    BY <2>1 DEF ActiveNodes
<1>4. Pending(c) /\ nsPhase[c] # Absent /\ LabelInStep(c)
  BY WaitingIsPending DEF Pending, RequestsInStep
<1>5. /\ nhStep[c] = "powerOn" => ActiveNodes < ccRequired[c]
      /\ nhStep[c] = "powerOff" => ActiveNodes > ccRequired[c]
      /\ ~OutOfBounds(ccRequired[c])
  BY <1>4 DEF LabelInStep, InStep, HandlingsInStep, HandlingInStep,
              ScaleUpSteps, ScaleDownSteps
<1> QED
  BY <1>2, <1>3, <1>5, ActiveNodesType, ClusterAssumption
  DEF OutOfBounds, ClusterAssumption

(***************************************************************************)
(* Every step of the operator is a step of WorkerPool or leaves its        *)
(* variables alone.  A step that serves closes the open request or leaves  *)
(* it open; when it closes it, no machine is on its way afterwards.        *)
(***************************************************************************)
LEMMA ServingStep ==
  ASSUME OneOpen, Serves, UNCHANGED power,
         (\A c \in Configs : ~Pending(c)') =>
            InState("booting")' = {} /\ InState("stopping")' = {}
  PROVE  Pool!GiveUp \/ UNCHANGED Pool!poolVars
<1> DEFINE Opened == {c \in Configs : Open(c)}
<1>1. UNCHANGED <<InState("on"), InState("booting"), InState("stopping"),
                  Existing(ccPhase), ccRequired>>
  BY DEF InState, Existing, Serves
<1>2. Opened' = Opened \/ (Opened # {} /\ Opened' = {})
  BY DEF OneOpen, Serves
<1>3. CASE Opened' = Opened
  BY <1>1, <1>3 DEF Pool!poolVars, Pool!pool, Pool!requests
<1>4. CASE Opened # {} /\ Opened' = {}
  <2>1. \A c \in Configs : ~Pending(c)'
    BY <1>4 DEF Open
  <2> QED
    BY <1>1, <1>4, <2>1
    DEF Pool!GiveUp, Pool!Steady, Pool!pool, Pool!requests
<1> QED
  BY <1>2, <1>3, <1>4

\* The step at "powerOn" or "powerOff" moves a machine for the open request, which
\* stays open.
LEMMA MovingStep ==
  ASSUME TypeOK, InStep, Resizing, Serves, NEW c \in Configs, NEW n \in Nodes,
         nhNode[c] = n, WorkEffect(c, n), UNCHANGED <<nsPhase, nhNode>>,
         ~UNCHANGED power
  PROVE  Pool!Enlist(n) \/ Pool!Retire(n)
<1> USE DEF TypeOK, Resizing
<1>1. \/ /\ nhStep[c] = "powerOn" /\ nhStep'[c] = "awaitReady"
         /\ power' = [power EXCEPT ![n] = "booting"]
      \/ /\ nhStep[c] = "powerOff" /\ nhStep'[c] = "awaitOff"
         /\ power' = [power EXCEPT ![n] = "stopping"]
  BY DEF WorkEffect, Works, Switches, Cordons, Waits
<1>2. /\ InState("booting") = {} /\ InState("stopping") = {}
      /\ nhStep[c] = "powerOn" =>
           /\ Cardinality(InState("on")) < ccRequired[c]
           /\ Cardinality(InState("on")) < MaxNodes
      /\ nhStep[c] = "powerOff" =>
           /\ Cardinality(InState("on")) > ccRequired[c]
           /\ Cardinality(InState("on")) > MinNodes
  BY <1>1, PoolSteady
<1>3. StepOnMachine(c, n) /\ Pending(c)
  BY <1>1, WaitingIsPending DEF MachinesInStep
<1>4. nhPhase[c] = "Running" /\ nhPhase'[c] = "Running" /\ nhNode'[c] = n
  BY <1>1 DEF InStep, HandlingsInStep, HandlingInStep, WorkEffect, Works,
              Switches, Cordons, Waits
<1>5. Pending(c)'
  BY <1>1, <1>3, <1>4 DEF Pending, MachineDone
<1>6. c \in {d \in Configs : Open(d)} /\ UNCHANGED {d \in Configs : Open(d)}
  BY <1>3, <1>5 DEF Open, OneOpen, Serves
<1>7. UNCHANGED <<Existing(ccPhase), ccRequired>>
  BY DEF Existing, Serves
<1>8. CASE nhStep[c] = "powerOn"
  <2>1. power[n] = "off" /\ power' = [power EXCEPT ![n] = "booting"]
    BY <1>1, <1>3, <1>8 DEF StepOnMachine, InStep, HandlingsInStep,
                            HandlingInStep, ScaleUpSteps
  <2>2. /\ InState("booting")' = {n} /\ InState("on")' = InState("on")
        /\ InState("stopping")' = InState("stopping") /\ n \notin InState("on")
    BY <1>2, <2>1 DEF InState
  <2> QED
    BY <1>2, <1>6, <1>7, <1>8, <2>2, PoolCounts
    DEF Pool!Enlist, Pool!Steady, Pool!requests
<1>9. CASE nhStep[c] = "powerOff"
  <2>1. power[n] = "on" /\ power' = [power EXCEPT ![n] = "stopping"]
    BY <1>1, <1>3, <1>9 DEF StepOnMachine
  <2>2. /\ InState("stopping")' = {n} /\ InState("on")' = InState("on") \ {n}
        /\ InState("booting")' = InState("booting") /\ n \in InState("on")
    BY <1>2, <2>1 DEF InState
  <2> QED
    BY <1>2, <1>6, <1>7, <1>9, <2>2, PoolCounts
    DEF Pool!Retire, Pool!Steady, Pool!requests
<1> QED
  BY <1>1, <1>8, <1>9

\* The power of a machine changes when it settles and when a worker acts on it.
LEMMA PowerChanges ==
  ASSUME [Next]_vars, ~Restart, ~UNCHANGED power
  PROVE  \/ \E n \in Nodes : NodeBoots(n) \/ NodeStops(n)
         \/ \E c \in Configs : NHWork(c)
<1>1. ~UNCHANGED vars
  BY DEF vars, nodeVars
<1>2. ASSUME Environment
      PROVE  \E n \in Nodes : NodeBoots(n) \/ NodeStops(n)
  BY <1>2
  DEF Environment, DeliverCC, DeliverNS, DeliverNH, DeliverNode,
      CreateClusterConfiguration, nodeVars
<1>3. ASSUME NEW c \in Configs, Controllers(c)
      PROVE  NHWork(c)
  <2>1. ~(NSDequeue(c) \/ NSReport(c))
    BY DEF NSDequeue, NSReport, NSHandleInitialPhase, NSNoAction,
           NSHandleRunningPhase, NSKeeps, nodeVars
  <2>2. ~NHDequeue(c)
    BY DEF NHDequeue, NHHandleInitialPhase, NHNoAction, NHHandleRunningPhase
  <2>3. ~(CCDequeue(c) \/ CCHandle(c))
    BY CCWritesSelection
  <2> QED
    BY <1>3, <2>1, <2>2, <2>3 DEF Controllers
<1> QED
  BY <1>1, <1>2, <1>3 DEF Next

LEMMA PoolStep ==
  ASSUME TypeOK, InStep, Resizing, JudgedByOwnHandling, [Next]_vars,
         faults' = 0
  PROVE  [Pool!PoolNext]_(Pool!poolVars)
<1> USE DEF TypeOK
<1>0. OneOpen /\ \A kind : ~Fault(kind)
  BY NoFaultSoFar DEF Resizing
<1>1. ASSUME NEW n \in Nodes, NodeBoots(n) \/ NodeStops(n)
      PROVE  Pool!Enlisted(n) \/ Pool!Retired(n)
  <2>1. Serves /\ \A c \in Configs : ~Open(c)'
    BY <1>1, SettlingResizes
  <2>2. UNCHANGED <<Existing(ccPhase), ccRequired>>
        /\ {c \in Configs : Open(c)}' = {}
    BY <2>1 DEF Existing, Serves
  <2>3. CASE NodeBoots(n)
    <3>1. power[n] = "booting" /\ power' = [power EXCEPT ![n] = "on"]
      BY <2>3 DEF NodeBoots, PowerSettles
    <3> QED
      BY <2>2, <3>1 DEF Pool!Enlisted, Pool!requests, InState
  <2>4. CASE NodeStops(n)
    <3>1. power[n] = "stopping" /\ power' = [power EXCEPT ![n] = "off"]
      BY <2>4 DEF NodeStops, PowerSettles
    <3> QED
      BY <2>2, <3>1 DEF Pool!Retired, Pool!requests, InState
  <2> QED
    BY <1>1, <2>3, <2>4
<1>2. ASSUME NEW c \in Configs, NHWork(c), ~UNCHANGED power
      PROVE  \E n \in Nodes : Pool!Enlist(n) \/ Pool!Retire(n)
  <2>1. nhNode[c] \in Nodes /\ WorkEffect(c, nhNode[c]) /\ Serves
    BY <1>0, <1>2, WorkHasEffect, NHResizes DEF Resizing
  <2> QED
    BY <1>2, <2>1, NHWritesHandling, MovingStep
<1>3. ASSUME NEW c \in Configs, NEW k \in Requests,
             CreateClusterConfiguration(c, k)
      PROVE  Pool!Ask(c, k)
  <2>1. \A d \in Configs : ~Open(d) /\ (Open(d)' <=> d = c)
    BY <1>3, CreationResizes
  <2>2. /\ {d \in Configs : Open(d)} = {}
        /\ {d \in Configs : Open(d)}' = {c}
    BY <2>1
  <2>3. InState("booting") = {} /\ InState("stopping") = {}
    BY <2>1, BusyIsPending DEF Open
  <2>4. /\ c \notin Existing(ccPhase)
        /\ Existing(ccPhase)' = Existing(ccPhase) \cup {c}
        /\ ccRequired' = [ccRequired EXCEPT ![c] = k]
        /\ UNCHANGED power
    BY <1>3 DEF CreateClusterConfiguration, Existing, Absent, Unset, nodeVars
  <2> QED
    BY <2>2, <2>3, <2>4 DEF Pool!Ask, Pool!Steady, Pool!pool, InState
<1>4. ASSUME Serves, UNCHANGED power
      PROVE  Pool!GiveUp \/ UNCHANGED Pool!poolVars
  <2>1. InStep' /\ Resizing'
    BY InStepKept, ResizingKept
  <2>2. (InStep /\ Resizing /\ (\A c \in Configs : ~Pending(c))
           => InState("booting") = {} /\ InState("stopping") = {})'
    BY BusyIsPending, PTL
  <2> QED
    BY <1>0, <1>4, <2>1, <2>2, ServingStep
<1>5. \/ Serves
      \/ \E c \in Configs, k \in Requests : CreateClusterConfiguration(c, k)
  BY ResizingKept
<1>6. UNCHANGED power \/ (\E n \in Nodes : NodeBoots(n) \/ NodeStops(n))
                     \/ (\E c \in Configs : NHWork(c))
  BY <1>0, PowerChanges DEF Restart
<1> QED
  BY <1>1, <1>2, <1>3, <1>4, <1>5, <1>6 DEF Pool!PoolNext

(***************************************************************************)
(* As long as there is no fault the operator implements WorkerPool: it     *)
(* serves one request at a time, moves at most one machine for it and in   *)
(* the direction it asks for, waits for that machine before the next       *)
(* request, and keeps the machines that serve within minNodes and          *)
(* maxNodes.                                                               *)
(***************************************************************************)
LEMMA PoolInitially == Init => Pool!PoolInit
<1> SUFFICES ASSUME Init
             PROVE  Pool!PoolInit
  OBVIOUS
<1>1. /\ InState("on") = InitiallyOn
      /\ InState("booting") = {} /\ InState("stopping") = {}
  BY ClusterAssumption DEF ClusterAssumption, Init, InState
<1>2. Existing(ccPhase) = {} /\ {c \in Configs : Open(c)} = {}
  BY DEF Init, Existing, Open, Pending, Absent, Unset
<1> QED
  BY <1>1, <1>2 DEF Init, Pool!PoolInit

\* The step of WorkerPool behind a step without fault.
LEMMA PoolRefined ==
  ASSUME TypeOK, ResizingInv, faults = 0 => JudgedByOwnHandling, [Next]_vars,
         faults' = 0
  PROVE  [Pool!PoolNext]_(Pool!poolVars)
  BY NoFaultSoFar, PoolStep DEF ResizingInv

\* The operator implements WorkerPool while nothing fails.
THEOREM PoolResized ==
  Spec /\ [](faults = 0) /\ []JudgedByOwnHandling => ResizesPool
<1>1. Init => Pool!PoolInit
  BY PoolInitially
<1>2. TypeOK /\ ResizingInv /\ (faults = 0 => JudgedByOwnHandling)
        /\ (faults = 0)' /\ [Next]_vars => [Pool!PoolNext]_(Pool!poolVars)
  BY PoolRefined
<1> QED
  BY <1>1, <1>2, Typing, ResizingAlways, PTL
  DEF Spec, ResizesPool, Pool!PoolSpec

(***************************************************************************)
(* Only a scale-down takes a machine out of the pool, and it does so when  *)
(* more than minNodes are on.                                              *)
(***************************************************************************)
LEMMA MinimumStep ==
  ASSUME TypeOK, NeverBelowMinimum, [Pool!PoolNext]_(Pool!poolVars), TypeOK'
  PROVE  NeverBelowMinimum'
<1> DEFINE On == InState("on")
<1>1. /\ Cardinality(On) >= MinNodes
      /\ IsFiniteSet(On) /\ IsFiniteSet(On')
      /\ Cardinality(On) \in Nat /\ Cardinality(On') \in Nat
  BY FS_Subset, FS_CardinalityType, ClusterAssumption
  DEF ClusterAssumption, InState, NeverBelowMinimum
<1>2. CASE On \subseteq On'
  BY <1>1, <1>2, FS_Subset, ClusterAssumption
  DEF ClusterAssumption, InState, NeverBelowMinimum
<1>3. ASSUME NEW n \in Nodes, Pool!Retire(n)
      PROVE  NeverBelowMinimum'
  <2>1. n \in On /\ On' = On \ {n} /\ Cardinality(On) > MinNodes
    BY <1>3, PoolCounts DEF Pool!Retire
  <2>2. Cardinality(On') = Cardinality(On) - 1
    BY <1>1, <2>1, FS_RemoveElement
  <2> QED
    BY <1>1, <2>1, <2>2, ClusterAssumption
    DEF ClusterAssumption, InState, NeverBelowMinimum
<1>4. ASSUME NEW n \in Nodes,
             Pool!Enlist(n) \/ Pool!Enlisted(n) \/ Pool!Retired(n)
      PROVE  On \subseteq On'
  BY <1>4 DEF Pool!Enlist, Pool!Enlisted, Pool!Retired
<1>5. ASSUME \/ \E c \in Configs, k \in Requests : Pool!Ask(c, k)
             \/ Pool!GiveUp
             \/ UNCHANGED Pool!poolVars
      PROVE  On \subseteq On'
  BY <1>5 DEF Pool!Ask, Pool!GiveUp, Pool!pool, Pool!poolVars
<1> QED
  BY <1>2, <1>3, <1>4, <1>5 DEF Pool!PoolNext

(***************************************************************************)
(* Until a fault happens at least minNodes machines are on and stay on:    *)
(* only a scale-down takes one out, and it does so when more than minNodes *)
(* are on and none is on its way in or out.                                *)
(***************************************************************************)
THEOREM MinimumKept ==
  Spec /\ [](faults = 0 => JudgedByOwnHandling)
    => [](faults = 0 => NeverBelowMinimum)
<1> DEFINE Inv == faults = 0 => NeverBelowMinimum
<1>1. Init => Inv
  <2>1. Init => {n \in Nodes : power[n] = "on"} = InitiallyOn
    BY ClusterAssumption DEF ClusterAssumption, Init
  <2> QED
    BY <2>1, ClusterAssumption DEF ClusterAssumption, NeverBelowMinimum
<1>2. TypeOK /\ TypeOK' /\ ResizingInv /\ (faults = 0 => JudgedByOwnHandling)
        /\ Inv /\ [Next]_vars => Inv'
  <2> SUFFICES ASSUME TypeOK, TypeOK', ResizingInv,
                      faults = 0 => JudgedByOwnHandling, Inv, [Next]_vars,
                      faults' = 0
               PROVE  NeverBelowMinimum'
    OBVIOUS
  <2>1. [Pool!PoolNext]_(Pool!poolVars)
    BY PoolRefined
  <2> QED
    BY <2>1, NoFaultSoFar, MinimumStep
<1> QED
  BY <1>1, <1>2, Typing, ResizingAlways, PTL DEF Spec
=============================================================================
