--------------------------- MODULE Operator_proofs ---------------------------
(***************************************************************************)
(* Theorems about Operator that hold for every set of requests and nodes,  *)
(* every bound and every combination of faults, and then up to the first   *)
(* fault.                                                                  *)
(***************************************************************************)
EXTENDS Operator, FiniteSetTheorems, TLAPS

(***************************************************************************)
(* getNumberOfWorkerNodes returns a number.                                *)
(***************************************************************************)
LEMMA ActiveNodesType == ActiveNodes \in Nat
<1>1. IsFiniteSet({n \in Nodes : Ready(n)})
  BY FS_Subset, ClusterAssumption DEF ClusterAssumption
<1> QED
  BY <1>1, FS_CardinalityType DEF ActiveNodes

(***************************************************************************)
(* A fault is counted, and the count stays within its bound.               *)
(***************************************************************************)
LEMMA FaultTyped ==
  ASSUME TypeOK, NEW kind, Fault(kind) \/ UNCHANGED faults
  PROVE  faults' \in 0..MaxFaults
  BY ClusterAssumption DEF ClusterAssumption, TypeOK, Fault

(***************************************************************************)
(* Type correctness, action by action.                                     *)
(***************************************************************************)
LEMMA InitTyped == Init => TypeOK
  BY ClusterAssumption
  DEF ClusterAssumption, Init, TypeOK, CCPhases, NSPhases, NHPhases, Absent,
      Unset, PowerStates, CCSteps, NSSteps, NHSteps

\* What happens around the controllers keeps the types.
LEMMA EnvironmentTyped ==
  ASSUME TypeOK, Environment
  PROVE  TypeOK'
<1> USE DEF TypeOK, ccObject, nsObject, nhObject, seenObjects, nodeVars, queues, ccWork, works
<1>1. ASSUME NEW c \in Configs, DeliverCC(c) PROVE TypeOK'
  BY <1>1 DEF DeliverCC
<1>2. ASSUME NEW c \in Configs, DeliverNS(c) PROVE TypeOK'
  BY <1>2 DEF DeliverNS, OwnerOf
<1>3. ASSUME NEW c \in Configs, DeliverNH(c) PROVE TypeOK'
  BY <1>3 DEF DeliverNH, OwnerOf
<1>4. ASSUME NEW n \in Nodes, DeliverNode(n) PROVE TypeOK'
  BY <1>4 DEF DeliverNode
<1>5. ASSUME NEW n \in Nodes, NodeBoots(n) \/ NodeStops(n) PROVE TypeOK'
  BY <1>5 DEF NodeBoots, NodeStops, PowerSettles, PowerStates
<1>6. ASSUME NEW c \in Configs, NEW required \in Requests,
             CreateClusterConfiguration(c, required)
      PROVE  TypeOK'
  BY <1>6, ClusterAssumption
  DEF CreateClusterConfiguration, ClusterAssumption, CCPhases, Unset
<1>7. ASSUME Restart PROVE TypeOK'
  <2>1. faults' \in 0..MaxFaults
    BY <1>7, FaultTyped DEF Restart
  <2> QED
    BY <1>7, <2>1
    DEF Restart, Existing, CCSteps, NSSteps, NHSteps, CCPhases, Absent
<1> QED
  BY <1>1, <1>2, <1>3, <1>4, <1>5, <1>6, <1>7 DEF Environment

\* The ClusterConfiguration controller keeps the types.
LEMMA CCTyped ==
  ASSUME TypeOK, NEW c \in Configs, CCDequeue(c) \/ CCHandle(c)
  PROVE  TypeOK'
<1> USE DEF TypeOK, ccObject, nsObject, nhObject, seenObjects, nodeVars, CCKeeps, Goto, CCDone, CCRequeue
<1>1. CASE CCDequeue(c)
  BY <1>1 DEF CCDequeue, Handled, CCSteps
<1>2. ASSUME NEW held, NEW phase \in CCPhases, NEW polled \in BOOLEAN,
             CCUpdate(c, held, phase, polled), CCKeeps
      PROVE  TypeOK'
  <2>1. faults' \in 0..MaxFaults
    BY <1>2, FaultTyped, ClusterAssumption DEF CCUpdate, UpdateSucceeds, UpdateFails, UpdateConflicts, CallFails
  <2>2. ccPhase' \in [Configs -> CCPhases]
    BY <1>2 DEF CCUpdate, UpdateSucceeds, UpdateFails, UpdateConflicts, CallFails, Written
  <2>3. queueCC' \subseteq Configs /\ ccStep' \in [Configs -> CCSteps]
    BY <1>2 DEF CCUpdate, CCSteps
  <2> QED
    BY <1>2, <2>1, <2>2, <2>3 DEF CCUpdate
<1>3. CASE HandleInitialPhase(c)
  BY <1>3, <1>2 DEF HandleInitialPhase, CCPhases
<1>4. ASSUME CCWait(c), CCKeeps PROVE TypeOK'
  BY <1>4 DEF CCWait, CCSteps
<1>5. CASE HandleStablePhase(c)
  <2>1. ASSUME NEW label \in Int,
               CreateNodeSelectingOk(c, label) \/ CreateNodeSelectingFails(c, label)
        PROVE  /\ faults' \in 0..MaxFaults
               /\ nsPhase' \in [Configs -> NSPhases]
               /\ nsLabel' \in [Configs -> Int]
    <3>1. faults' \in 0..MaxFaults
      BY <2>1, FaultTyped
      DEF CreateNodeSelectingOk, CreateNodeSelectingFails
    <3> QED
      BY <2>1, <3>1
      DEF CreateNodeSelectingOk, CreateNodeSelectingFails, nsObject,
          NodeSelectingExists, NodeSelectingStored, Written, NSPhases
  <2>2. ASSUME StartScaleUp(c), CCKeeps PROVE TypeOK'
    <3>1. WorkersToAddUp(ccRequired[c]) \in Int
      BY ActiveNodesType, ClusterAssumption
      DEF WorkersToAddUp, ClusterAssumption
    <3> QED
      BY <2>1, <2>2, <3>1 DEF StartScaleUp, CCSteps
  <2>3. ASSUME StartScaleDown(c), CCKeeps PROVE TypeOK'
    <3>1. WorkersToRemove(ccRequired[c]) \in Int
      BY ActiveNodesType, ClusterAssumption
      DEF WorkersToRemove, ClusterAssumption
    <3> QED
      BY <2>1, <2>3, <3>1 DEF StartScaleDown, CCSteps
  <2> QED
    BY <1>2, <1>5, <2>2, <2>3 DEF HandleStablePhase, CCPhases
<1>6. CASE MarkSelecting(c)
  <2>1. faults' \in 0..MaxFaults
    BY <1>6, FaultTyped
    DEF MarkSelecting, UpdateSucceeds, UpdateFails, UpdateConflicts, CallFails
  <2> QED
    BY <1>6, <2>1
    DEF MarkSelecting, UpdateSucceeds, UpdateFails, UpdateConflicts,
        CallFails, Written, CCSteps, CCPhases, Absent
<1>7. CASE HandleSelectingPhase(c)
  BY <1>2, <1>4, <1>7 DEF HandleSelectingPhase, CCPhases
<1>8. CASE HandleSwitchingPhase(c)
  BY <1>2, <1>4, <1>8 DEF HandleSwitchingPhase, CCPhases
<1>9. CASE HandleCompletedPhase(c)
  BY <1>9 DEF HandleCompletedPhase, CCSteps
<1>10. CASE RetryOnConflict(c)
  <2>1. CASE CCUpdate(c, seenCC[c], Verdict(c), FALSE)
    <3>1. Verdict(c) = "Finished" \/ Verdict(c) = "Failed"
      BY DEF Verdict
    <3>2. \/ CCUpdate(c, seenCC[c], "Finished", FALSE)
          \/ CCUpdate(c, seenCC[c], "Failed", FALSE)
      BY <2>1, <3>1
      DEF CCUpdate, UpdateSucceeds, UpdateFails, UpdateConflicts, CallFails,
          Written
    <3> QED
      BY <1>2, <1>10, <3>2 DEF RetryOnConflict, CCPhases
  <2>2. CASE UNCHANGED <<ccPhase, ccStep, ccHeld, nsPhase, nsLabel, queueCC, faults>>
    BY <1>10, <2>2 DEF RetryOnConflict
  <2> QED
    BY <1>10, <2>1, <2>2 DEF RetryOnConflict, UpdateConflicts
<1> QED
  BY <1>1, <1>3, <1>5, <1>6, <1>7, <1>8, <1>9, <1>10 DEF CCHandle

\* The NodeSelecting controller keeps the types.
LEMMA NSTyped ==
  ASSUME TypeOK, NEW c \in Configs, NSDequeue(c) \/ NSReport(c)
  PROVE  TypeOK'
<1> USE DEF TypeOK, ccObject, nhObject, seenObjects, nodeVars, ccWork,
            NSKeeps, NSRequeue, NSDequeued
<1>1. ASSUME NEW held, NEW phase \in NSPhases,
             \/ UpdateSucceeds(nsPhase, c, held, phase)
             \/ UpdateFails(nsPhase, c, held, phase)
      PROVE  /\ faults' \in 0..MaxFaults
             /\ nsPhase' \in [Configs -> NSPhases]
  <2>1. faults' \in 0..MaxFaults
    BY <1>1, FaultTyped
    DEF UpdateSucceeds, UpdateFails, UpdateConflicts, CallFails
  <2> QED
    BY <1>1, <2>1
    DEF UpdateSucceeds, UpdateFails, UpdateConflicts, CallFails, Written
<1>2. CASE NSHandleInitialPhase(c)
  BY <1>1, <1>2 DEF NSHandleInitialPhase, NSPhases
<1>3. CASE NSNoAction(c)
  BY <1>3 DEF NSNoAction
<1>4. CASE NSHandleRunningPhase(c)
  <2>1. CASE NSSelectsNothing(c)
    BY <1>1, <1>4, <2>1 DEF NSHandleRunningPhase, NSSelectsNothing, NSPhases
  <2>2. ASSUME NEW n \in Nodes, NSCreatesNodeHandling(c, n) PROVE TypeOK'
    <3>1. faults' \in 0..MaxFaults
      BY <2>2, FaultTyped DEF NSCreatesNodeHandling
    <3>2. /\ nhPhase' \in [Configs -> NHPhases]
          /\ nhNode' \in [Configs -> Nodes \cup {NoNode}]
      BY <2>2
      DEF NSCreatesNodeHandling, NodeHandlingStored, Written, NHPhases
    <3>3. queueNS' \subseteq Configs /\ nsStep' \in [Configs -> NSSteps]
      BY <2>2 DEF NSCreatesNodeHandling, NSSteps
    <3>4. nsPhase' \in [Configs -> NSPhases]
      BY <2>2 DEF NSCreatesNodeHandling
    <3> QED
      BY <1>4, <3>1, <3>2, <3>3, <3>4 DEF NSHandleRunningPhase
  <2> QED
    BY <1>4, <2>1, <2>2 DEF NSHandleRunningPhase
<1>5. CASE NSReport(c)
  BY <1>1, <1>5 DEF NSReport, NSPhases, NSSteps
<1> QED
  BY <1>2, <1>3, <1>4, <1>5 DEF NSDequeue

\* The NodeHandling controller keeps the types.
LEMMA NHTyped ==
  ASSUME TypeOK, NEW c \in Configs, NHDequeue(c) \/ NHWork(c)
  PROVE  TypeOK'
<1> USE DEF TypeOK, ccObject, nsObject, seenObjects, nodeCache, ccWork,
            NHKeeps, NHGoto, NHRequeue
<1>1. ASSUME NEW held, NEW phase \in NHPhases,
             \/ UpdateSucceeds(nhPhase, c, held, phase)
             \/ UpdateFails(nhPhase, c, held, phase)
      PROVE  /\ faults' \in 0..MaxFaults
             /\ nhPhase' \in [Configs -> NHPhases]
  <2>1. faults' \in 0..MaxFaults
    BY <1>1, FaultTyped
    DEF UpdateSucceeds, UpdateFails, UpdateConflicts, CallFails
  <2> QED
    BY <1>1, <2>1
    DEF UpdateSucceeds, UpdateFails, UpdateConflicts, CallFails, Written
<1>2. CASE NHHandleInitialPhase(c)
  BY <1>1, <1>2 DEF NHHandleInitialPhase, NHPhases
<1>3. CASE NHNoAction(c)
  BY <1>3 DEF NHNoAction
<1>4. CASE NHHandleRunningPhase(c)
  <2>1. faults' \in 0..MaxFaults
    BY <1>4, FaultTyped DEF NHHandleRunningPhase
  <2>2. FirstStep(nsLabel[c]) \in NHSteps
    BY DEF FirstStep, NHSteps, ScaleUpSteps, ScaleDownSteps
  <2> QED
    BY <1>4, <2>1, <2>2 DEF NHHandleRunningPhase, NHSteps
<1>5. ASSUME NEW to \in NHSteps, NEW else \in NHSteps, NEW kind,
             Proceeds(c, to) \/ FailsBy(c, kind, else)
      PROVE  faults' \in 0..MaxFaults /\ nhStep' \in [Configs -> NHSteps]
  <2>1. faults' \in 0..MaxFaults
    BY <1>5, FaultTyped DEF Proceeds, FailsBy
  <2> QED
    BY <1>5, <2>1 DEF Proceeds, FailsBy
<1>7. CASE NHPowerOn(c)
  <2>1. power' \in [Nodes -> PowerStates]
    BY <1>7
    DEF NHPowerOn, PerformPowerCycleAction, PowerPost, AfterOn, PowerStates
  <2>2. faults' \in 0..MaxFaults /\ nhStep' \in [Configs -> NHSteps]
    BY <1>5, <1>7 DEF NHPowerOn, PerformPowerCycleAction, NHSteps, ScaleUpSteps
  <2> QED
    BY <1>7, <2>1, <2>2 DEF NHPowerOn, NHStep, PerformPowerCycleAction
<1>8. CASE NHPowerOff(c)
  <2>1. power' \in [Nodes -> PowerStates]
    BY <1>8
    DEF NHPowerOff, PerformPowerCycleAction, PowerPost, AfterOff, PowerStates
  <2>2. faults' \in 0..MaxFaults /\ nhStep' \in [Configs -> NHSteps]
    BY <1>5, <1>8 DEF NHPowerOff, PerformPowerCycleAction, NHSteps, ScaleDownSteps
  <2> QED
    BY <1>8, <2>1, <2>2 DEF NHPowerOff, NHStep, PerformPowerCycleAction
<1>9. ASSUME NEW value \in BOOLEAN, NEW to \in NHSteps, NEW else \in NHSteps,
             PatchNode(c, cordoned, value, to, else)
      PROVE  /\ cordoned' \in [Nodes -> BOOLEAN]
             /\ faults' \in 0..MaxFaults /\ nhStep' \in [Configs -> NHSteps]
  <2>1. faults' \in 0..MaxFaults /\ nhStep' \in [Configs -> NHSteps]
    BY <1>5, <1>9 DEF PatchNode
  <2> QED
    BY <1>9, <2>1 DEF PatchNode, Patch
<1>10. CASE NHUncordon(c)
  BY <1>5, <1>9, <1>10 DEF NHUncordon, NHStep, NHSteps, ScaleUpSteps
<1>11. CASE NHCordon(c)
  BY <1>5, <1>9, <1>11 DEF NHCordon, NHStep, NHSteps, ScaleDownSteps
<1>12. CASE NHAbort(c)
  BY <1>5, <1>9, <1>12 DEF NHAbort, NHStep, NHSteps, ScaleDownSteps
<1>13. CASE NHAnnotate(c)
  <2>1. nhNode[c] \in Nodes => NextCycle(nhNode[c]) \in Nat
    BY DEF NextCycle
  <2>2. cycles' \in [Nodes -> Nat]
    BY <1>13, <2>1 DEF NHAnnotate, PatchNode, Patch
  <2>3. faults' \in 0..MaxFaults /\ nhStep' \in [Configs -> NHSteps]
    BY <1>5, <1>13 DEF NHAnnotate, PatchNode, NHSteps
  <2> QED
    BY <1>13, <2>2, <2>3 DEF NHAnnotate, NHStep
<1>14. CASE NHAwaitReady(c) \/ NHDrain(c) \/ NHAwaitOff(c)
  <2>1. faults' \in 0..MaxFaults /\ nhStep' \in [Configs -> NHSteps]
    BY <1>5, <1>14
    DEF NHAwaitReady, NHDrain, NHAwaitOff, NHSteps, ScaleUpSteps,
        ScaleDownSteps
  <2> QED
    BY <1>14, <2>1 DEF NHAwaitReady, NHDrain, NHAwaitOff, NHStep
<1>15. CASE NHComplete(c)
  BY <1>1, <1>15 DEF NHComplete, NHPhases, NHSteps
<1>16. CASE NHFail(c)
  BY <1>1, <1>16 DEF NHFail, NHPhases, NHSteps
<1> QED
  BY <1>2, <1>3, <1>4, <1>7, <1>8, <1>10, <1>11, <1>12, <1>13, <1>14, <1>15,
     <1>16
  DEF NHDequeue, NHWork

\* Every step keeps the types.
LEMMA NextTyped ==
  ASSUME TypeOK, [Next]_vars
  PROVE  TypeOK'
<1>1. CASE Next
  BY <1>1, EnvironmentTyped, CCTyped, NSTyped, NHTyped DEF Next, Controllers
<1>2. CASE UNCHANGED vars
  BY <1>2
  DEF TypeOK, vars, ccObject, nsObject, nhObject, seenObjects, nodeVars,
      queues, ccWork, works
<1> QED
  BY <1>1, <1>2

(***************************************************************************)
(* Every variable keeps its type: no reconciler writes a phase outside its *)
(* kind's phases, or takes a step from a position it has not.              *)
(***************************************************************************)
THEOREM Typing == Spec => []TypeOK
<1>1. Init => TypeOK
  BY InitTyped
<1>2. TypeOK /\ [Next]_vars => TypeOK'
  BY NextTyped
<1> QED
  BY <1>1, <1>2, PTL DEF Spec

-----------------------------------------------------------------------------
(***************************************************************************)
(* The handover of a scaling step from one controller to the next: the     *)
(* invariant that makes SwitchingIsBacked inductive.  Read from the end, a *)
(* request is Switching because the cache showed a Completed selection,    *)
(* the cache never runs ahead of the stored phase, a selection is          *)
(* Completed only by the worker that stored the NodeHandling, and what is  *)
(* stored names a node.                                                    *)
(***************************************************************************)
StoredHandlingsNameANode ==
  \A c \in Configs : nhPhase[c] # Absent => nhNode[c] \in Nodes
ReportsFollowTheCreate ==
  \A c \in Configs : nsStep[c] = "report" => nhPhase[c] # Absent
CompletedSelectionsStored ==
  \A c \in Configs : nsPhase[c] = "Completed" => nhPhase[c] # Absent
CacheNotAhead ==
  \A c \in Configs : seenNS[c] = "Completed" => nsPhase[c] = "Completed"

Handover ==
  /\ StoredHandlingsNameANode /\ ReportsFollowTheCreate
  /\ CompletedSelectionsStored /\ CacheNotAhead
  /\ SwitchingIsBacked

Verdicts == {"Completed", "Failed"}

\* What a step may do to the objects that hand a scaling step over.
HandoverStep ==
  \A d \in Configs :
    /\ nsPhase[d] \in Verdicts => nsPhase'[d] = nsPhase[d]
    /\ nhPhase[d] \in Verdicts => nhPhase'[d] = nhPhase[d]
    /\ nhPhase[d] # Absent => nhPhase'[d] # Absent /\ nhNode'[d] = nhNode[d]
    /\ nhPhase'[d] # Absent => nhPhase[d] # Absent \/ nhNode'[d] \in Nodes
    /\ nsStep'[d] = "report" => nsStep[d] = "report" \/ nhPhase'[d] # Absent
    /\ nsPhase'[d] = "Completed" =>
         nsPhase[d] = "Completed" \/ nsStep[d] = "report"
    /\ seenNS'[d] = seenNS[d] \/ seenNS'[d] = nsPhase[d]
    /\ ccPhase'[d] = "Switching" =>
         ccPhase[d] = "Switching" \/ seenNS[d] = "Completed"

\* Informers, restarts and machines keep the handover.
LEMMA EnvironmentHandover ==
  ASSUME TypeOK, Environment
  PROVE  HandoverStep
<1> USE DEF TypeOK, HandoverStep, ccObject, nsObject, nhObject, seenObjects,
            ccWork, works
<1>1. ASSUME NEW c \in Configs, DeliverCC(c) \/ DeliverNS(c) \/ DeliverNH(c)
      PROVE  HandoverStep
  BY <1>1 DEF DeliverCC, DeliverNS, DeliverNH
<1>2. ASSUME NEW n \in Nodes, DeliverNode(n) \/ NodeBoots(n) \/ NodeStops(n)
      PROVE  HandoverStep
  BY <1>2 DEF DeliverNode, NodeBoots, NodeStops, PowerSettles
<1>3. ASSUME NEW c \in Configs, NEW required \in Requests,
             CreateClusterConfiguration(c, required)
      PROVE  HandoverStep
  BY <1>3 DEF CreateClusterConfiguration, Unset
<1>4. CASE Restart
  BY <1>4 DEF Restart
<1> QED
  BY <1>1, <1>2, <1>3, <1>4 DEF Environment

(***************************************************************************)
(* Of the objects of the others the ClusterConfiguration controller writes *)
(* only a NodeSelecting that does not exist.                               *)
(***************************************************************************)
LEMMA CCWritesSelection ==
  ASSUME NEW c \in Configs, CCDequeue(c) \/ CCHandle(c)
  PROVE  /\ UNCHANGED <<ccRequired, nhPhase, nhNode, seenCC, seenNS, seenNH,
                        power, cordoned, cycles, seenCordoned, seenCycles,
                        queueNS, queueNH, nsStep, nhStep>>
         /\ \/ UNCHANGED <<nsPhase, nsLabel>>
            \/ /\ HandleStablePhase(c)
               /\ nsPhase[c] = Absent
               /\ nsPhase' = [nsPhase EXCEPT ![c] = Unset]
               /\ \E label : nsLabel' = [nsLabel EXCEPT ![c] = label]
<1>1. UNCHANGED <<ccRequired, nhPhase, nhNode, seenCC, seenNS, seenNH,
                  power, cordoned, cycles, seenCordoned, seenCycles,
                  queueNS, queueNH, nsStep, nhStep>>
  BY DEF CCDequeue, CCHandle, HandleInitialPhase, HandleStablePhase,
         MarkSelecting, HandleSelectingPhase, HandleSwitchingPhase,
         HandleCompletedPhase, RetryOnConflict, CCKeeps, nhObject,
         seenObjects, nodeVars
<1>2. ASSUME NEW label,
             CreateNodeSelectingOk(c, label)
               \/ CreateNodeSelectingFails(c, label)
      PROVE  \/ UNCHANGED <<nsPhase, nsLabel>>
             \/ /\ nsPhase[c] = Absent
                /\ nsPhase' = [nsPhase EXCEPT ![c] = Unset]
                /\ nsLabel' = [nsLabel EXCEPT ![c] = label]
  BY <1>2 DEF CreateNodeSelectingOk, CreateNodeSelectingFails,
              NodeSelectingExists, NodeSelectingStored, Written, nsObject
<1>3. CASE HandleStablePhase(c)
  BY <1>1, <1>2, <1>3
  DEF HandleStablePhase, CCUpdate, StartScaleUp, StartScaleDown, nsObject
<1> QED
  BY <1>1, <1>3
  DEF CCDequeue, CCHandle, HandleInitialPhase, MarkSelecting,
      HandleSelectingPhase, HandleSwitchingPhase, HandleCompletedPhase,
      RetryOnConflict, CCUpdate, CCWait, nsObject

\* The ClusterConfiguration controller keeps the handover: it advances on what is stored.
LEMMA CCHandover ==
  ASSUME TypeOK, NEW c \in Configs, CCDequeue(c) \/ CCHandle(c)
  PROVE  HandoverStep
<1>1. UNCHANGED <<nhPhase, nhNode, seenNS, nsStep>>
  BY CCWritesSelection
<1>2. \/ nsPhase' = nsPhase
      \/ nsPhase[c] = Absent /\ nsPhase' = [nsPhase EXCEPT ![c] = Unset]
  BY CCWritesSelection
<1>3. ASSUME NEW held, NEW phase \in CCPhases, NEW polled \in BOOLEAN,
             CCUpdate(c, held, phase, polled),
             NEW d \in Configs, ccPhase'[d] = "Switching"
      PROVE  ccPhase[d] = "Switching" \/ (d = c /\ phase = "Switching")
  BY <1>3 DEF CCUpdate, UpdateSucceeds, UpdateFails, UpdateConflicts,
              CallFails, Written, TypeOK
<1>4. ASSUME NEW d \in Configs, ccPhase'[d] = "Switching"
      PROVE  ccPhase[d] = "Switching" \/ seenNS[d] = "Completed"
  <2> USE DEF TypeOK, CCPhases
  <2>1. CASE CCDequeue(c)
    BY <1>4, <2>1 DEF CCDequeue
  <2>2. CASE HandleInitialPhase(c)
    BY <1>3, <1>4, <2>2 DEF HandleInitialPhase
  <2>3. CASE HandleStablePhase(c)
    BY <1>3, <1>4, <2>3 DEF HandleStablePhase, StartScaleUp, StartScaleDown
  <2>4. CASE MarkSelecting(c)
    BY <1>4, <2>4 DEF MarkSelecting, UpdateSucceeds, UpdateFails,
                      UpdateConflicts, CallFails, Written
  <2>5. CASE HandleSelectingPhase(c)
    BY <1>3, <1>4, <2>5 DEF HandleSelectingPhase, SelectionDone, CCWait
  <2>6. CASE HandleSwitchingPhase(c)
    BY <1>3, <1>4, <2>6 DEF HandleSwitchingPhase, CCWait
  <2>7. CASE HandleCompletedPhase(c)
    BY <1>4, <2>7 DEF HandleCompletedPhase
  <2>8. CASE RetryOnConflict(c)
    <3>1. Verdict(c) # "Switching"
      BY DEF Verdict
    <3> QED
      BY <1>4, <2>8, <3>1
      DEF RetryOnConflict, CCUpdate, UpdateSucceeds, UpdateFails,
          UpdateConflicts, CallFails, Written
  <2> QED
    BY <2>1, <2>2, <2>3, <2>4, <2>5, <2>6, <2>7, <2>8 DEF CCHandle
<1> QED
  BY <1>1, <1>2, <1>4 DEF HandoverStep, Verdicts, TypeOK, Absent, Unset

\* The NodeSelecting controller reports only after it created the handling.
LEMMA NSHandover ==
  ASSUME TypeOK, NEW c \in Configs, NSDequeue(c) \/ NSReport(c)
  PROVE  HandoverStep
<1> USE DEF TypeOK
<1>1. UNCHANGED <<seenNS, ccPhase>>
  BY DEF NSDequeue, NSHandleInitialPhase, NSNoAction, NSHandleRunningPhase,
         NSReport, NSKeeps, seenObjects, ccObject
<1>2. ASSUME NEW held, NEW phase,
             \/ UpdateSucceeds(nsPhase, c, held, phase)
             \/ UpdateFails(nsPhase, c, held, phase)
      PROVE  \/ nsPhase' = nsPhase
             \/ nsPhase[c] = held /\ nsPhase' = [nsPhase EXCEPT ![c] = phase]
  BY <1>2 DEF UpdateSucceeds, UpdateFails, UpdateConflicts, CallFails, Written
<1>3. CASE NSHandleInitialPhase(c)
  <2>1. \/ nsPhase' = nsPhase
        \/ /\ nsPhase[c] = Unset
           /\ nsPhase' = [nsPhase EXCEPT ![c] = "Running"]
    BY <1>2, <1>3 DEF NSHandleInitialPhase
  <2> QED
    BY <1>1, <1>3, <2>1
    DEF NSHandleInitialPhase, HandoverStep, Verdicts, nhObject, Unset
<1>4. CASE NSNoAction(c)
  BY <1>1, <1>4 DEF NSNoAction, HandoverStep, nhObject
<1>5. CASE NSHandleRunningPhase(c)
  <2>1. CASE NSSelectsNothing(c)
    BY <1>1, <1>2, <2>1 DEF NSSelectsNothing, HandoverStep, Verdicts, nhObject
  <2>2. ASSUME NEW n \in Nodes, NSCreatesNodeHandling(c, n)
        PROVE  HandoverStep
    <3>1. CASE NodeHandlingStored(c, n) /\ nsStep' = [nsStep EXCEPT ![c] = "report"]
      BY <1>1, <2>2, <3>1
      DEF NSCreatesNodeHandling, NodeHandlingStored, Written, HandoverStep,
          Verdicts, Absent, Unset
    <3>2. CASE NodeHandlingStored(c, n) /\ nsStep' = nsStep
      BY <1>1, <2>2, <3>2
      DEF NSCreatesNodeHandling, NodeHandlingStored, Written, HandoverStep,
          Verdicts, Absent, Unset
    <3>3. CASE UNCHANGED <<nhObject, nsStep>>
      BY <1>1, <2>2, <3>3 DEF NSCreatesNodeHandling, HandoverStep, nhObject
    <3> QED
      BY <2>2, <3>1, <3>2, <3>3 DEF NSCreatesNodeHandling
  <2> QED
    BY <1>5, <2>1, <2>2 DEF NSHandleRunningPhase
<1>6. CASE NSReport(c)
  BY <1>1, <1>2, <1>6 DEF NSReport, HandoverStep, Verdicts, nhObject
<1> QED
  BY <1>3, <1>4, <1>5, <1>6 DEF NSDequeue

(***************************************************************************)
(* Of the objects the NodeHandling controller writes only the phase of a   *)
(* NodeHandling without verdict.                                           *)
(***************************************************************************)
LEMMA NHWritesHandling ==
  ASSUME NEW c \in Configs, NHDequeue(c) \/ NHWork(c)
  PROVE  /\ UNCHANGED <<ccPhase, ccRequired, nsPhase, nsLabel, nhNode, seenCC,
                        seenNS, seenNH, seenCordoned, seenCycles, queueCC,
                        queueNS, ccStep, ccHeld, nsStep>>
         /\ \/ nhPhase' = nhPhase
            \/ /\ nhPhase[c] \in {Unset, "Running"}
               /\ \E phase \in {"Running", "Completed", "Failed"} :
                    nhPhase' = [nhPhase EXCEPT ![c] = phase]
<1> USE DEF NHKeeps, ccObject, nsObject, seenObjects, nodeCache, ccWork
<1>1. UNCHANGED <<ccPhase, ccRequired, nsPhase, nsLabel, nhNode, seenCC,
                  seenNS, seenNH, seenCordoned, seenCycles, queueCC, queueNS,
                  ccStep, ccHeld, nsStep>>
  <2>1. CASE NHDequeue(c)
    BY <2>1 DEF NHDequeue, NHHandleInitialPhase, NHNoAction,
                NHHandleRunningPhase
  <2>2. CASE NHWork(c)
    BY <2>2 DEF NHWork, NHPowerOn, NHAwaitReady, NHUncordon, NHAnnotate,
                NHCordon, NHDrain, NHPowerOff, NHAwaitOff, NHAbort,
                NHComplete, NHFail, NHStep
  <2> QED
    BY <2>1, <2>2
<1>2. ASSUME NEW held, NEW phase,
             \/ UpdateSucceeds(nhPhase, c, held, phase)
             \/ UpdateFails(nhPhase, c, held, phase)
      PROVE  \/ nhPhase' = nhPhase
             \/ nhPhase[c] = held /\ nhPhase' = [nhPhase EXCEPT ![c] = phase]
  BY <1>2 DEF UpdateSucceeds, UpdateFails, UpdateConflicts, CallFails, Written
<1>3. CASE NHDequeue(c)
  BY <1>1, <1>2, <1>3
  DEF NHDequeue, NHHandleInitialPhase, NHNoAction, NHHandleRunningPhase
<1>4. CASE NHComplete(c) \/ NHFail(c)
  BY <1>1, <1>2, <1>4 DEF NHComplete, NHFail
<1>5. CASE ~NHDequeue(c) /\ ~NHComplete(c) /\ ~NHFail(c)
  BY <1>1, <1>5
  DEF NHWork, NHPowerOn, NHAwaitReady, NHUncordon, NHAnnotate, NHCordon,
      NHDrain, NHPowerOff, NHAwaitOff, NHAbort, NHStep
<1> QED
  BY <1>3, <1>4, <1>5

\* The NodeHandling controller leaves the handover alone.
LEMMA NHHandover ==
  ASSUME TypeOK, NEW c \in Configs, NHDequeue(c) \/ NHWork(c)
  PROVE  HandoverStep
  BY NHWritesHandling DEF HandoverStep, Verdicts, Absent, Unset, TypeOK

\* Every step keeps the handover.
LEMMA NextHandover ==
  ASSUME TypeOK, [Next]_vars
  PROVE  HandoverStep
<1>1. CASE Next
  BY <1>1, EnvironmentHandover, CCHandover, NSHandover, NHHandover
  DEF Next, Controllers
<1>2. CASE UNCHANGED vars
  BY <1>2
  DEF HandoverStep, vars, ccObject, nsObject, nhObject, seenObjects, works
<1> QED
  BY <1>1, <1>2

(***************************************************************************)
(* Whatever the caches lag and whichever calls fail, a request that is     *)
(* Switching has a Completed selection and a stored NodeHandling for one   *)
(* of the nodes.                                                           *)
(***************************************************************************)
THEOREM Handed == Spec => []SwitchingIsBacked
<1>1. Init => Handover
  BY DEF Init, Handover, StoredHandlingsNameANode, ReportsFollowTheCreate,
         CompletedSelectionsStored, CacheNotAhead, SwitchingIsBacked, Absent
<1>2. TypeOK /\ Handover /\ [Next]_vars => Handover'
  <2> SUFFICES ASSUME TypeOK, Handover, [Next]_vars
               PROVE  Handover'
    OBVIOUS
  <2>1. HandoverStep
    BY NextHandover
  <2>2. StoredHandlingsNameANode' /\ ReportsFollowTheCreate'
    BY <2>1 DEF HandoverStep, Handover, StoredHandlingsNameANode,
                ReportsFollowTheCreate
  <2>3. CompletedSelectionsStored' /\ CacheNotAhead'
    BY <2>1 DEF HandoverStep, Handover, ReportsFollowTheCreate,
                CompletedSelectionsStored, CacheNotAhead, Verdicts
  <2>4. SwitchingIsBacked'
    BY <2>1, <2>2, <2>3
    DEF HandoverStep, Handover, StoredHandlingsNameANode, CacheNotAhead,
        CompletedSelectionsStored, SwitchingIsBacked, Verdicts
  <2> QED
    BY <2>2, <2>3, <2>4 DEF Handover
<1>3. Handover => SwitchingIsBacked
  BY DEF Handover
<1> QED
  BY <1>1, <1>2, <1>3, Typing, PTL DEF Spec

(***************************************************************************)
(* No step changes the verdict of a selection or of a scaling step: every  *)
(* status update of a NodeSelecting or a NodeHandling is made from a       *)
(* version without verdict and conflicts with one that has it.             *)
(***************************************************************************)
THEOREM VerdictsFinal == Spec => VerdictsAreFinal
<1>1. TypeOK /\ [Next]_vars =>
        [\A c \in Configs :
           /\ nsPhase[c] \in {"Completed", "Failed"} =>
                nsPhase'[c] = nsPhase[c]
           /\ nhPhase[c] \in {"Completed", "Failed"} =>
                nhPhase'[c] = nhPhase[c]]_vars
  BY NextHandover DEF HandoverStep, Verdicts
<1> QED
  BY <1>1, Typing, PTL DEF Spec, VerdictsAreFinal
-----------------------------------------------------------------------------
(***************************************************************************)
(* The machines, whatever fails.  Objects come into being in order and     *)
(* are never deleted, so that no cache and no worker knows of one that is  *)
(* not stored; a worker acts in the direction of its label; and a machine  *)
(* is not as it was initially only if a stored NodeHandling names it.      *)
(***************************************************************************)
ObjectsInOrder ==
  \A c \in Configs :
    /\ nsPhase[c] = Absent => seenNS[c] = Absent /\ nhPhase[c] = Absent
    /\ nhPhase[c] = Absent => seenNH[c] = Absent /\ nhStep[c] = "idle"

StepsFollowLabels ==
  \A c \in Configs :
    /\ nhStep[c] \in ScaleUpSteps => nsLabel[c] > 0
    /\ nhStep[c] \in ScaleDownSteps => nsLabel[c] < 0

NamedToStop(n)  ==
  \E c \in Configs : nhPhase[c] # Absent /\ nhNode[c] = n /\ nsLabel[c] < 0
NamedToChange(n) == \E c \in Configs : nhPhase[c] # Absent /\ nhNode[c] = n

OthersSpared ==
  \A n \in Nodes :
    /\ n \in InitiallyOn /\ power[n] # "on" => NamedToStop(n)
    /\ n \notin InitiallyOn /\ power[n] # "off" => NamedToChange(n)

\* A scale-down is asked for when more than minNodes are on, which are those of the
\* start as long as no other request has named a machine.
ScaleDownsAllowed ==
  \A c \in Configs :
    nsPhase[c] # Absent /\ nsLabel[c] < 0 =>
      \/ Cardinality(InitiallyOn) > MinNodes
      \/ \E d \in Configs \ {c} : nhPhase[d] # Absent

SparedInv ==
  /\ ObjectsInOrder /\ StepsFollowLabels /\ OthersSpared /\ ScaleDownsAllowed

\* What a step may do to the objects a scaling step is made of.
OrderStep ==
  \A d \in Configs :
    /\ nsPhase[d] # Absent => nsPhase'[d] # Absent /\ nsLabel'[d] = nsLabel[d]
    /\ nsPhase'[d] = Absent => nsPhase[d] = Absent
    /\ seenNS'[d] = seenNS[d] \/ seenNS'[d] = nsPhase[d]
    /\ seenNH'[d] = seenNH[d] \/ seenNH'[d] = nhPhase[d]
    /\ nhPhase'[d] # Absent => nhPhase[d] # Absent \/ seenNS[d] = "Running"
    /\ nhPhase[d] # Absent => nhPhase'[d] # Absent /\ nhNode'[d] = nhNode[d]

\* Where a worker may go from a position.
WorkerStep ==
  \A d \in Configs :
    \/ nhStep'[d] \in {nhStep[d], "idle"}
    \/ nhStep[d] # "idle" /\ nhStep'[d] \in {"complete", "fail"}
    \/ nhStep[d] \in ScaleUpSteps /\ nhStep'[d] \in ScaleUpSteps
    \/ nhStep[d] \in ScaleDownSteps /\ nhStep'[d] \in ScaleDownSteps
    \/ /\ seenNH[d] = "Running"
       /\ \/ nhStep'[d] \in {"complete", "fail"}
          \/ nhStep'[d] = "powerOn" /\ nsLabel[d] > 0
          \/ nhStep'[d] = "cordon" /\ nsLabel[d] < 0

\* What may become of a machine.
MachineStep ==
  \A n \in Nodes :
    \/ power'[n] = power[n]
    \/ power[n] = "booting" /\ power'[n] = "on"
    \/ power[n] = "stopping" /\ power'[n] = "off"
    \/ /\ power[n] = "off" /\ power'[n] = "booting"
       /\ \E c \in Configs : nhNode[c] = n /\ nhStep[c] = "powerOn"
    \/ /\ power'[n] = "stopping"
       /\ \E c \in Configs : nhNode[c] = n /\ nhStep[c] = "powerOff"

\* A new selection has a label of the workers there are.
LabelStep ==
  \A d \in Configs :
    nsPhase[d] = Absent /\ nsPhase'[d] # Absent /\ nsLabel'[d] < 0 =>
      ActiveNodes > MinNodes /\ UNCHANGED nhPhase

\* The environment makes no object but requests, and only lets machines settle.
LEMMA EnvironmentSpares ==
  ASSUME TypeOK, Environment
  PROVE  OrderStep /\ WorkerStep /\ MachineStep /\ LabelStep
<1> USE DEF TypeOK, OrderStep, WorkerStep, MachineStep, LabelStep, nsObject,
            nhObject, seenObjects, nodeVars, works
<1>1. ASSUME NEW c \in Configs, DeliverCC(c) \/ DeliverNS(c) \/ DeliverNH(c)
      PROVE  OrderStep /\ WorkerStep /\ MachineStep /\ LabelStep
  BY <1>1 DEF DeliverCC, DeliverNS, DeliverNH
<1>2. ASSUME NEW n \in Nodes, DeliverNode(n) \/ NodeBoots(n) \/ NodeStops(n)
      PROVE  OrderStep /\ WorkerStep /\ MachineStep /\ LabelStep
  BY <1>2 DEF DeliverNode, NodeBoots, NodeStops, PowerSettles
<1>3. ASSUME NEW c \in Configs, NEW required \in Requests,
             CreateClusterConfiguration(c, required)
      PROVE  OrderStep /\ WorkerStep /\ MachineStep /\ LabelStep
  BY <1>3 DEF CreateClusterConfiguration
<1>4. CASE Restart
  BY <1>4 DEF Restart
<1> QED
  BY <1>1, <1>2, <1>3, <1>4 DEF Environment

\* A scale-down is created within the bounds, also when its answer is lost.
LEMMA ScaleDownWithinBounds ==
  ASSUME TypeOK, NEW c \in Configs, HandleStablePhase(c), nsPhase[c] = Absent,
         nsPhase' = [nsPhase EXCEPT ![c] = Unset], nsLabel'[c] < 0
  PROVE  ActiveNodes > MinNodes
<1> USE DEF TypeOK
<1> DEFINE required == ccRequired[c]
<1>1. UNCHANGED nsPhase => FALSE
  BY DEF Absent, Unset
<1>2. ASSUME NEW label,
             CreateNodeSelectingOk(c, label) \/ CreateNodeSelectingFails(c, label)
      PROVE  nsLabel' = [nsLabel EXCEPT ![c] = label]
  BY <1>1, <1>2 DEF CreateNodeSelectingOk, CreateNodeSelectingFails,
                    NodeSelectingStored, nsObject
<1>3. ASSUME ActiveNodes < required, ~OutOfBounds(required), StartScaleUp(c)
      PROVE  FALSE
  <2>1. WorkersToAddUp(required) > 0 /\ WorkersToAddUp(required) \in Int
    BY <1>3, ActiveNodesType, ClusterAssumption
    DEF WorkersToAddUp, OutOfBounds, ClusterAssumption
  <2>2. nsLabel'[c] = WorkersToAddUp(required)
    BY <1>2, <1>3 DEF StartScaleUp
  <2> QED
    BY <2>1, <2>2
<1>4. ActiveNodes > required /\ ~OutOfBounds(required)
  BY <1>1, <1>3 DEF HandleStablePhase, CCUpdate, nsObject
<1> QED
  BY <1>4, ActiveNodesType, ClusterAssumption DEF OutOfBounds, ClusterAssumption

\* The ClusterConfiguration controller makes selections and moves no machine.
LEMMA CCSpares ==
  ASSUME TypeOK, NEW c \in Configs, CCDequeue(c) \/ CCHandle(c)
  PROVE  OrderStep /\ WorkerStep /\ MachineStep /\ LabelStep
<1> USE DEF TypeOK
<1>1. UNCHANGED <<nhPhase, nhNode, seenNS, seenNH, nhStep, power>>
  BY CCWritesSelection
<1>2. \/ UNCHANGED <<nsPhase, nsLabel>>
      \/ /\ HandleStablePhase(c) /\ nsPhase[c] = Absent
         /\ nsPhase' = [nsPhase EXCEPT ![c] = Unset]
         /\ \E label : nsLabel' = [nsLabel EXCEPT ![c] = label]
  BY CCWritesSelection
<1>3. OrderStep
  BY <1>1, <1>2 DEF OrderStep, Absent, Unset
<1>4. LabelStep
  BY <1>1, <1>2, ScaleDownWithinBounds DEF LabelStep
<1> QED
  BY <1>1, <1>3, <1>4 DEF WorkerStep, MachineStep

\* The NodeSelecting controller makes a NodeHandling of a selection it has seen.
LEMMA NSSpares ==
  ASSUME TypeOK, NEW c \in Configs, NSDequeue(c) \/ NSReport(c)
  PROVE  OrderStep /\ WorkerStep /\ MachineStep /\ LabelStep
<1> USE DEF TypeOK
<1>1. UNCHANGED <<nsLabel, seenNS, seenNH, nhStep, power>>
  BY DEF NSDequeue, NSReport, NSHandleInitialPhase, NSNoAction,
         NSHandleRunningPhase, NSKeeps, seenObjects, nodeVars
<1>2. ASSUME NEW held \in {Unset, "Running"},
             NEW phase \in {"Running", "Completed", "Failed"},
             \/ UpdateSucceeds(nsPhase, c, held, phase)
             \/ UpdateFails(nsPhase, c, held, phase)
      PROVE  \A d \in Configs : nsPhase'[d] = Absent <=> nsPhase[d] = Absent
  BY <1>2 DEF UpdateSucceeds, UpdateFails, UpdateConflicts, CallFails, Written,
              Absent, Unset
<1>3. /\ \A d \in Configs : nsPhase'[d] = Absent <=> nsPhase[d] = Absent
      /\ \/ UNCHANGED nhObject
         \/ seenNS[c] = "Running" /\ \E n \in Nodes : NodeHandlingStored(c, n)
  <2>1. CASE NSHandleInitialPhase(c)
    BY <1>2, <2>1 DEF NSHandleInitialPhase
  <2>2. CASE NSNoAction(c)
    BY <2>2 DEF NSNoAction
  <2>3. CASE NSHandleRunningPhase(c)
    BY <1>2, <2>3 DEF NSHandleRunningPhase, NSSelectsNothing,
                      NSCreatesNodeHandling
  <2>4. CASE NSReport(c)
    BY <1>2, <2>4 DEF NSReport
  <2> QED
    BY <2>1, <2>2, <2>3, <2>4 DEF NSDequeue
<1>4. OrderStep
  BY <1>1, <1>3 DEF OrderStep, NodeHandlingStored, Written, nhObject, Absent,
                    Unset
<1> QED
  BY <1>1, <1>3, <1>4 DEF WorkerStep, MachineStep, LabelStep

\* The NodeHandling controller moves the machine its NodeHandling names.
LEMMA NHSpares ==
  ASSUME TypeOK, NEW c \in Configs, NHDequeue(c) \/ NHWork(c)
  PROVE  OrderStep /\ WorkerStep /\ MachineStep /\ LabelStep
<1> USE DEF TypeOK
<1>1. OrderStep /\ LabelStep
  BY NHWritesHandling DEF OrderStep, LabelStep, Absent, Unset
<1>2. ASSUME NEW to, nhStep' = [nhStep EXCEPT ![c] = to],
             \/ to \in {nhStep[c], "idle"}
             \/ nhStep[c] # "idle" /\ to \in {"complete", "fail"}
             \/ nhStep[c] \in ScaleUpSteps /\ to \in ScaleUpSteps
             \/ nhStep[c] \in ScaleDownSteps /\ to \in ScaleDownSteps
             \/ /\ seenNH[c] = "Running"
                /\ to \in {"fail", FirstStep(nsLabel[c])}
      PROVE  WorkerStep
  <2>1. /\ FirstStep(nsLabel[c]) \in {"powerOn", "cordon", "complete"}
        /\ FirstStep(nsLabel[c]) = "powerOn" => nsLabel[c] > 0
        /\ FirstStep(nsLabel[c]) = "cordon" => nsLabel[c] < 0
    BY DEF FirstStep
  <2> QED
    BY <1>2, <2>1 DEF WorkerStep
<1>3. UNCHANGED nhStep => WorkerStep
  BY DEF WorkerStep
<1>4. UNCHANGED power => MachineStep
  BY DEF MachineStep
<1>5. CASE NHDequeue(c)
  BY <1>1, <1>2, <1>3, <1>4, <1>5
  DEF NHDequeue, NHHandleInitialPhase, NHNoAction, NHHandleRunningPhase, NHGoto
<1>6. CASE NHPowerOn(c)
  <2>1. MachineStep
    BY <1>4, <1>6 DEF NHPowerOn, NHStep, PerformPowerCycleAction, PowerPost,
                      AfterOn, PowerStates, MachineStep
  <2> QED
    BY <1>1, <1>2, <1>6, <2>1
    DEF NHPowerOn, NHStep, PerformPowerCycleAction, Proceeds, FailsBy, NHGoto,
        ScaleUpSteps
<1>7. CASE NHPowerOff(c)
  <2>1. MachineStep
    BY <1>4, <1>7 DEF NHPowerOff, NHStep, PerformPowerCycleAction, PowerPost,
                      AfterOff, PowerStates, MachineStep
  <2> QED
    BY <1>1, <1>2, <1>7, <2>1
    DEF NHPowerOff, NHStep, PerformPowerCycleAction, Proceeds, FailsBy, NHGoto,
        ScaleDownSteps
<1>8. CASE NHAwaitReady(c) \/ NHUncordon(c) \/ NHAnnotate(c)
  BY <1>1, <1>2, <1>4, <1>8
  DEF NHAwaitReady, NHUncordon, NHAnnotate, NHStep, PatchNode, Proceeds,
      FailsBy, NHGoto, ScaleUpSteps
<1>9. CASE NHCordon(c) \/ NHDrain(c) \/ NHAwaitOff(c) \/ NHAbort(c)
  BY <1>1, <1>2, <1>4, <1>9
  DEF NHCordon, NHDrain, NHAwaitOff, NHAbort, NHStep, PatchNode, Proceeds,
      FailsBy, NHGoto, ScaleDownSteps
<1>10. CASE NHComplete(c) \/ NHFail(c)
  BY <1>1, <1>2, <1>4, <1>10 DEF NHComplete, NHFail, NHGoto
<1> QED
  BY <1>5, <1>6, <1>7, <1>8, <1>9, <1>10 DEF NHWork

\* Every step spares the machines that no NodeHandling names.
LEMMA NextSpares ==
  ASSUME TypeOK, [Next]_vars
  PROVE  OrderStep /\ WorkerStep /\ MachineStep /\ LabelStep
<1>1. CASE Next
  BY <1>1, EnvironmentSpares, CCSpares, NSSpares, NHSpares DEF Next, Controllers
<1>2. CASE UNCHANGED vars
  BY <1>2 DEF OrderStep, WorkerStep, MachineStep, LabelStep, vars, nsObject,
              nhObject, seenObjects, nodeVars, works
<1> QED
  BY <1>1, <1>2

\* The parts of the invariant, one by one.
LEMMA SparedKept ==
  ASSUME TypeOK, SparedInv, [Next]_vars
  PROVE  SparedInv'
<1> USE DEF SparedInv
<1>0. OrderStep /\ WorkerStep /\ MachineStep /\ LabelStep
  BY NextSpares
<1>1. \A c \in Configs :
        nhPhase[c] # Absent => /\ nhPhase'[c] # Absent /\ nhNode'[c] = nhNode[c]
                               /\ nsLabel'[c] = nsLabel[c]
  BY <1>0 DEF OrderStep, ObjectsInOrder
<1>2. \A c \in Configs : nhStep[c] # "idle" => nhPhase[c] # Absent
  BY DEF ObjectsInOrder
<1>3. ObjectsInOrder'
  BY <1>0 DEF ObjectsInOrder, OrderStep, WorkerStep, ScaleUpSteps,
              ScaleDownSteps, Absent
<1>4. StepsFollowLabels'
  <2> SUFFICES ASSUME NEW c \in Configs
               PROVE  /\ nhStep'[c] \in ScaleUpSteps => nsLabel'[c] > 0
                      /\ nhStep'[c] \in ScaleDownSteps => nsLabel'[c] < 0
    BY DEF StepsFollowLabels
  <2>1. nhStep'[c] \in {"idle", "complete", "fail"} \/ nhPhase[c] # Absent
    BY <1>0, <1>2 DEF WorkerStep, ObjectsInOrder, ScaleUpSteps, ScaleDownSteps,
                      Absent
  <2> QED
    BY <1>0, <1>1, <2>1 DEF WorkerStep, StepsFollowLabels, ScaleUpSteps,
                            ScaleDownSteps
<1>5. OthersSpared'
  <2> SUFFICES ASSUME NEW n \in Nodes
               PROVE  /\ n \in InitiallyOn /\ power'[n] # "on" => NamedToStop(n)'
                      /\ n \notin InitiallyOn /\ power'[n] # "off" =>
                           NamedToChange(n)'
    BY DEF OthersSpared
  <2>1. /\ NamedToStop(n) => NamedToStop(n)'
        /\ NamedToChange(n) => NamedToChange(n)'
        /\ NamedToStop(n) => NamedToChange(n)
    BY <1>1 DEF NamedToStop, NamedToChange
  <2>2. ASSUME NEW c \in Configs, nhNode[c] = n, nhStep[c] = "powerOn"
        PROVE  NamedToChange(n)
    BY <1>2, <2>2 DEF NamedToChange
  <2>3. ASSUME NEW c \in Configs, nhNode[c] = n, nhStep[c] = "powerOff"
        PROVE  NamedToStop(n)
    BY <1>2, <2>3 DEF NamedToStop, StepsFollowLabels, ScaleDownSteps
  <2> QED
    BY <1>0, <2>1, <2>2, <2>3 DEF MachineStep, OthersSpared
<1>6. ScaleDownsAllowed'
  <2> SUFFICES ASSUME NEW c \in Configs, nsPhase'[c] # Absent, nsLabel'[c] < 0,
                      ~\E d \in Configs \ {c} : nhPhase'[d] # Absent
               PROVE  Cardinality(InitiallyOn) > MinNodes
    BY DEF ScaleDownsAllowed
  <2>1. \A d \in Configs \ {c} : nhPhase[d] = Absent
    BY <1>1
  <2>2. CASE nsPhase[c] # Absent
    BY <1>0, <2>1, <2>2 DEF OrderStep, ScaleDownsAllowed
  <2>3. CASE nsPhase[c] = Absent
    <3>1. ActiveNodes > MinNodes
      BY <1>0, <2>3 DEF LabelStep
    <3>2. \A d \in Configs : nhPhase[d] = Absent
      BY <2>1, <2>3 DEF ObjectsInOrder
    <3>3. \A n \in Nodes : Ready(n) <=> n \in InitiallyOn
      BY <3>2 DEF OthersSpared, NamedToStop, NamedToChange, Ready
    <3>4. {n \in Nodes : Ready(n)} = InitiallyOn
      BY <3>3, ClusterAssumption DEF ClusterAssumption
    <3> QED
      BY <3>1, <3>4 DEF ActiveNodes
  <2> QED
    BY <2>2, <2>3
<1> QED
  BY <1>3, <1>4, <1>5, <1>6

\* The invariant holds whatever fails.
LEMMA SparedAlways == Spec => []SparedInv
<1>1. Init => SparedInv
  BY DEF Init, SparedInv, ObjectsInOrder, StepsFollowLabels, OthersSpared,
         ScaleDownsAllowed, ScaleUpSteps, ScaleDownSteps
<1>2. TypeOK /\ SparedInv /\ [Next]_vars => SparedInv'
  BY SparedKept
<1> QED
  BY <1>1, <1>2, Typing, PTL DEF Spec

(***************************************************************************)
(* Whatever fails and however often a step is repeated, a request takes at *)
(* most one machine out of the pool, namely the one its NodeHandling       *)
(* names: the number of scale-downs with a NodeHandling bounds what the    *)
(* machines that are on fall behind those of the start.                    *)
(***************************************************************************)
ScaleDowns == {c \in Configs : nhPhase[c] # Absent /\ nsLabel[c] < 0}

THEOREM OneMachineEach ==
  Spec => [](Cardinality(InitiallyOn)
               =< Cardinality(InState("on")) + Cardinality(ScaleDowns))
<1>1. ASSUME SparedInv
      PROVE  Cardinality(InitiallyOn)
               =< Cardinality(InState("on")) + Cardinality(ScaleDowns)
  <2> DEFINE Named == [c \in ScaleDowns |-> nhNode[c]]
             Chosen == {nhNode[c] : c \in ScaleDowns}
             On == InState("on")
  <2>1. /\ IsFiniteSet(ScaleDowns) /\ IsFiniteSet(On)
        /\ Cardinality(ScaleDowns) \in Nat /\ Cardinality(On) \in Nat
    BY FS_Subset, FS_CardinalityType, ClusterAssumption
    DEF ClusterAssumption, ScaleDowns, InState
  <2>2. Named \in Surjection(ScaleDowns, Chosen)
    BY DEF Surjection
  <2>3. IsFiniteSet(Chosen) /\ Cardinality(Chosen) =< Cardinality(ScaleDowns)
    <3> HIDE DEF Named, Chosen
    <3> QED
      BY <2>1, <2>2, FS_Surjection
  <2>4. InitiallyOn \subseteq Chosen \cup On
    BY <1>1, ClusterAssumption
    DEF ClusterAssumption, SparedInv, OthersSpared, NamedToStop, ScaleDowns,
        InState
  <2> HIDE DEF Named, Chosen, On
  <2>5. /\ IsFiniteSet(Chosen \cup On) /\ IsFiniteSet(Chosen \cap On)
        /\ Cardinality(Chosen \cup On)
             = Cardinality(Chosen) + Cardinality(On) - Cardinality(Chosen \cap On)
    BY <2>1, <2>3, FS_Union, FS_Subset
  <2>6. Cardinality(InitiallyOn) =< Cardinality(Chosen \cup On)
    BY <2>4, <2>5, FS_Subset
  <2>7. /\ Cardinality(InitiallyOn) \in Nat /\ Cardinality(Chosen) \in Nat
        /\ Cardinality(Chosen \cap On) \in Nat
    BY <2>3, <2>4, <2>5, FS_Subset, FS_CardinalityType
  <2>8. Cardinality(InitiallyOn) =< Cardinality(On) + Cardinality(ScaleDowns)
    BY <2>1, <2>3, <2>5, <2>6, <2>7
  <2> QED
    BY <2>8 DEF On
<1> QED
  BY <1>1, SparedAlways, PTL

(***************************************************************************)
(* Whatever fails, it takes the NodeHandlings of two requests to go below  *)
(* minNodes: the first scale-down was asked for when more than minNodes    *)
(* machines were on, and none but its own goes.                            *)
(***************************************************************************)
LoneHandling ==
  \A c, d \in Configs : nhPhase[c] # Absent /\ nhPhase[d] # Absent => c = d

THEOREM LoneHandlingSafe == Spec => [](LoneHandling => NeverBelowMinimum)
<1>1. ASSUME SparedInv, LoneHandling
      PROVE  NeverBelowMinimum
  <2> DEFINE On == InState("on")
  <2>1. /\ IsFiniteSet(On) /\ IsFiniteSet(InitiallyOn)
        /\ Cardinality(On) \in Nat /\ Cardinality(InitiallyOn) \in Nat
        /\ MinNodes \in Nat /\ MinNodes =< Cardinality(InitiallyOn)
    BY FS_Subset, FS_CardinalityType, ClusterAssumption
    DEF ClusterAssumption, InState
  <2>2. Cardinality(On) >= MinNodes
    <3>1. CASE InitiallyOn \subseteq On
      <4> HIDE DEF On
      <4> QED
        BY <2>1, <3>1, FS_Subset
    <3>2. CASE ~(InitiallyOn \subseteq On)
      <4>1. PICK n \in InitiallyOn : n \in Nodes /\ n \notin On
        BY <3>2, ClusterAssumption DEF ClusterAssumption
      <4>2. PICK c \in Configs :
              nhPhase[c] # Absent /\ nhNode[c] = n /\ nsLabel[c] < 0
        BY <1>1, <4>1 DEF SparedInv, OthersSpared, NamedToStop, InState
      <4>3. Cardinality(InitiallyOn) > MinNodes
        BY <1>1, <4>2 DEF SparedInv, ScaleDownsAllowed, ObjectsInOrder,
                          LoneHandling
      <4>4. InitiallyOn \ {n} \subseteq On
        BY <1>1, <4>2, ClusterAssumption
        DEF ClusterAssumption, SparedInv, OthersSpared, NamedToStop, InState,
            LoneHandling
      <4> HIDE DEF On
      <4>5. Cardinality(InitiallyOn \ {n}) = Cardinality(InitiallyOn) - 1
        BY <2>1, FS_RemoveElement
      <4>6. Cardinality(InitiallyOn \ {n}) =< Cardinality(On)
        BY <2>1, <4>4, FS_Subset
      <4> QED
        BY <2>1, <4>3, <4>5, <4>6
    <3> QED
      BY <3>1, <3>2
  <2> QED
    BY <2>2 DEF NeverBelowMinimum, InState
<1> QED
  BY <1>1, SparedAlways, PTL

-----------------------------------------------------------------------------
(***************************************************************************)
(* Up to the first fault, for every set of requests and nodes, every bound *)
(* and every number of requests.                                           *)
(*                                                                         *)
(* Every invariant of this part is stated under faults = 0.  A fault is    *)
(* counted for ever, so a step that ends without one started without one   *)
(* and is the faultless outcome of its action.                             *)
(***************************************************************************)

(***************************************************************************)
(* What each action does to the count of faults.                           *)
(***************************************************************************)
FaultsCounted == UNCHANGED faults \/ \E kind : Fault(kind)

\* The count of faults never decreases, so that no fault at the end is none before.
LEMMA NextCountsFaults ==
  ASSUME Next
  PROVE  FaultsCounted
<1> USE DEF FaultsCounted
<1>1. CASE Environment
  BY <1>1 DEF Environment, DeliverCC, DeliverNS, DeliverNH, DeliverNode,
    NodeBoots, NodeStops, PowerSettles, CreateClusterConfiguration, Restart
<1>2. ASSUME NEW c \in Configs, CCDequeue(c) \/ CCHandle(c)
      PROVE  FaultsCounted
  <2>1. ASSUME NEW held, NEW phase, NEW polled,
               CCUpdate(c, held, phase, polled) \/ CCWait(c)
        PROVE  FaultsCounted
    BY <2>1 DEF CCUpdate, CCWait, UpdateSucceeds, UpdateFails,
                UpdateConflicts, CallFails
  <2>2. CASE CCDequeue(c) \/ HandleCompletedPhase(c)
    BY <2>2 DEF CCDequeue, HandleCompletedPhase
  <2>3. CASE HandleInitialPhase(c)
    BY <2>1, <2>3 DEF HandleInitialPhase
  <2>4. CASE HandleStablePhase(c)
    BY <2>1, <2>4 DEF HandleStablePhase, StartScaleUp, StartScaleDown,
                      CreateNodeSelectingOk, CreateNodeSelectingFails
  <2>5. CASE MarkSelecting(c)
    BY <2>5 DEF MarkSelecting, UpdateSucceeds, UpdateFails, UpdateConflicts,
                CallFails
  <2>6. CASE HandleSelectingPhase(c)
    BY <2>1, <2>6 DEF HandleSelectingPhase
  <2>7. CASE HandleSwitchingPhase(c)
    BY <2>1, <2>7 DEF HandleSwitchingPhase
  <2>8. CASE RetryOnConflict(c)
    BY <2>8 DEF RetryOnConflict, CCUpdate, UpdateSucceeds, UpdateFails,
                UpdateConflicts, CallFails
  <2> QED
    BY <1>2, <2>2, <2>3, <2>4, <2>5, <2>6, <2>7, <2>8 DEF CCHandle
<1>3. ASSUME NEW c \in Configs, NSDequeue(c) \/ NSReport(c)
      PROVE  FaultsCounted
  BY <1>3 DEF NSDequeue, NSReport, NSHandleInitialPhase, NSNoAction,
    NSHandleRunningPhase, NSSelectsNothing, NSCreatesNodeHandling,
    UpdateSucceeds, UpdateFails, UpdateConflicts, CallFails
<1>4. ASSUME NEW c \in Configs, NHDequeue(c) \/ NHWork(c)
      PROVE  FaultsCounted
  <2>1. CASE NHDequeue(c)
    BY <2>1 DEF NHDequeue, NHHandleInitialPhase, NHNoAction,
      NHHandleRunningPhase, UpdateSucceeds, UpdateFails, UpdateConflicts,
      CallFails
  <2>2. CASE NHWork(c)
    BY <2>2 DEF NHWork, NHPowerOn, NHAwaitReady, NHUncordon, NHAnnotate,
      NHCordon, NHDrain, NHPowerOff, NHAwaitOff, NHAbort, NHComplete, NHFail,
      PerformPowerCycleAction, PatchNode, Proceeds, FailsBy, UpdateSucceeds,
      UpdateFails, UpdateConflicts, CallFails
  <2> QED
    BY <1>4, <2>1, <2>2
<1> QED
  BY <1>1, <1>2, <1>3, <1>4 DEF Next, Controllers

(***************************************************************************)
(* A step that ends without a fault started without one and had none.      *)
(***************************************************************************)
LEMMA NoFaultSoFar ==
  ASSUME TypeOK, [Next]_vars, faults' = 0
  PROVE  faults = 0 /\ \A kind : ~Fault(kind)
<1>1. FaultsCounted
  BY NextCountsFaults DEF FaultsCounted, vars
<1>2. faults \in Nat
  BY ClusterAssumption DEF TypeOK, ClusterAssumption
<1> QED
  BY <1>1, <1>2 DEF FaultsCounted, Fault

-----------------------------------------------------------------------------
(***************************************************************************)
(* Selections.  Nothing is queued again behind a selection's back, so a    *)
(* key in the queue means that the cache is up to date, and a NodeHandling *)
(* exists from the moment the worker is about to report its creation.      *)
(***************************************************************************)
SelectionInStep(c) ==
  /\ c \in queueNS => seenNS[c] = nsPhase[c] /\ nsPhase[c] # Absent
  /\ nsStep[c] = "report" =>
       /\ c \notin queueNS
       /\ seenNS[c] = "Running" /\ nsPhase[c] = "Running"
       /\ nhPhase[c] # Absent
  /\ nhPhase[c] # Absent => nsStep[c] = "report" \/ nsPhase[c] = "Completed"
  /\ seenNS[c] \in Verdicts => seenNS[c] = nsPhase[c]
  /\ nsPhase[c] = Absent => seenNS[c] = Absent

SelectionsInStep == \A c \in Configs : SelectionInStep(c)

\* Until a fault happens, every step keeps selections in step with their worker.
LEMMA SelectionsKept ==
  ASSUME TypeOK, SelectionsInStep, [Next]_vars, faults' = 0
  PROVE  SelectionsInStep'
<1> USE DEF TypeOK, SelectionsInStep, SelectionInStep, Verdicts, Absent, Unset
<1>0. faults = 0 /\ \A kind : ~Fault(kind)
  BY NoFaultSoFar
<1>1. CASE /\ UNCHANGED <<queueNS, seenNS, nsPhase, nsStep>>
           /\ \A c \in Configs : nhPhase'[c] = Absent <=> nhPhase[c] = Absent
  BY <1>1
<1>2. CASE Environment
  <2>1. ASSUME NEW c \in Configs, DeliverNS(c) PROVE SelectionsInStep'
    BY <2>1 DEF DeliverNS, nsObject, nhObject, works
  <2>2. CASE Restart
    BY <1>0, <2>2 DEF Restart
  <2>3. CASE ~Restart /\ \A c \in Configs : ~DeliverNS(c)
    BY <1>1, <1>2, <2>3
    DEF Environment, DeliverCC, DeliverNH, DeliverNode, NodeBoots, NodeStops,
        PowerSettles, CreateClusterConfiguration, nsObject, nhObject,
        seenObjects, queues, works
  <2> QED
    BY <2>1, <2>2, <2>3
<1>3. ASSUME NEW c \in Configs, CCDequeue(c) \/ CCHandle(c)
      PROVE  SelectionsInStep'
  <2>1. UNCHANGED <<queueNS, seenNS, nsStep, nhPhase>>
    BY <1>3
    DEF CCDequeue, CCHandle, HandleInitialPhase, HandleStablePhase,
        MarkSelecting, HandleSelectingPhase, HandleSwitchingPhase,
        HandleCompletedPhase, RetryOnConflict, CCKeeps, nhObject, seenObjects
  <2>2. \/ nsPhase' = nsPhase
        \/ nsPhase[c] = Absent /\ nsPhase' = [nsPhase EXCEPT ![c] = Unset]
    BY <1>3, CCWritesSelection
  <2> QED
    BY <2>1, <2>2
<1>4. ASSUME NEW c \in Configs, NSDequeue(c) \/ NSReport(c)
      PROVE  SelectionsInStep'
  <2> USE DEF NSKeeps, NSDequeued, NSRequeue, seenObjects, nhObject
  <2>1. CASE NSHandleInitialPhase(c)
    BY <1>0, <2>1
    DEF NSHandleInitialPhase, UpdateSucceeds, UpdateFails, UpdateConflicts,
        CallFails, Written, NSIdle
  <2>2. CASE NSNoAction(c)
    BY <2>2 DEF NSNoAction
  <2>3. CASE NSHandleRunningPhase(c)
    <3>1. CASE NSSelectsNothing(c)
      BY <1>0, <2>3, <3>1
      DEF NSHandleRunningPhase, NSSelectsNothing, NSIdle, UpdateSucceeds,
          UpdateFails, UpdateConflicts, CallFails, Written
    <3>2. ASSUME NEW n \in Nodes, NSCreatesNodeHandling(c, n)
          PROVE  SelectionsInStep'
      <4>1. CASE UNCHANGED <<nhPhase, queueNS, nsStep>>
        BY <1>1, <2>3, <3>2, <4>1
        DEF NSHandleRunningPhase, NSCreatesNodeHandling
      <4>2. CASE /\ NodeHandlingStored(c, n) /\ NSDequeued(c)
                 /\ nsStep' = [nsStep EXCEPT ![c] = "report"]
        BY <2>3, <3>2, <4>2
        DEF NSHandleRunningPhase, NSCreatesNodeHandling, NodeHandlingStored,
            Written
      <4> QED
        BY <1>0, <3>2, <4>1, <4>2 DEF NSCreatesNodeHandling
    <3> QED
      BY <2>3, <3>1, <3>2 DEF NSHandleRunningPhase
  <2>4. CASE NSReport(c)
    BY <1>0, <2>4
    DEF NSReport, UpdateSucceeds, UpdateFails, UpdateConflicts, CallFails,
        Written
  <2> QED
    BY <1>4, <2>1, <2>2, <2>3, <2>4 DEF NSDequeue
<1>5. ASSUME NEW c \in Configs, NHDequeue(c) \/ NHWork(c)
      PROVE  SelectionsInStep'
  <2>1. UNCHANGED <<queueNS, seenNS, nsPhase, nsStep>>
    BY <1>5, NHWritesHandling
  <2>2. \A d \in Configs : nhPhase'[d] = Absent <=> nhPhase[d] = Absent
    BY <1>5, NHWritesHandling
  <2> QED
    BY <1>1, <2>1, <2>2
<1>6. CASE UNCHANGED vars
  BY <1>1, <1>6 DEF vars, nsObject, nhObject, seenObjects, queues, works
<1> QED
  BY <1>2, <1>3, <1>4, <1>5, <1>6 DEF Next, Controllers
(***************************************************************************)
(* A selection that reports that it found no node has started no scaling   *)
(* step, until a fault happens: the worker that stored a NodeHandling      *)
(* reports its selection Completed before it looks at the key again.       *)
(***************************************************************************)
THEOREM NothingStarted ==
  Spec => [](faults = 0 => FailedSelectionStartedNothing)
<1> DEFINE Inv == faults = 0 => SelectionsInStep
<1>1. Init => Inv
  BY DEF Init, SelectionsInStep, SelectionInStep, Verdicts, Absent
<1>2. TypeOK /\ Inv /\ [Next]_vars => Inv'
  BY NoFaultSoFar, SelectionsKept
<1>3. Inv => (faults = 0 => FailedSelectionStartedNothing)
  BY DEF SelectionsInStep, SelectionInStep, FailedSelectionStartedNothing
<1> QED
  BY <1>1, <1>2, <1>3, Typing, PTL DEF Spec

-----------------------------------------------------------------------------
(***************************************************************************)
(* Scaling steps.  The worker holds one NodeHandling at a time, which is   *)
(* Running for everybody while it is held; one whose step went through is  *)
(* never taken from the queue again.                                       *)
(***************************************************************************)
HandlingInStep(c) ==
  /\ c \in queueNH => seenNH[c] = nhPhase[c] /\ nhPhase[c] # Absent
  /\ nhStep[c] # "idle" =>
       /\ c \notin queueNH
       /\ seenNH[c] = "Running" /\ nhPhase[c] = "Running"
  /\ nhPhase[c] # "Failed" /\ nhStep[c] \notin {"fail", "abort"}
  /\ nhStep[c] \in ScaleUpSteps => nsLabel[c] > 0
  /\ nhStep[c] \in ScaleDownSteps => nsLabel[c] < 0
  /\ nhPhase[c] = Absent => seenNH[c] = Absent
  /\ seenNH[c] \in Verdicts => seenNH[c] = nhPhase[c]

HandlingsInStep ==
  /\ \A c \in Configs : HandlingInStep(c)
  /\ \A c, d \in Configs :
       nhStep[c] # "idle" /\ nhStep[d] # "idle" => c = d

(***************************************************************************)
(* The worker's part of a scaling step, when nothing fails.                *)
(***************************************************************************)
FaultlessStep(c, from, to) ==
  /\ nhStep[c] = from
  /\ nhStep' = [nhStep EXCEPT ![c] = to]
  /\ UNCHANGED <<nhPhase, queueNH>>

FaultlessSteps ==
  {<<"powerOn", "awaitReady">>, <<"awaitReady", "uncordon">>,
   <<"uncordon", "annotate">>, <<"annotate", "complete">>,
   <<"cordon", "drain">>, <<"drain", "powerOff">>,
   <<"powerOff", "awaitOff">>, <<"awaitOff", "complete">>}

\* A scaling step without a fault goes on with its next call, or ends.
LEMMA StepsAreFaultless ==
  ASSUME NEW c \in Configs, NHWork(c), \A kind : ~Fault(kind)
  PROVE  \/ \E step \in FaultlessSteps : FaultlessStep(c, step[1], step[2])
         \/ nhStep[c] \in {"complete", "fail", "abort"}
<1> USE DEF FaultlessStep, FaultlessSteps, NHStep, Proceeds, FailsBy, NHGoto
<1>1. CASE NHPowerOn(c) \/ NHPowerOff(c)
  BY <1>1 DEF NHPowerOn, NHPowerOff, PerformPowerCycleAction
<1>2. CASE NHAwaitReady(c) \/ NHAwaitOff(c) \/ NHDrain(c)
  BY <1>2 DEF NHAwaitReady, NHAwaitOff, NHDrain
<1>3. CASE NHUncordon(c) \/ NHAnnotate(c) \/ NHCordon(c)
  BY <1>3 DEF NHUncordon, NHAnnotate, NHCordon, PatchNode
<1>4. CASE NHAbort(c) \/ NHComplete(c) \/ NHFail(c)
  BY <1>4 DEF NHAbort, NHComplete, NHFail
<1> QED
  BY <1>1, <1>2, <1>3, <1>4 DEF NHWork

\* Until a fault happens, every step keeps handlings in step with their worker.
LEMMA HandlingsKept ==
  ASSUME TypeOK, SelectionsInStep, HandlingsInStep, [Next]_vars, faults' = 0
  PROVE  HandlingsInStep'
<1> USE DEF TypeOK, HandlingsInStep, HandlingInStep, Verdicts, Absent, Unset, ScaleUpSteps, ScaleDownSteps
<1>0. faults = 0 /\ \A kind : ~Fault(kind)
  BY NoFaultSoFar
<1>1. CASE UNCHANGED <<queueNH, seenNH, nhPhase, nhStep, nsLabel>>
  BY <1>1
<1>2. CASE Environment
  <2>1. ASSUME NEW c \in Configs, DeliverNH(c) PROVE HandlingsInStep'
    BY <2>1 DEF DeliverNH, nsObject, nhObject, works
  <2>2. CASE Restart
    BY <1>0, <2>2 DEF Restart
  <2>3. CASE ~Restart /\ \A c \in Configs : ~DeliverNH(c)
    BY <1>1, <1>2, <2>3
    DEF Environment, DeliverCC, DeliverNS, DeliverNode, NodeBoots, NodeStops,
        PowerSettles, CreateClusterConfiguration, nsObject, nhObject,
        seenObjects, queues, works
  <2> QED
    BY <2>1, <2>2, <2>3
<1>3. ASSUME NEW c \in Configs, CCDequeue(c) \/ CCHandle(c)
      PROVE  HandlingsInStep'
  <2>1. UNCHANGED <<queueNH, seenNH, nhPhase, nhStep>>
    BY <1>3, CCWritesSelection
  <2>2. CASE UNCHANGED nsLabel
    BY <1>1, <2>1, <2>2
  <2>3. CASE nsPhase[c] = Absent /\ \E label : nsLabel' = [nsLabel EXCEPT ![c] = label]
    <3>1. nhStep[c] = "idle"
      BY <2>3 DEF SelectionsInStep, SelectionInStep
    <3> QED
      BY <2>1, <2>3, <3>1
  <2> QED
    BY <1>3, <2>2, <2>3, CCWritesSelection
<1>4. ASSUME NEW c \in Configs, NSDequeue(c) \/ NSReport(c)
      PROVE  HandlingsInStep'
  <2>1. UNCHANGED <<queueNH, seenNH, nhStep, nsLabel>>
    BY <1>4 DEF NSDequeue, NSReport, NSHandleInitialPhase, NSNoAction,
                NSHandleRunningPhase, NSKeeps, seenObjects
  <2>2. \/ nhPhase' = nhPhase
        \/ nhPhase[c] = Absent /\ nhPhase' = [nhPhase EXCEPT ![c] = Unset]
    BY <1>4 DEF NSDequeue, NSReport, NSHandleInitialPhase, NSNoAction,
                NSHandleRunningPhase, NSSelectsNothing, NSCreatesNodeHandling,
                NodeHandlingStored, Written, nhObject
  <2> QED
    BY <2>1, <2>2
<1>5. ASSUME NEW c \in Configs, NHDequeue(c) \/ NHWork(c)
      PROVE  HandlingsInStep'
  <2>1. UNCHANGED <<seenNH, nsLabel, nsPhase>>
    BY <1>5, NHWritesHandling
  <2> USE DEF UpdateSucceeds, UpdateFails, UpdateConflicts, CallFails, Written
  <2>2. CASE NHHandleInitialPhase(c)
    BY <1>0, <2>1, <2>2 DEF NHHandleInitialPhase, NHIdle
  <2>3. CASE NHNoAction(c)
    BY <2>1, <2>3 DEF NHNoAction, NHIdle
  <2>4. CASE NHHandleRunningPhase(c)
    <3>1. nhStep' = [nhStep EXCEPT ![c] = FirstStep(nsLabel[c])]
      BY <1>0, <2>4 DEF NHHandleRunningPhase, NHGoto
    <3>2. /\ FirstStep(nsLabel[c]) \in {"powerOn", "cordon", "complete"}
          /\ FirstStep(nsLabel[c]) = "powerOn" => nsLabel[c] > 0
          /\ FirstStep(nsLabel[c]) = "cordon" => nsLabel[c] < 0
      BY DEF FirstStep
    <3> QED
      BY <2>1, <2>4, <3>1, <3>2 DEF NHHandleRunningPhase, NHIdle
  <2>5. ASSUME NEW step \in FaultlessSteps, FaultlessStep(c, step[1], step[2])
        PROVE  HandlingsInStep'
    BY <2>1, <2>5 DEF FaultlessSteps, FaultlessStep
  <2>6. CASE NHComplete(c)
    BY <1>0, <2>1, <2>6 DEF NHComplete, NHGoto
  <2>7. CASE NHWork(c)
    <3>1. nhStep[c] \notin {"fail", "abort"}
      OBVIOUS
    <3>2. nhStep[c] = "complete" => NHComplete(c)
      BY <2>7 DEF NHWork, NHPowerOn, NHAwaitReady, NHUncordon, NHAnnotate,
                  NHCordon, NHDrain, NHPowerOff, NHAwaitOff, NHAbort, NHFail,
                  NHStep
    <3> QED
      BY <1>0, <2>5, <2>6, <2>7, <3>1, <3>2, StepsAreFaultless
  <2> QED
    BY <1>5, <2>2, <2>3, <2>4, <2>7 DEF NHDequeue
<1>6. CASE UNCHANGED vars
  BY <1>1, <1>6 DEF vars, nsObject, nhObject, seenObjects, queues, works
<1> QED
  BY <1>2, <1>3, <1>4, <1>5, <1>6 DEF Next, Controllers

(***************************************************************************)
(* A label is written with its NodeSelecting, and a completed step is      *)
(* written down by the worker that completed it.                           *)
(***************************************************************************)
LEMMA CompletedStaysCompleted ==
  ASSUME TypeOK, SelectionsInStep, HandlingsInStep, [Next]_vars, faults' = 0,
         NEW d \in Configs
  PROVE  /\ nsPhase[d] # Absent => nsLabel'[d] = nsLabel[d]
         /\ nhStep[d] = "complete" =>
              nhStep'[d] = "complete" \/ nhPhase'[d] = "Completed"
<1> USE DEF TypeOK
<1>0. faults = 0 /\ \A kind : ~Fault(kind)
  BY NoFaultSoFar
<1>1. CASE UNCHANGED <<nsLabel, nhStep>>
  BY <1>1
<1>2. CASE Environment
  <2>1. CASE Restart
    BY <1>0, <2>1 DEF Restart
  <2>2. CASE ~Restart
    BY <1>1, <1>2, <2>2
    DEF Environment, DeliverCC, DeliverNS, DeliverNH, DeliverNode, NodeBoots,
        NodeStops, PowerSettles, CreateClusterConfiguration, nsObject, works
  <2> QED
    BY <2>1, <2>2
<1>3. ASSUME NEW c \in Configs, CCDequeue(c) \/ CCHandle(c)
      PROVE  UNCHANGED nhStep /\ (nsPhase[d] # Absent => nsLabel'[d] = nsLabel[d])
  BY <1>3, CCWritesSelection
<1>4. ASSUME NEW c \in Configs, NSDequeue(c) \/ NSReport(c)
      PROVE  UNCHANGED <<nsLabel, nhStep>>
  BY <1>4 DEF NSDequeue, NSReport, NSHandleInitialPhase, NSNoAction,
              NSHandleRunningPhase, NSKeeps
<1>5. ASSUME NEW c \in Configs, NHDequeue(c) \/ NHWork(c),
             nhStep[d] = "complete"
      PROVE  nhStep'[d] = "complete" \/ nhPhase'[d] = "Completed"
  <2> USE DEF HandlingsInStep, HandlingInStep, NHGoto
  <2>1. CASE NHDequeue(c)
    BY <1>5, <2>1
    DEF NHDequeue, NHHandleInitialPhase, NHNoAction, NHHandleRunningPhase,
        NHIdle
  <2>2. CASE NHWork(c)
    <3>1. c = d
      BY <1>5, <2>2
      DEF NHWork, NHPowerOn, NHAwaitReady, NHUncordon, NHAnnotate, NHCordon,
          NHDrain, NHPowerOff, NHAwaitOff, NHAbort, NHComplete, NHFail, NHStep
    <3>2. NHComplete(c)
      BY <1>5, <2>2, <3>1
      DEF NHWork, NHPowerOn, NHAwaitReady, NHUncordon, NHAnnotate, NHCordon,
          NHDrain, NHPowerOff, NHAwaitOff, NHAbort, NHFail, NHStep
    <3> QED
      BY <1>0, <1>5, <3>1, <3>2
      DEF NHComplete, UpdateSucceeds, UpdateFails, UpdateConflicts, CallFails,
          Written
  <2> QED
    BY <1>5, <2>1, <2>2
<1>6. CASE UNCHANGED vars
  BY <1>1, <1>6 DEF vars, nsObject, works
<1>7. ASSUME NEW c \in Configs, Controllers(c)
      PROVE  /\ nsPhase[d] # Absent => nsLabel'[d] = nsLabel[d]
             /\ nhStep[d] = "complete" =>
                  nhStep'[d] = "complete" \/ nhPhase'[d] = "Completed"
  BY <1>3, <1>4, <1>5, <1>7, NHWritesHandling DEF Controllers
<1> QED
  BY <1>2, <1>6, <1>7 DEF Next

(***************************************************************************)
(* The scale-ups of a node whose worker has written the annotation.  The   *)
(* count and its cached copy, from which the next one is computed, never   *)
(* exceed their number.                                                    *)
(***************************************************************************)
Counted(n) ==
  {c \in Configs : /\ nhNode[c] = n /\ nsLabel[c] > 0
                   /\ nhPhase[c] = "Completed" \/ nhStep[c] = "complete"}

CyclesCounted ==
  \A n \in Nodes : /\ cycles[n] =< Cardinality(Counted(n))
                   /\ seenCycles[n] =< Cardinality(Counted(n))

\* The scale-ups of a node that were counted are finitely many.
LEMMA CountedType ==
  ASSUME NEW n
  PROVE  IsFiniteSet(Counted(n)) /\ Cardinality(Counted(n)) \in Nat
  BY FS_Subset, FS_CardinalityType, ClusterAssumption
  DEF ClusterAssumption, Counted

\* A scale-up that was counted stays counted.
LEMMA CountedGrows ==
  ASSUME TypeOK, SelectionsInStep, HandlingsInStep, [Next]_vars, faults' = 0,
         NEW n \in Nodes
  PROVE  /\ Counted(n) \subseteq Counted(n)'
         /\ Cardinality(Counted(n)) =< Cardinality(Counted(n)')
<1>1. HandoverStep
  BY NextHandover
<1>2. ASSUME NEW c \in Counted(n) PROVE c \in Counted(n)'
  <2>1. c \in Configs /\ nhPhase[c] # Absent /\ nsPhase[c] # Absent
    BY <1>2 DEF Counted, SelectionsInStep, SelectionInStep, HandlingsInStep,
                HandlingInStep, Absent
  <2>2. /\ nsLabel'[c] = nsLabel[c]
        /\ nhStep[c] = "complete" =>
             nhStep'[c] = "complete" \/ nhPhase'[c] = "Completed"
    BY <2>1, CompletedStaysCompleted
  <2> QED
    BY <1>1, <1>2, <2>1, <2>2 DEF HandoverStep, Counted, Verdicts
<1>3. IsFiniteSet(Counted(n)')
  BY FS_Subset, ClusterAssumption DEF ClusterAssumption, Counted
<1> QED
  BY <1>2, <1>3, FS_Subset

\* Until a fault happens, every step keeps the counts of power cycles.
LEMMA CyclesKept ==
  ASSUME TypeOK, SelectionsInStep, HandlingsInStep, CyclesCounted,
         [Next]_vars, faults' = 0
  PROVE  CyclesCounted'
<1>0. faults = 0 /\ \A kind : ~Fault(kind)
  BY NoFaultSoFar
<1>1. ASSUME NEW n \in Nodes
      PROVE  /\ Cardinality(Counted(n)) =< Cardinality(Counted(n)')
             /\ Cardinality(Counted(n)) \in Nat
             /\ Cardinality(Counted(n)') \in Nat
             /\ cycles[n] \in Nat /\ seenCycles[n] \in Nat
  <2>1. Cardinality(Counted(n)) \in Nat /\ IsFiniteSet(Counted(n)')
    BY CountedType, FS_Subset, ClusterAssumption
    DEF ClusterAssumption, Counted
  <2> QED
    BY <2>1, CountedGrows, FS_CardinalityType DEF TypeOK
<1>2. ASSUME UNCHANGED cycles,
             \A n \in Nodes : seenCycles'[n] \in {seenCycles[n], cycles[n]}
      PROVE  CyclesCounted'
  BY <1>1, <1>2 DEF CyclesCounted
<1>3. CASE Environment
  <2>1. UNCHANGED cycles
    BY <1>3
    DEF Environment, DeliverCC, DeliverNS, DeliverNH, DeliverNode, NodeBoots,
        NodeStops, PowerSettles, CreateClusterConfiguration, Restart, nodeVars
  <2>2. \A n \in Nodes : seenCycles'[n] \in {seenCycles[n], cycles[n]}
    BY <1>3
    DEF Environment, DeliverCC, DeliverNS, DeliverNH, DeliverNode, NodeBoots,
        NodeStops, PowerSettles, CreateClusterConfiguration, Restart,
        nodeVars, TypeOK
  <2> QED
    BY <1>2, <2>1, <2>2
<1>4. ASSUME NEW c \in Configs, CCDequeue(c) \/ CCHandle(c)
      PROVE  CyclesCounted'
  BY <1>2, <1>4, CCWritesSelection
<1>5. ASSUME NEW c \in Configs, NSDequeue(c) \/ NSReport(c)
      PROVE  CyclesCounted'
  BY <1>2, <1>5 DEF NSDequeue, NSReport, NSHandleInitialPhase, NSNoAction,
                    NSHandleRunningPhase, NSKeeps, nodeVars
<1>6. ASSUME NEW c \in Configs, NHAnnotate(c)
      PROVE  CyclesCounted'
  <2>1. /\ nhStep[c] = "annotate"
        /\ nhStep' = [nhStep EXCEPT ![c] = "complete"]
        /\ cycles' = [cycles EXCEPT ![nhNode[c]] = NextCycle(nhNode[c])]
        /\ UNCHANGED <<nhNode, nsLabel, nhPhase, seenCycles>>
    BY <1>0, <1>6 DEF NHAnnotate, NHStep, NHKeeps, PatchNode, Patch, Proceeds,
                      FailsBy, NHGoto, nsObject, nodeCache
  <2>2. ASSUME NEW n \in Nodes, n = nhNode[c]
        PROVE  /\ Cardinality(Counted(n)') >= Cardinality(Counted(n)) + 1
               /\ NextCycle(n) \in Nat /\ NextCycle(n) =< seenCycles[n] + 1
    <3>1. c \notin Counted(n) /\ c \in Counted(n)'
      <4>1. nhPhase[c] = "Running" /\ nsLabel[c] > 0
        BY <2>1 DEF HandlingsInStep, HandlingInStep, ScaleUpSteps
      <4> QED
        BY <2>1, <2>2, <4>1 DEF Counted, TypeOK
    <3>2. Counted(n) \cup {c} \subseteq Counted(n)'
      BY <2>2, <3>1, CountedGrows
    <3>3. /\ IsFiniteSet(Counted(n))
          /\ Cardinality(Counted(n) \cup {c}) = Cardinality(Counted(n)) + 1
      BY <3>1, CountedType, FS_AddElement
    <3>4. IsFiniteSet(Counted(n)')
      BY FS_Subset, ClusterAssumption DEF ClusterAssumption, Counted
    <3>5. Cardinality(Counted(n)') >= Cardinality(Counted(n)) + 1
      BY <3>2, <3>3, <3>4, FS_Subset, FS_CardinalityType, CountedType
    <3> QED
      BY <3>5 DEF NextCycle, TypeOK
  <2>3. ASSUME NEW m \in Nodes
        PROVE  /\ cycles'[m] =< Cardinality(Counted(m)')
               /\ seenCycles'[m] =< Cardinality(Counted(m)')
    <3>1. CASE m = nhNode[c]
      <4>1. cycles'[m] = NextCycle(m)
        BY <2>1, <2>3, <3>1 DEF TypeOK
      <4> QED
        BY <1>1, <2>1, <2>2, <2>3, <3>1, <4>1 DEF CyclesCounted
    <3>2. CASE m # nhNode[c]
      BY <1>1, <2>1, <2>3, <3>2 DEF CyclesCounted, TypeOK
    <3> QED
      BY <3>1, <3>2
  <2> QED
    BY <2>3 DEF CyclesCounted
<1>7. ASSUME NEW c \in Configs, NHDequeue(c) \/ NHWork(c), ~NHAnnotate(c)
      PROVE  CyclesCounted'
  <2>1. UNCHANGED cycles
    BY <1>7 DEF NHDequeue, NHWork, NHHandleInitialPhase, NHNoAction,
                NHHandleRunningPhase, NHPowerOn, NHAwaitReady, NHUncordon,
                NHCordon, NHDrain, NHPowerOff, NHAwaitOff, NHAbort,
                NHComplete, NHFail, PerformPowerCycleAction
  <2> QED
    BY <1>2, <1>7, <2>1, NHWritesHandling
<1>8. CASE UNCHANGED vars
  BY <1>2, <1>8 DEF vars, nodeVars
<1> QED
  BY <1>3, <1>4, <1>5, <1>6, <1>7, <1>8 DEF Next, Controllers

(***************************************************************************)
(* Until a fault happens the power-cycle annotation of a node counts each  *)
(* of its scale-ups once, whatever copy of it the worker reads: what the   *)
(* cache lags behind only makes the count smaller.                         *)
(***************************************************************************)
THEOREM CycledOnce == Spec => [](faults = 0 => PowerCyclesCountedOnce)
<1> DEFINE Inv == faults = 0 =>
                    SelectionsInStep /\ HandlingsInStep /\ CyclesCounted
<1>1. Init => Inv
  <2>1. Init => SelectionsInStep
    BY DEF Init, SelectionsInStep, SelectionInStep, Verdicts, Absent
  <2>2. Init => HandlingsInStep
    BY DEF Init, HandlingsInStep, HandlingInStep, Verdicts, Absent,
           ScaleUpSteps, ScaleDownSteps
  <2>3. Init => CyclesCounted
    BY CountedType DEF Init, CyclesCounted
  <2> QED
    BY <2>1, <2>2, <2>3
<1>2. TypeOK /\ Inv /\ [Next]_vars => Inv'
  BY NoFaultSoFar, SelectionsKept, HandlingsKept, CyclesKept
<1>3. TypeOK /\ Inv => (faults = 0 => PowerCyclesCountedOnce)
  <2> SUFFICES ASSUME TypeOK, CyclesCounted, NEW n \in Nodes
               PROVE  cycles[n] =<
                        Cardinality({c \in Configs :
                                       nhNode[c] = n /\ nsLabel[c] > 0})
    BY DEF PowerCyclesCountedOnce
  <2> DEFINE ScaleUps == {c \in Configs : nhNode[c] = n /\ nsLabel[c] > 0}
  <2>1. IsFiniteSet(ScaleUps) /\ Counted(n) \subseteq ScaleUps
    BY FS_Subset, ClusterAssumption DEF ClusterAssumption, Counted
  <2>2. /\ Cardinality(Counted(n)) =< Cardinality(ScaleUps)
        /\ Cardinality(Counted(n)) \in Nat /\ Cardinality(ScaleUps) \in Nat
    BY <2>1, FS_Subset, FS_CardinalityType, CountedType
  <2> HIDE DEF ScaleUps
  <2>3. cycles[n] =< Cardinality(ScaleUps)
    BY <2>2 DEF CyclesCounted, TypeOK
  <2> QED
    BY <2>3 DEF ScaleUps
<1> QED
  BY <1>1, <1>2, <1>3, Typing, PTL DEF Spec
=============================================================================
