-------------------- MODULE ClusterConfigurationReconciler --------------------
(***************************************************************************)
(* ClusterConfigurationReconciler: drives a scaling request through        *)
(*   Stable -> Selecting -> Switching -> Completed -> Finished             *)
(* or to Failed.  The controller has one worker (MaxConcurrentReconciles   *)
(* 1).  Reconcile dispatches on the phase a first Get returned; every      *)
(* handler but the initial one Gets the object again, both times from the  *)
(* informer cache, and updates the second object.                          *)
(***************************************************************************)
EXTENDS Cluster

CCIdle == \A c \in Configs : ccStep[c] = "idle"

Goto(c, step) == ccStep' = [ccStep EXCEPT ![c] = step]
CCDone(c) == Goto(c, "idle") /\ UNCHANGED ccHeld
CCRequeue(c) == queueCC' = queueCC \cup {c}

\* What a reconciliation of a ClusterConfiguration never writes.
CCKeeps == UNCHANGED <<ccRequired, nhObject, seenObjects, nodeVars, queueNS,
                       queueNH, nsStep, nhStep>>

(***************************************************************************)
(* The first Get.  Finished, Failed and missing objects need no action.    *)
(***************************************************************************)
CCDequeue(c) ==
  /\ c \in queueCC /\ CCIdle
  /\ queueCC' = queueCC \ {c}
  /\ Goto(c, IF seenCC[c] \in Handled THEN seenCC[c] ELSE "idle")
  /\ UNCHANGED <<ccPhase, ccHeld, nsObject, faults>>
  /\ CCKeeps

(***************************************************************************)
(* A handler whose only write is a status update from version held to      *)
(* phase.  An error queues the configuration again; so does success when   *)
(* the handler asked to be polled.                                         *)
(***************************************************************************)
CCUpdate(c, held, phase, polled) ==
  /\ \/ UpdateSucceeds(ccPhase, c, held, phase)
        /\ queueCC' = IF polled THEN queueCC \cup {c} ELSE queueCC
     \/ UpdateFails(ccPhase, c, held, phase) /\ CCRequeue(c)
  /\ CCDone(c)
  /\ UNCHANGED nsObject

\* A handler that finds nothing to do yet and returns RequeueAfter.
CCWait(c) ==
  /\ CCRequeue(c) /\ CCDone(c)
  /\ UNCHANGED <<ccPhase, nsObject, faults>>

HandleInitialPhase(c) ==
  /\ ccStep[c] = Unset
  /\ CCUpdate(c, Unset, "Stable", FALSE)
  /\ CCKeeps

-----------------------------------------------------------------------------
(***************************************************************************)
(* CreateNodeSelecting: nothing to do when the cache shows one owned by c. *)
(* Otherwise Create, which fails with AlreadyExists when the cache lags.   *)
(***************************************************************************)
NodeSelectingExists(c) == seenNS[c] # Absent

NodeSelectingStored(c, label) ==
  /\ Written(nsPhase, c, Absent, Unset)
  /\ nsLabel' = [nsLabel EXCEPT ![c] = label]

CreateNodeSelectingOk(c, label) ==
  /\ UNCHANGED faults
  /\ IF NodeSelectingExists(c) THEN UNCHANGED nsObject
                               ELSE NodeSelectingStored(c, label)

CreateNodeSelectingFails(c, label) ==
  /\ ~NodeSelectingExists(c)
  /\ \/ nsPhase[c] # Absent /\ UNCHANGED <<nsObject, faults>>
     \/ Fault("api") /\ UNCHANGED nsObject
     \/ Fault("lost") /\ NodeSelectingStored(c, label)

OutOfBounds(required) == required > MaxNodes \/ required < MinNodes

\* numberOfWorkerToAdd, with the clamps of the code.
WorkersToAddUp(required)   == (IF required < MaxNodes THEN required
                               ELSE MaxNodes) - ActiveNodes
WorkersToRemove(required)  == (IF required > MinNodes THEN required
                               ELSE MinNodes) - ActiveNodes

\* A scale-up returns right after the Create: the phase stays Stable.
StartScaleUp(c) ==
  LET label == WorkersToAddUp(ccRequired[c]) IN
  /\ \/ CreateNodeSelectingOk(c, label) /\ UNCHANGED queueCC
     \/ CreateNodeSelectingFails(c, label) /\ CCRequeue(c)
  /\ CCDone(c)
  /\ UNCHANGED ccPhase

\* A scale-down goes on to write the Selecting phase.
StartScaleDown(c) ==
  LET label == WorkersToRemove(ccRequired[c]) IN
  /\ \/ /\ CreateNodeSelectingOk(c, label)
        /\ Goto(c, "markSelecting")
        /\ ccHeld' = [ccHeld EXCEPT ![c] = seenCC[c]]
        /\ UNCHANGED queueCC
     \/ /\ CreateNodeSelectingFails(c, label)
        /\ CCDone(c)
        /\ CCRequeue(c)
  /\ UNCHANGED ccPhase

HandleStablePhase(c) ==
  /\ ccStep[c] = "Stable"
  /\ LET required == ccRequired[c] IN
     \/ ActiveNodes = required /\ CCUpdate(c, seenCC[c], "Completed", FALSE)
     \/ /\ ActiveNodes # required /\ OutOfBounds(required)
        /\ CCUpdate(c, seenCC[c], "Failed", FALSE)
     \/ ActiveNodes < required /\ ~OutOfBounds(required) /\ StartScaleUp(c)
     \/ ActiveNodes > required /\ ~OutOfBounds(required) /\ StartScaleDown(c)
  /\ CCKeeps

MarkSelecting(c) ==
  /\ ccStep[c] = "markSelecting"
  /\ \/ UpdateSucceeds(ccPhase, c, ccHeld[c], "Selecting") /\ UNCHANGED queueCC
     \/ UpdateFails(ccPhase, c, ccHeld[c], "Selecting") /\ CCRequeue(c)
  /\ Goto(c, "idle")
  /\ ccHeld' = [ccHeld EXCEPT ![c] = Absent]
  /\ UNCHANGED nsObject
  /\ CCKeeps

-----------------------------------------------------------------------------
\* Mutant: any selection that has not failed is taken for done.
SelectionNotFailed(phase) == phase # "Failed"

SelectionDone(phase) == phase = "Completed"

\* Success is not polled; Failed and "still in progress" both return
\* found = false and are polled again.
HandleSelectingPhase(c) ==
  /\ ccStep[c] = "Selecting"
  /\ \/ /\ SelectionDone(seenNS[c])
        /\ CCUpdate(c, seenCC[c], "Switching", FALSE)
     \/ seenNS[c] = "Failed" /\ CCUpdate(c, seenCC[c], "Failed", TRUE)
     \/ seenNS[c] \notin {"Completed", "Failed"} /\ CCWait(c)
  /\ CCKeeps

\* len(nodeHandlingList.Items): every NodeHandling of the namespace.
HandlingsInNamespace ==
  OldHandlings + Cardinality({d \in Configs : seenNH[d] # Absent})

\* Mutant: the Failed phase of the NodeHandling is not looked at.
HandlingNotCompleted(phase) == phase \in {Unset, "Running", "Failed"}

HandlingInProgress(phase) == phase \in {Unset, "Running"}

(***************************************************************************)
(* The verdict comes from the NodeHandling of c, but the test for more     *)
(* than one counts the whole namespace.  It is reached while the cache     *)
(* has no NodeHandling of c.                                               *)
(***************************************************************************)
HandleSwitchingPhase(c) ==
  /\ ccStep[c] = "Switching"
  /\ \/ seenNH[c] = "Completed" /\ CCUpdate(c, seenCC[c], "Completed", FALSE)
     \/ seenNH[c] = "Failed" /\ CCUpdate(c, seenCC[c], "Failed", TRUE)
     \/ HandlingInProgress(seenNH[c]) /\ CCWait(c)
     \/ /\ seenNH[c] = Absent /\ HandlingsInNamespace > 1
        /\ CCUpdate(c, seenCC[c], "Failed", TRUE)
     \/ seenNH[c] = Absent /\ HandlingsInNamespace =< 1 /\ CCWait(c)
  /\ CCKeeps

-----------------------------------------------------------------------------
(***************************************************************************)
(* The workers are counted once; RetryOnConflict then Gets and updates     *)
(* until there is no conflict or it has no attempt left.                   *)
(***************************************************************************)
HandleCompletedPhase(c) ==
  /\ ccStep[c] = "Completed"
  /\ Goto(c, IF ActiveNodes = ccRequired[c] THEN "finish" ELSE "fail")
  /\ UNCHANGED <<ccPhase, ccHeld, nsObject, queueCC, faults>>
  /\ CCKeeps

Verdict(c) == IF ccStep[c] = "finish" THEN "Finished" ELSE "Failed"

RetryOnConflict(c) ==
  /\ ccStep[c] \in {"finish", "fail"}
  /\ \/ CCUpdate(c, seenCC[c], Verdict(c), FALSE)
     \/ /\ UpdateConflicts(ccPhase, c, seenCC[c])
        /\ UNCHANGED <<ccStep, ccHeld, nsObject, queueCC>>
  /\ CCKeeps

CCHandle(c) ==
  \/ HandleInitialPhase(c) \/ HandleStablePhase(c) \/ MarkSelecting(c)
  \/ HandleSelectingPhase(c) \/ HandleSwitchingPhase(c)
  \/ HandleCompletedPhase(c) \/ RetryOnConflict(c)
=============================================================================
