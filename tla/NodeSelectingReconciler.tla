----------------------- MODULE NodeSelectingReconciler -----------------------
(***************************************************************************)
(* NodeSelectingReconciler: picks the node of a scaling step and creates   *)
(* the NodeHandling that executes it.  The controller has one worker.      *)
(***************************************************************************)
EXTENDS Cluster

NSIdle == \A c \in Configs : nsStep[c] = "idle"

NSRequeue(c) == UNCHANGED queueNS          \* the key goes back to the queue
NSDequeued(c) == queueNS' = queueNS \ {c}

\* What a reconciliation of a NodeSelecting never writes.
NSKeeps == UNCHANGED <<ccObject, nsLabel, seenObjects, nodeVars, queueCC,
                       queueNH, ccWork, nhStep>>

(***************************************************************************)
(* An error of the status update is logged and not returned, so the key is *)
(* not queued again.  The test for another running NodeSelecting of the    *)
(* same configuration never holds: the name is unique per configuration.   *)
(***************************************************************************)
NSHandleInitialPhase(c) ==
  /\ c \in queueNS /\ NSIdle /\ seenNS[c] = Unset
  /\ \/ UpdateSucceeds(nsPhase, c, Unset, "Running")
     \/ UpdateFails(nsPhase, c, Unset, "Running")
  /\ NSDequeued(c)
  /\ UNCHANGED <<nhObject, nsStep>>
  /\ NSKeeps

\* Completed and Failed need no action.
NSNoAction(c) ==
  /\ c \in queueNS /\ NSIdle
  /\ seenNS[c] \in {Absent, "Completed", "Failed"}
  /\ NSDequeued(c)
  /\ UNCHANGED <<nsPhase, nhObject, nsStep, faults>>
  /\ NSKeeps

-----------------------------------------------------------------------------
\* scaleDownCandidates: Ready workers the cache shows schedulable.
ScaleDownCandidates == {n \in Nodes : Ready(n) /\ ~seenCordoned[n]}

\* A node can be drained only when another candidate can take its pods.
Drainable == IF Cardinality(ScaleDownCandidates) > 1
             THEN ScaleDownCandidates ELSE {}

\* Workers that are not Ready and carry both annotations.
ScaleUpCandidates == {n \in Profiled : ~Ready(n)}

(***************************************************************************)
(* The nodes selectNodeScaleDown or selectNodeScaleUp may return, NoNode   *)
(* for the empty name.  Which drainable node has a feasible migration plan *)
(* and ranks first is the pods' business and left open here; the best      *)
(* ranked powered-off node always exists when there is a candidate.        *)
(***************************************************************************)
Selectable(c) ==
  CASE nsLabel[c] < 0 -> Drainable \cup {NoNode}
    [] nsLabel[c] > 0 /\ ScaleUpCandidates # {} -> ScaleUpCandidates
    [] OTHER -> {NoNode}

NSSelectsNothing(c) ==
  /\ NoNode \in Selectable(c)
  /\ \/ UpdateSucceeds(nsPhase, c, "Running", "Failed") /\ NSDequeued(c)
     \/ UpdateFails(nsPhase, c, "Running", "Failed") /\ NSRequeue(c)
  /\ UNCHANGED <<nhObject, nsStep>>

\* Mutant: the Create overwrites a NodeHandling that exists.
NodeHandlingReplaced(c, n) ==
  /\ nhPhase' = [nhPhase EXCEPT ![c] = Unset]
  /\ nhNode' = [nhNode EXCEPT ![c] = n]

NodeHandlingStored(c, n) ==
  /\ Written(nhPhase, c, Absent, Unset)
  /\ nhNode' = [nhNode EXCEPT ![c] = n]

\* Mutant: handleRunningPhase returns without the status update.
NSForgetsToReport(c, n) ==
  /\ n \in Selectable(c) \ {NoNode}
  /\ NodeHandlingStored(c, n)
  /\ NSRequeue(c)
  /\ UNCHANGED <<nsPhase, nsStep, faults>>

\* CreateNodeHandling: AlreadyExists is an error like any other.
NSCreatesNodeHandling(c, n) ==
  /\ n \in Selectable(c) \ {NoNode}
  /\ UNCHANGED nsPhase
  /\ \/ /\ NodeHandlingStored(c, n) /\ UNCHANGED faults
        /\ NSDequeued(c)
        /\ nsStep' = [nsStep EXCEPT ![c] = "report"]
     \/ /\ \/ nhPhase[c] # Absent /\ UNCHANGED <<nhObject, faults>>
           \/ Fault("api") /\ UNCHANGED nhObject
           \/ Fault("lost") /\ NodeHandlingStored(c, n)
        /\ NSRequeue(c)
        /\ UNCHANGED nsStep

NSHandleRunningPhase(c) ==
  /\ c \in queueNS /\ NSIdle /\ seenNS[c] = "Running"
  /\ \/ NSSelectsNothing(c)
     \/ \E n \in Nodes : NSCreatesNodeHandling(c, n)
  /\ NSKeeps

\* The status update that ends handleRunningPhase after the Create.
NSReport(c) ==
  /\ nsStep[c] = "report"
  /\ nsStep' = [nsStep EXCEPT ![c] = "idle"]
  /\ \/ UpdateSucceeds(nsPhase, c, "Running", "Completed") /\ UNCHANGED queueNS
     \/ /\ UpdateFails(nsPhase, c, "Running", "Completed")
        /\ queueNS' = queueNS \cup {c}
  /\ UNCHANGED nhObject
  /\ NSKeeps

NSDequeue(c) ==
  NSHandleInitialPhase(c) \/ NSNoAction(c) \/ NSHandleRunningPhase(c)
=============================================================================
