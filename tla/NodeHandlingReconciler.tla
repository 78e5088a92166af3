------------------------ MODULE NodeHandlingReconciler ------------------------
(***************************************************************************)
(* NodeHandlingReconciler: switches the selected node on or off.  One      *)
(* worker (MaxConcurrentReconciles 1), held for the whole of a scaling     *)
(* step, which may take half an hour; each API or Redfish call and each    *)
(* wait is a step of it.                                                   *)
(***************************************************************************)
EXTENDS Cluster

NHIdle == \A c \in Configs : nhStep[c] = "idle"

NHGoto(c, step) == nhStep' = [nhStep EXCEPT ![c] = step]
NHRequeue(c) == queueNH' = queueNH \cup {c}

\* What a reconciliation of a NodeHandling never writes.
NHKeeps == UNCHANGED <<ccObject, nsObject, nhNode, seenObjects, nodeCache,
                       queueCC, queueNS, ccWork, nsStep>>

NHHandleInitialPhase(c) ==
  /\ c \in queueNH /\ NHIdle /\ seenNH[c] = Unset
  /\ \/ /\ UpdateSucceeds(nhPhase, c, Unset, "Running")
        /\ queueNH' = queueNH \ {c}
     \/ UpdateFails(nhPhase, c, Unset, "Running") /\ UNCHANGED queueNH
  /\ UNCHANGED <<power, cordoned, cycles, nhStep>>
  /\ NHKeeps

NHNoAction(c) ==
  /\ c \in queueNH /\ NHIdle /\ seenNH[c] \in {Absent, "Completed", "Failed"}
  /\ queueNH' = queueNH \ {c}
  /\ UNCHANGED <<nhPhase, power, cordoned, cycles, nhStep, faults>>
  /\ NHKeeps

\* A NodeHandling without a scaling action is Completed at once.
FirstStep(label) == CASE label > 0 -> "powerOn"
                      [] label < 0 -> "cordon"
                      [] OTHER     -> "complete"

\* Bound: while the cache lags behind the Completed of a NodeHandling, its
\* Running is acted on again until the node was counted MaxCycles times.  A
\* Running that is not stale is always acted on.
RunsAgain(c) == seenNH[c] = nhPhase[c] \/ cycles[nhNode[c]] < MaxCycles

\* handleRunningPhase starts scaleUp or scaleDown, which first Get the
\* credentials of the node's BMC.
NHHandleRunningPhase(c) ==
  /\ c \in queueNH /\ NHIdle /\ seenNH[c] = "Running"
  /\ RunsAgain(c)
  /\ queueNH' = queueNH \ {c}
  /\ \/ /\ NHGoto(c, FirstStep(nsLabel[c]))
        /\ UNCHANGED faults
     \/ Fault("api") /\ NHGoto(c, "fail")
  /\ UNCHANGED <<nhPhase, power, cordoned, cycles>>
  /\ NHKeeps

(***************************************************************************)
(* One call or wait of a scaling step, from position from.  Without fault  *)
(* the worker goes on to position to, a fault sends it to position else.   *)
(***************************************************************************)
NHStep(c, from) ==
  /\ nhStep[c] = from
  /\ UNCHANGED <<nhPhase, queueNH>>
  /\ NHKeeps

Proceeds(c, to) == NHGoto(c, to) /\ UNCHANGED faults
FailsBy(c, kind, else) == Fault(kind) /\ NHGoto(c, else)

\* What the machine makes of ResetType On and GracefulShutdown.
AfterOn  == [state \in PowerStates |->
               IF state = "off" THEN "booting" ELSE state]
AfterOff == [state \in PowerStates |->
               IF state \in {"on", "booting"} THEN "stopping" ELSE state]

PowerPost(n, after) == power' = [power EXCEPT ![n] = after[power[n]]]

(***************************************************************************)
(* performPowerCycleAction: the Redfish POST.  It fails with or without    *)
(* having reached the machine.                                             *)
(***************************************************************************)
PerformPowerCycleAction(c, after, to, else) ==
  /\ \/ PowerPost(nhNode[c], after) /\ Proceeds(c, to)
     \/ UNCHANGED power /\ FailsBy(c, "bmc", else)
     \/ PowerPost(nhNode[c], after) /\ FailsBy(c, "lost", else)
  /\ UNCHANGED <<cordoned, cycles>>

Patch(field, n, value) == field' = [field EXCEPT ![n] = value]

\* A merge patch of one field of a Node; it carries no resource version.
PatchNode(c, field, value, to, else) ==
  \/ Patch(field, nhNode[c], value) /\ Proceeds(c, to)
  \/ UNCHANGED field /\ FailsBy(c, "api", else)
  \/ Patch(field, nhNode[c], value) /\ FailsBy(c, "lost", else)

-----------------------------------------------------------------------------
NHPowerOn(c) ==
  /\ NHStep(c, "powerOn")
  /\ PerformPowerCycleAction(c, AfterOn, "awaitReady", "fail")

NHAwaitReady(c) ==
  /\ NHStep(c, "awaitReady")
  /\ \/ Ready(nhNode[c]) /\ Proceeds(c, "uncordon")
     \/ ~Ready(nhNode[c]) /\ FailsBy(c, "timeout", "fail")
  /\ UNCHANGED <<power, cordoned, cycles>>

\* uncordon patches nothing when the cache shows the node schedulable.
NHUncordon(c) ==
  /\ NHStep(c, "uncordon")
  /\ IF seenCordoned[nhNode[c]]
     THEN PatchNode(c, cordoned, FALSE, "annotate", "fail")
     ELSE Proceeds(c, "annotate") /\ UNCHANGED cordoned
  /\ UNCHANGED <<power, cycles>>

\* The count is read from the cache.
NextCycle(n) == seenCycles[n] + 1

NHAnnotate(c) ==
  /\ NHStep(c, "annotate")
  /\ PatchNode(c, cycles, NextCycle(nhNode[c]), "complete", "fail")
  /\ UNCHANGED <<power, cordoned>>

-----------------------------------------------------------------------------

\* Mutant: the node is drained without being cordoned.
NHDrainOnly(c) ==
  /\ NHStep(c, "cordon")
  /\ Proceeds(c, "drain")
  /\ UNCHANGED <<power, cordoned, cycles>>

NHCordon(c) ==
  /\ NHStep(c, "cordon")
  /\ IF seenCordoned[nhNode[c]]
     THEN Proceeds(c, "drain") /\ UNCHANGED cordoned
     ELSE PatchNode(c, cordoned, TRUE, "drain", "abort")
  /\ UNCHANGED <<power, cycles>>

\* The evictions of cordonAndDrain: they end, meet an API error, or the ten
\* minutes pass.
NHDrain(c) ==
  /\ NHStep(c, "drain")
  /\ \/ Proceeds(c, "powerOff")
     \/ \E kind \in {"api", "timeout"} : FailsBy(c, kind, "abort")
  /\ UNCHANGED <<power, cordoned, cycles>>

NHPowerOff(c) ==
  /\ NHStep(c, "powerOff")
  /\ PerformPowerCycleAction(c, AfterOff, "awaitOff", "abort")

NHAwaitOff(c) ==
  /\ NHStep(c, "awaitOff")
  /\ \/ ~Ready(nhNode[c]) /\ Proceeds(c, "complete")
     \/ Ready(nhNode[c]) /\ FailsBy(c, "timeout", "fail")
  /\ UNCHANGED <<power, cordoned, cycles>>

\* The uncordon of an aborted scale-down; its own error is dropped.
NHAbort(c) ==
  /\ NHStep(c, "abort")
  /\ IF seenCordoned[nhNode[c]]
     THEN PatchNode(c, cordoned, FALSE, "fail", "fail")
     ELSE Proceeds(c, "fail") /\ UNCHANGED cordoned
  /\ UNCHANGED <<power, cycles>>

-----------------------------------------------------------------------------

\* Mutant: a successful scaling step is queued again.
NHCompleteAndRequeue(c) ==
  /\ nhStep[c] = "complete"
  /\ NHGoto(c, "idle")
  /\ UpdateSucceeds(nhPhase, c, "Running", "Completed")
  /\ NHRequeue(c)
  /\ UNCHANGED <<power, cordoned, cycles>>
  /\ NHKeeps

NHComplete(c) ==
  /\ nhStep[c] = "complete"
  /\ NHGoto(c, "idle")
  /\ \/ UpdateSucceeds(nhPhase, c, "Running", "Completed") /\ UNCHANGED queueNH
     \/ UpdateFails(nhPhase, c, "Running", "Completed") /\ NHRequeue(c)
  /\ UNCHANGED <<power, cordoned, cycles>>
  /\ NHKeeps

\* After the status update the error of the scaling step is returned, so the
\* NodeHandling is queued again whether or not the update succeeded.
NHFail(c) ==
  /\ nhStep[c] = "fail"
  /\ NHGoto(c, "idle")
  /\ \/ UpdateSucceeds(nhPhase, c, "Running", "Failed")
     \/ UpdateFails(nhPhase, c, "Running", "Failed")
  /\ NHRequeue(c)
  /\ UNCHANGED <<power, cordoned, cycles>>
  /\ NHKeeps

NHDequeue(c) ==
  NHHandleInitialPhase(c) \/ NHNoAction(c) \/ NHHandleRunningPhase(c)

NHWork(c) ==
  \/ NHPowerOn(c) \/ NHAwaitReady(c) \/ NHUncordon(c) \/ NHAnnotate(c)
  \/ NHCordon(c) \/ NHDrain(c) \/ NHPowerOff(c) \/ NHAwaitOff(c) \/ NHAbort(c)
  \/ NHComplete(c) \/ NHFail(c)
=============================================================================
