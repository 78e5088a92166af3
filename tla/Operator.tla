------------------------------- MODULE Operator -------------------------------
(***************************************************************************)
(* The operator: its three controllers on one cluster, the machines, the   *)
(* forecaster that creates one scaling request after another, and restarts *)
(* of the operator.                                                        *)
(***************************************************************************)
EXTENDS ClusterConfigurationReconciler, NodeSelectingReconciler,
        NodeHandlingReconciler

Controllers(c) ==
  \/ CCDequeue(c) \/ CCHandle(c)
  \/ NSDequeue(c) \/ NSReport(c)
  \/ NHDequeue(c) \/ NHWork(c)

Next == Environment \/ \E c \in Configs : Controllers(c)

(***************************************************************************)
(* Informers deliver what changed, a powered machine settles, a worker     *)
(* finishes what it started, and a work queue serves every key in it: it   *)
(* is first in, first out, hence strong fairness for taking a key.         *)
(* Nothing obliges the forecaster to create a request or a fault to occur. *)
(***************************************************************************)
Fairness ==
  /\ \A c \in Configs :
       /\ WF_vars(DeliverCC(c)) /\ WF_vars(DeliverNS(c))
       /\ WF_vars(DeliverNH(c))
       /\ SF_vars(CCDequeue(c)) /\ WF_vars(CCHandle(c))
       /\ SF_vars(NSDequeue(c)) /\ WF_vars(NSReport(c))
       /\ SF_vars(NHDequeue(c)) /\ WF_vars(NHWork(c))
  /\ \A n \in Nodes :
       /\ WF_vars(DeliverNode(n))
       /\ WF_vars(NodeBoots(n)) /\ WF_vars(NodeStops(n))

Spec == Init /\ [][Next]_vars
FairSpec == Spec /\ Fairness

-----------------------------------------------------------------------------
(***************************************************************************)
(* Properties that no fault breaks.                                        *)
(***************************************************************************)

\* A request is Switching only when its node was selected and the object that
\* executes the step is stored, whatever the caches lag, however the Create
\* calls of the two controllers fail or the operator restarts in between.
SwitchingIsBacked ==
  \A c \in Configs :
    ccPhase[c] = "Switching" =>
      /\ nsPhase[c] = "Completed"
      /\ nhPhase[c] # Absent /\ nhNode[c] \in Nodes

\* The verdict of a selection or of a scaling step is final, although both
\* reconcilers run again on a stale Running copy after it was written.
VerdictsAreFinal ==
  [][\A c \in Configs :
       /\ nsPhase[c] \in {"Completed", "Failed"} => nsPhase'[c] = nsPhase[c]
       /\ nhPhase[c] \in {"Completed", "Failed"} => nhPhase'[c] = nhPhase[c]]_vars

-----------------------------------------------------------------------------
(***************************************************************************)
(* Properties of operation without faults; single faults break them.       *)
(***************************************************************************)

\* Switching nodes off never leaves fewer than minNodes machines that are on
\* and stay on, however the steps of consecutive requests interleave.
NeverBelowMinimum == Cardinality({n \in Nodes : power[n] = "on"}) >= MinNodes

\* A node that stops or is off is cordoned, so the scheduler puts no pod on a
\* machine that is going away; scaleUp makes it schedulable once it is Ready.
OffNodesStayCordoned ==
  \A n \in Nodes : power[n] \in {"stopping", "off"} => cordoned[n]

\* A selection that reports it found no node has started no scaling step.
FailedSelectionStartedNothing ==
  \A c \in Configs : nsPhase[c] = "Failed" => nhPhase[c] = Absent

\* The power-cycle annotation counts a scale-up once.
PowerCyclesCountedOnce ==
  \A n \in Nodes :
    cycles[n] =< Cardinality({c \in Configs : nhNode[c] = n /\ nsLabel[c] > 0})

\* The machine of request c has reached the state the request asked for.
MachineDone(c) ==
  \/ nhPhase[c] = "Completed"
  \/ nhStep[c] \in {"uncordon", "annotate", "complete"}
  \/ nhStep[c] = "awaitReady" /\ power[nhNode[c]] = "on"
  \/ nhStep[c] = "awaitOff" /\ power[nhNode[c]] = "off"

\* A request whose selection exists and whose machine has still to be switched, and
\* one that may still count the workers and create its selection.
Pending(c) == nsPhase[c] \notin {Absent, "Failed"} /\ ~MachineDone(c)
Open(c) ==
  \/ Pending(c)
  \/ ccPhase[c] \in {Unset, "Stable"} /\ nsPhase[c] = Absent

\* The operator serves one request at a time, moves at most one machine for it, in
\* the direction it asks for and within the bounds, and has done so when the next
\* request is created: a node stops serving when its shutdown is accepted and serves
\* again when it is Ready.
InState(state) == {n \in Nodes : power[n] = state}
Pool == INSTANCE WorkerPool WITH serving  <- InState("on"),
                                 starting <- InState("booting"),
                                 stopping <- InState("stopping"),
                                 asked    <- Existing(ccPhase),
                                 required <- ccRequired,
                                 open     <- {c \in Configs : Open(c)}
ResizesPool == Pool!PoolSpec

-----------------------------------------------------------------------------
(***************************************************************************)
(* What the source says and the code does not do.                          *)
(***************************************************************************)

\* A failed selection fails its request.
FailedSelectionFailsRequest ==
  \A c \in Configs : nsPhase[c] = "Failed" ~> ccPhase[c] = "Failed"

-----------------------------------------------------------------------------
\* A request one node away from the active workers, which a node can serve,
\* reaches a final phase unless something fails, so the forecaster is not
\* blocked by it for ever.
OneStepAway(c) ==
  \/ ccRequired[c] = ActiveNodes \/ ccRequired[c] = ActiveNodes - 1
  \/ ccRequired[c] = ActiveNodes + 1 /\ ScaleUpCandidates # {}

OneStepRequestsEnd ==
  \A c \in Configs :
    ccPhase[c] = Unset /\ OneStepAway(c)
      ~> ccPhase[c] \in TerminalPhases \/ faults > 0

\* The same for a request that asks for no more workers than are active, also
\* when the BMC fails or a wait reaches its limit.
ScaleDownsEnd ==
  \A c \in Configs :
    ccPhase[c] = Unset /\ ccRequired[c] =< ActiveNodes
      ~> ccPhase[c] \in TerminalPhases
=============================================================================
