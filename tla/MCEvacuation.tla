---------------------------- MODULE MCEvacuation ----------------------------
(***************************************************************************)
(* Instances of Evacuation for TLC: an application pod, which a new name   *)
(* replaces, a system pod, which keeps its name, and a DaemonSet's pod.    *)
(***************************************************************************)
EXTENDS Evacuation, TLC

CONSTANTS a1, a2, s1, d1

TakeTurns == [p \in Pods |-> CASE p = a1 -> a2
                               [] p = a2 -> a1
                               [] OTHER  -> p]
=============================================================================
