------------------------------ MODULE WorkerPool ------------------------------
(***************************************************************************)
(* What the operator promises to whoever requests a number of worker       *)
(* machines: one request is served at a time, it moves at most one machine *)
(* and in the direction it asks for, the next request waits until that     *)
(* machine has arrived, and the pool that serves stays between minNodes    *)
(* and maxNodes.  Phases, selections, caches and queues do not appear.     *)
(***************************************************************************)
EXTENDS Integers, FiniteSets

CONSTANTS Configs, Nodes, Requests, MinNodes, MaxNodes, InitiallyOn

VARIABLES
  serving,   \* machines that are on
  starting,  \* machines that were switched on and do not serve yet
  stopping,  \* machines that were told to shut down
  asked,     \* requests so far
  required,  \* the number of machines a request asks for
  open       \* requests that may have a machine moved

pool     == <<serving, starting, stopping>>
requests == <<asked, required>>
poolVars == <<pool, requests, open>>

PoolInit ==
  /\ serving = InitiallyOn /\ starting = {} /\ stopping = {}
  /\ asked = {} /\ required = [c \in Configs |-> 0] /\ open = {}

Steady == starting = {} /\ stopping = {}

Ask(c, k) ==
  /\ Steady /\ open = {} /\ c \notin asked
  /\ asked' = asked \cup {c} /\ required' = [required EXCEPT ![c] = k]
  /\ open' = {c}
  /\ UNCHANGED pool

\* A request ends, or is bound to end, without a machine.
GiveUp ==
  /\ Steady /\ open # {} /\ open' = {}
  /\ UNCHANGED <<pool, requests>>

Enlist(n) ==
  /\ Steady /\ n \notin serving
  /\ Cardinality(serving) < MaxNodes
  /\ \E c \in open : required[c] > Cardinality(serving)
  /\ starting' = {n}
  /\ UNCHANGED <<serving, stopping, requests, open>>

Enlisted(n) ==
  /\ n \in starting
  /\ starting' = starting \ {n} /\ serving' = serving \cup {n}
  /\ open' = {}
  /\ UNCHANGED <<stopping, requests>>

Retire(n) ==
  /\ Steady /\ n \in serving
  /\ Cardinality(serving) > MinNodes
  /\ \E c \in open : required[c] < Cardinality(serving)
  /\ serving' = serving \ {n} /\ stopping' = {n}
  /\ UNCHANGED <<starting, requests, open>>

Retired(n) ==
  /\ n \in stopping
  /\ stopping' = stopping \ {n}
  /\ open' = {}
  /\ UNCHANGED <<serving, starting, requests>>

PoolNext ==
  \/ \E c \in Configs, k \in Requests : Ask(c, k)
  \/ GiveUp
  \/ \E n \in Nodes : Enlist(n) \/ Enlisted(n) \/ Retire(n) \/ Retired(n)

PoolSpec == PoolInit /\ [][PoolNext]_poolVars
=============================================================================
