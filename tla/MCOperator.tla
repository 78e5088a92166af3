------------------------------ MODULE MCOperator ------------------------------
(***************************************************************************)
(* Instances of Operator for TLC: three nodes, one or two requests.        *)
(***************************************************************************)
EXTENDS Operator, TLC

CONSTANTS n1, n2, n3, c1, c2

\* Initially all nodes of InitiallyOn are alike, and all others.  Not for runs
\* with liveness properties.
MCSymmetry == Permutations(InitiallyOn) \cup Permutations(Nodes \ InitiallyOn)
                \cup Permutations(Configs)
=============================================================================
