----------------------------- MODULE MCForecaster -----------------------------
(***************************************************************************)
(* Instances of Forecaster for TLC: two names, so that a second request    *)
(* could be opened beside the first.                                       *)
(***************************************************************************)
EXTENDS Forecaster, TLC

CONSTANTS r1, r2

MCSymmetry == Permutations(Names)
=============================================================================
