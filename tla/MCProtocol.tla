---------------------------- MODULE MCProtocol ----------------------------
(***************************************************************************)
(* Values for model-checking Protocol.  The inputs of /rate are a value    *)
(* below the range, one in it and one above it: clamped, they are the      *)
(* rates 0, 1 and MaxRate = 2.                                             *)
(***************************************************************************)
EXTENDS Protocol, TLC

MCRateInputs == {-1, 1, 3}

\* For liveness: one rate and none.
MCTwoRates == {0, 1}

\* Monitors are interchangeable.
MonitorSymmetry == Permutations(Monitors)
=============================================================================
