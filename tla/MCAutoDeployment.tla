-------------------------- MODULE MCAutoDeployment --------------------------
(* Small instances of AutoDeployment for TLC.                              *)
EXTENDS AutoDeployment, TLC

CONSTANTS c1, c2

CallerSymmetry == Permutations({c1, c2})
=============================================================================
