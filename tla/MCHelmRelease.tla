---------------------------- MODULE MCHelmRelease ----------------------------
(***************************************************************************)
(* HelmRelease for TLC: the runs are interchangeable, and the CRDs are.    *)
(***************************************************************************)
EXTENDS HelmRelease, TLC

RunAndCrdSymmetry == Permutations(Runs) \cup Permutations(Crds)
=============================================================================
