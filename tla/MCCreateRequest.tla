-------------------------- MODULE MCCreateRequest --------------------------
(***************************************************************************)
(* CreateRequest for TLC: the runs, and with them their keys, are          *)
(* interchangeable.                                                        *)
(***************************************************************************)
EXTENDS CreateRequest, TLC

RunSymmetry == Permutations(Runs)
=============================================================================
