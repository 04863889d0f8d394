----------------------------- MODULE MCApproval -----------------------------
(***************************************************************************)
(* Approval for TLC: the users are interchangeable.                        *)
(***************************************************************************)
EXTENDS Approval, TLC

UserSymmetry == Permutations(Users)
=============================================================================
