------------------------------ MODULE MCMembership ------------------------------
(***************************************************************************)
(* Instances of Membership for TLC.                                        *)
(***************************************************************************)
EXTENDS Membership, TLC

Alike == Permutations(Users \ Founders) \cup Permutations(Adders)
=============================================================================
