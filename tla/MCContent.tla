------------------------------- MODULE MCContent -------------------------------
(***************************************************************************)
(* Instances of Content for TLC.                                           *)
(***************************************************************************)
EXTENDS Content, TLC

Alike == Permutations(Deletes)
=============================================================================
