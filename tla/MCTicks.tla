-------------------------------- MODULE MCTicks --------------------------------
(***************************************************************************)
(* Instances of Ticks for TLC.                                             *)
(***************************************************************************)
EXTENDS Ticks, TLC

Alike == Permutations(Requests) \cup Permutations(Messages \ System)
=============================================================================
