--------------------------- MODULE MCUpdateEvents ---------------------------
(* Instances of UpdateEvents for TLC. *)
EXTENDS UpdateEvents

OneUser == {1}
TwoDevices == {<<1, 1>>, <<1, 2>>}
=============================================================================
