----------------------------- MODULE MCSessions -----------------------------
(* Instances of Sessions for TLC.                                            *)
EXTENDS Sessions, TLC

CONSTANTS a, b, k1

MCSymmetry == Permutations(Logins)

(* Everyone is about one account, but for a reset that may be of another one. *)
MCAccounts == {[[t \in Threads |-> a] EXCEPT ![k1] = u] : u \in {a, b}}
=============================================================================
