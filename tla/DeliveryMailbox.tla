--------------------------- MODULE DeliveryMailbox ---------------------------
(***************************************************************************)
(* Delivery implements Mailbox.                                            *)
(***************************************************************************)
EXTENDS Delivery

(***************************************************************************)
(* A message is due to the members whose marker is older; what is in a     *)
(* queue counts as long as its message is in the group.                    *)
(***************************************************************************)
StatusOf(m) ==
    CASE place[m] = "none" -> "none"
      [] place[m] = "tmp" -> "posted"
      [] place[m] = "incoming" -> "accepted"
      [] place[m] = "group" -> IF m \in routed THEN "settled" ELSE "stored"
      [] place[m] = "archived" -> "archived"
      [] OTHER -> "refused"

DueTo(m) ==
    IF place[m] = "none" THEN {} ELSE {u \in members : since[u] < m /\ u # from[m]}
BoxedFor(m) == IF place[m] = "group" THEN {u \in Users : Waiting(u, m)} ELSE {}
LostBy(m) == IF place[m] = "group" THEN {u \in Users : <<u, m>> \in skipped \cup swept} ELSE {}

Status == [m \in Mids |-> StatusOf(m)]
Leaving == {u \in Users : req[u].op = "sweep"}
Due == [m \in Mids |-> DueTo(m)]
Boxed == [m \in Mids |-> BoxedFor(m)]
Lost == [m \in Mids |-> LostBy(m)]

Mailbox == INSTANCE Mailbox WITH
    Messages <- Mids, Opened <- Homes,
    status <- Status, sender <- from, leaving <- Leaving, opened <- home,
    due <- Due, waiting <- Boxed, taken <- delivered, lost <- Lost

(***************************************************************************)
(* Every step of the spool, the router, the queues, retention and recovery *)
(* is a step of the mailbox or none: no message is settled before those it *)
(* is due to have it, leaves a mailbox unread but for the two causes, is   *)
(* pushed after it was settled, or refused after it was stored             *)
(* (router.py:35-43, 137-167).                                             *)
(***************************************************************************)
ImplementsMailbox == Mailbox!Spec
=============================================================================
