-------------------------------- MODULE Mailbox --------------------------------
(***************************************************************************)
(* What delivery promises the members of a group, without spool, router,   *)
(* queues and recovery: a message is due to everyone who has been a member *)
(* since before it was posted, and it is settled once each of them has it  *)
(* waiting, has taken it, or is known to have lost it for one of two       *)
(* causes.  Delivery implements this (DeliveryMailbox).                    *)
(***************************************************************************)
CONSTANTS
    Users, Messages,
    Founders, Opened,     \* the first members; who has a mailbox at the start
    Nobody

VARIABLES
    status,               \* how far a message has come
    sender,               \* who posted it
    members,              \* the members of the group
    leaving,              \* who has left and whose mailbox is still to be swept
    opened,               \* who has a mailbox
    due,                  \* due[m]: members without a break since before m was posted
    waiting, taken,       \* waiting[m]: whom the next poll hands m; taken[m]: who confirmed it
    lost                  \* lost[m]: who will not be handed m, for a cause

message == <<status, sender>>
group == <<members, leaving>>
boxes == <<opened, waiting, taken, lost>>
vars == <<message, group, due, boxes>>

Stages == {"none", "posted", "accepted", "stored", "settled", "refused", "archived"}

Init ==
    /\ status = [m \in Messages |-> "none"]
    /\ sender = [m \in Messages |-> Nobody]
    /\ members = Founders /\ leaving = {}
    /\ opened = Opened
    /\ due = [m \in Messages |-> {}]
    /\ waiting = [m \in Messages |-> {}]
    /\ taken = [m \in Messages |-> {}]
    /\ lost = [m \in Messages |-> {}]

-----------------------------------------------------------------------------
(***************************************************************************)
(* A message is posted, or an announcement accepted at once.               *)
(***************************************************************************)
New(m, u, stage) ==
    /\ status[m] = "none"
    /\ status' = [status EXCEPT ![m] = stage]
    /\ sender' = [sender EXCEPT ![m] = u]

Post(m, u) ==
    /\ \E stage \in {"posted", "accepted"} : New(m, u, stage)
    /\ due' = [due EXCEPT ![m] = members \ {u}]
    /\ UNCHANGED <<group, boxes>>

(***************************************************************************)
(* u joins, or is added once more: nothing from before is due to u.  The   *)
(* announcement m is.                                                      *)
(***************************************************************************)
Join(u, m, by) ==
    /\ New(m, by, "accepted")
    /\ members' = members \cup {u}
    /\ due' = [n \in Messages |-> IF n = m THEN members' \ {by} ELSE due[n] \ {u}]
    /\ UNCHANGED <<leaving, boxes>>

Leave(u) ==
    /\ members' = members \ {u}
    /\ leaving' = leaving \cup {u}
    /\ due' = [m \in Messages |-> due[m] \ {u}]
    /\ UNCHANGED <<message, boxes>>

Move(m, before, after) ==
    /\ status[m] = before
    /\ status' = [status EXCEPT ![m] = after]
    /\ UNCHANGED <<sender, group, due, boxes>>

Accept(m) == Move(m, "posted", "accepted")
Abandon(m) == Move(m, "posted", "refused")
Refuse(m) == Move(m, "accepted", "refused")
Store(m) == Move(m, "accepted", "stored")

(***************************************************************************)
(* A message is settled only when nobody it is due to has missed it.       *)
(***************************************************************************)
Settle(m) ==
    /\ due[m] \subseteq waiting[m] \cup taken[m] \cup lost[m]
    /\ Move(m, "stored", "settled")

-----------------------------------------------------------------------------
(***************************************************************************)
(* The mailboxes.  A message is pushed until it is settled, never to its   *)
(* sender; it leaves a mailbox by being taken, or when it is not due to    *)
(* the user or has been taken before.                                      *)
(***************************************************************************)
Open(u) ==
    /\ opened' = opened \cup {u}
    /\ UNCHANGED <<message, group, due, waiting, taken, lost>>

Push(u, m) ==
    /\ status[m] = "stored" /\ u # sender[m]
    /\ opened' = opened \cup {u}
    /\ waiting' = [waiting EXCEPT ![m] = @ \cup {u}]
    /\ UNCHANGED <<message, group, due, taken, lost>>

Take(u, m) ==
    /\ u \in waiting[m] \cap members
    /\ waiting' = [waiting EXCEPT ![m] = @ \ {u}]
    /\ taken' = [taken EXCEPT ![m] = @ \cup {u}]
    /\ UNCHANGED <<message, group, due, opened, lost>>

Drop(u, m) ==
    /\ u \in waiting[m]
    /\ u \in due[m] => u \in taken[m]
    /\ waiting' = [waiting EXCEPT ![m] = @ \ {u}]
    /\ UNCHANGED <<message, group, due, opened, taken, lost>>

(***************************************************************************)
(* The two causes of a loss: the mailbox of a user who never had one       *)
(* cannot be opened; the sweep after a leave comes upon the messages of a  *)
(* new membership.                                                         *)
(***************************************************************************)
Miss(u, m) ==
    /\ status[m] = "stored" /\ u \notin opened
    /\ opened' \in {opened, opened \cup {u}}
    /\ lost' = [lost EXCEPT ![m] = @ \cup {u}]
    /\ UNCHANGED <<message, group, due, waiting, taken>>

Sweep(u) ==
    /\ u \in leaving
    /\ leaving' = leaving \ {u}
    /\ waiting' = [m \in Messages |-> waiting[m] \ {u}]
    /\ lost' = [m \in Messages |-> lost[m] \cup (waiting[m] \cap {u})]
    /\ UNCHANGED <<message, members, due, opened, taken>>

(***************************************************************************)
(* Retention takes stored messages away, waiting or not.  A restart        *)
(* abandons what was not accepted, and every sweep.                        *)
(***************************************************************************)
Archive(S) ==
    /\ \A m \in S : status[m] \in {"stored", "settled"}
    /\ status' = [m \in Messages |-> IF m \in S THEN "archived" ELSE status[m]]
    /\ waiting' = [m \in Messages |-> IF m \in S THEN {} ELSE waiting[m]]
    /\ lost' = [m \in Messages |-> IF m \in S THEN {} ELSE lost[m]]
    /\ UNCHANGED <<sender, group, due, opened, taken>>

Restart ==
    /\ status' = [m \in Messages |-> IF status[m] = "posted" THEN "refused" ELSE status[m]]
    /\ leaving' = {}
    /\ UNCHANGED <<sender, members, due, boxes>>

Next ==
    \/ \E m \in Messages, u \in Users :
          \/ Post(m, u) \/ \E by \in Users : Join(u, m, by)
          \/ Push(u, m) \/ Take(u, m) \/ Drop(u, m) \/ Miss(u, m)
    \/ \E m \in Messages : Accept(m) \/ Abandon(m) \/ Refuse(m) \/ Store(m) \/ Settle(m)
    \/ \E u \in Users : Leave(u) \/ Open(u) \/ Sweep(u)
    \/ \E S \in SUBSET Messages : Archive(S)
    \/ Restart

Spec == Init /\ [][Next]_vars

-----------------------------------------------------------------------------
TypeOK ==
    /\ status \in [Messages -> Stages]
    /\ sender \in [Messages -> Users \cup {Nobody}]
    /\ members \subseteq Users /\ leaving \subseteq Users /\ opened \subseteq Users
    /\ {due, waiting, taken, lost} \subseteq [Messages -> SUBSET Users]

(***************************************************************************)
(* The promise: whom a settled message is due to has it waiting, has taken *)
(* it, or lost it for a cause.                                             *)
(***************************************************************************)
Promise ==
    \A m \in Messages :
        status[m] = "settled" => due[m] \subseteq waiting[m] \cup taken[m] \cup lost[m]
=============================================================================
