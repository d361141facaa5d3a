-------------------------------- MODULE Ticks --------------------------------
(***************************************************************************)
(* The ticks of one sender's messages: confirm and viewed requests of      *)
(* several devices stamp the flag files of a message one file operation at *)
(* a time and queue ~d~ and ~r~ entries to the sender, while members leave,*)
(* retention archives messages, the disk refuses and the process dies.     *)
(***************************************************************************)
EXTENDS Naturals, FiniteSets

CONSTANTS
    Messages, System,     \* the messages, and those the server wrote
    Sender, Recipients,   \* who sent them, and the other members
    Requests,             \* request threads
    MaxLeaves, MaxArchived, MaxFaults     \* bounds

ASSUME TicksAssumption ==
    /\ Messages # {} /\ System \subseteq Messages
    /\ Sender \notin Recipients
    /\ {MaxLeaves, MaxArchived, MaxFaults} \subseteq Nat

VARIABLES
    members, gone,        \* who is in the group; the messages retention moved away
    entries,              \* the message entries of the queues: <<m, u>>
    flags,                \* deliveredto/<u> and readby/<u>: <<"d" | "r", m, u>>
    ticks,                \* the tick entries that the sender's queue was given
    req,                  \* each request: where it is and on what
    lost,                 \* history: flags whose ~tick~ a failure or a crash prevented
    left, faults

group == <<members, gone>>
bounds == <<left, faults>>
vars == <<group, entries, flags, ticks, req, lost, bounds>>

People == Recipients \cup {Sender}
Kinds == {"d", "r"}
Flags == Kinds \X Messages \X People

Closed == [at |-> "idle", op |-> "confirm", user |-> Sender, todo |-> {}, seen |-> {},
           m |-> CHOOSE m \in Messages : TRUE, kind |-> "d"]

Init ==
    /\ members = People /\ gone = {}
    /\ entries = Messages \X Recipients
    /\ flags = {} /\ ticks = {}
    /\ req = [t \in Requests |-> Closed]
    /\ lost = {}
    /\ left = 0 /\ faults = 0

-----------------------------------------------------------------------------
(***************************************************************************)
(* A request takes the items of its batch one after the other.             *)
(***************************************************************************)
Goto(t, at) == req' = [req EXCEPT ![t].at = at]
NextItem(t) ==
    req' = [req EXCEPT ![t].at = "item", ![t].m = Closed.m, ![t].kind = Closed.kind]

(* FileNotFoundError in the body of the loop: the next item. *)
VanishedSlip(t) == Goto(t, "failed")

Vanished(t) == NextItem(t)

Confirm(t, u, batch) ==
    /\ req[t].at = "idle"
    /\ req' = [req EXCEPT ![t] = [Closed EXCEPT !.at = "item", !.user = u, !.todo = batch]]
    /\ UNCHANGED <<group, entries, flags, ticks, lost, bounds>>

Viewed(t, u, batch) ==
    /\ req[t].at = "idle"
    /\ u \in members
    /\ req' = [req EXCEPT ![t] = [Closed EXCEPT !.at = "item", !.op = "viewed", !.user = u,
                                                !.todo = batch]]
    /\ UNCHANGED <<group, entries, flags, ticks, lost, bounds>>

(* The link is there; its message is, and the user a member: stamp it. *)
ConfirmLooks(t, m) ==
    /\ req[t].at = "item" /\ req[t].op = "confirm" /\ m \in req[t].todo
    /\ LET u == req[t].user
           item == [req[t] EXCEPT !.todo = @ \ {m}]
           moot == m \in gone \/ u \notin members
       IN  req' = [req EXCEPT ![t] =
               IF <<m, u>> \notin entries THEN item
               ELSE [item EXCEPT !.m = m, !.at = IF moot THEN "unlink" ELSE "look"]]
    /\ UNCHANGED <<group, entries, flags, ticks, lost, bounds>>

(* can_see, and neither the reader's own message nor the server's. *)
ViewedLooks(t, m) ==
    /\ req[t].at = "item" /\ req[t].op = "viewed" /\ m \in req[t].todo
    /\ LET u == req[t].user
           item == [req[t] EXCEPT !.todo = @ \ {m}]
           may == u \in members /\ m \notin gone /\ u # Sender /\ m \notin System
       IN  req' = [req EXCEPT ![t] =
               IF may THEN [item EXCEPT !.m = m, !.at = "look", !.seen = @ \cup {m}] ELSE item]
    /\ UNCHANGED <<group, entries, flags, ticks, lost, bounds>>

-----------------------------------------------------------------------------
(***************************************************************************)
(* _stamp: for "r", a look at the marker, the stamp "d" nested, and only   *)
(* then the marker; so a viewed request looks at readby/, stamps "d" and   *)
(* goes on to touch readby/.                                               *)
(***************************************************************************)
Flag(t) == <<req[t].kind, req[t].m, req[t].user>>
Read(t) == <<"r", req[t].m, req[t].user>>

(* Where a stamp that is done goes on: viewed from "d" to "r". *)
Onward(t) ==
    IF req[t].op = "confirm" THEN Goto(t, "unlink")
    ELSE IF req[t].kind = "d" THEN req' = [req EXCEPT ![t].at = "touch", ![t].kind = "r"]
    ELSE NextItem(t)

StampLooksRead(t) ==
    /\ req[t].at = "look" /\ req[t].op = "viewed"
    /\ IF req[t].m \in gone THEN Vanished(t)
       ELSE IF Read(t) \in flags THEN NextItem(t) ELSE Goto(t, "lookd")
    /\ UNCHANGED <<group, entries, flags, ticks, lost, bounds>>

StampLooks(t) ==
    /\ req[t].at = (IF req[t].op = "viewed" THEN "lookd" ELSE "look")
    /\ IF req[t].m \in gone THEN Vanished(t)
       ELSE IF Flag(t) \in flags THEN Onward(t) ELSE Goto(t, "touch")
    /\ UNCHANGED <<group, entries, flags, ticks, lost, bounds>>

StampTouches(t) ==
    /\ req[t].at = "touch"
    /\ IF req[t].m \in gone THEN Vanished(t) /\ UNCHANGED flags
       ELSE Goto(t, "tell") /\ flags' = flags \cup {Flag(t)}
    /\ UNCHANGED <<group, entries, ticks, lost, bounds>>

(* Who sent it and who wrote it decides; queue_add is idempotent. *)
Worth(t) == req[t].user # Sender /\ req[t].m \notin System

TellsIf(t, worth) ==
    /\ req[t].at = "tell"
    /\ IF req[t].m \in gone THEN Vanished(t) /\ UNCHANGED ticks
       ELSE Onward(t) /\ ticks' = IF worth THEN ticks \cup {Flag(t)} ELSE ticks
    /\ UNCHANGED <<group, entries, flags, lost, bounds>>

StampTellsSlip(t) == TellsIf(t, Worth(t) /\ ~(req[t].op = "viewed" /\ req[t].kind = "d"))

StampTells(t) == TellsIf(t, Worth(t))

(* A full disk: any error but FileNotFoundError ends the request. *)
StampFails(t) ==
    /\ req[t].at \in {"touch", "tell"}
    /\ faults < MaxFaults
    /\ faults' = faults + 1
    /\ Goto(t, "failed")
    /\ lost' = IF req[t].at = "tell" THEN lost \cup {Flag(t)} ELSE lost
    /\ UNCHANGED <<group, entries, flags, ticks, left>>

(* A sender who is off the roster, or whose queue cannot be made, gets no tick:
   queue_add returns and the request goes on. *)
StampGivesUp(t) ==
    /\ req[t].at = "tell" /\ req[t].m \notin gone /\ Worth(t)
    /\ faults < MaxFaults
    /\ faults' = faults + 1
    /\ Onward(t)
    /\ lost' = lost \cup {Flag(t)}
    /\ UNCHANGED <<group, entries, flags, ticks, left>>

ConfirmUnlinks(t) ==
    /\ req[t].at = "unlink"
    /\ entries' = entries \ {<<req[t].m, req[t].user>>}
    /\ NextItem(t)
    /\ UNCHANGED <<group, flags, ticks, lost, bounds>>

Answer(t) ==
    /\ req[t].at = "item" /\ req[t].todo = {}
    /\ Goto(t, "answered")
    /\ UNCHANGED <<group, entries, flags, ticks, lost, bounds>>

Ends(t) ==
    /\ req[t].at \in {"answered", "failed"}
    /\ req' = [req EXCEPT ![t] = Closed]
    /\ UNCHANGED <<group, entries, flags, ticks, lost, bounds>>

-----------------------------------------------------------------------------
(* A member leaves: the marker goes, then the entries are swept. *)
Leave(u) ==
    /\ u \in members /\ left < MaxLeaves
    /\ left' = left + 1
    /\ members' = members \ {u}
    /\ UNCHANGED <<gone, entries, flags, ticks, req, lost, faults>>

Sweep(u) ==
    /\ u \notin members
    /\ \E m \in Messages : <<m, u>> \in entries
    /\ entries' = {e \in entries : e[2] # u}
    /\ UNCHANGED <<group, flags, ticks, req, lost, bounds>>

(* Retention moves the day folder of a message; a poll drops the entries. *)
Archive(m) ==
    /\ m \notin gone /\ Cardinality(gone) < MaxArchived
    /\ gone' = gone \cup {m}
    /\ UNCHANGED <<members, entries, flags, ticks, req, lost, bounds>>

PollDrops(m, u) ==
    /\ m \in gone /\ <<m, u>> \in entries
    /\ entries' = entries \ {<<m, u>>}
    /\ UNCHANGED <<group, flags, ticks, req, lost, bounds>>

Crash ==
    /\ faults < MaxFaults
    /\ faults' = faults + 1
    /\ lost' = lost \cup {Flag(t) : t \in {x \in Requests : req[x].at = "tell"}}
    /\ req' = [t \in Requests |-> Closed]
    /\ UNCHANGED <<group, entries, flags, ticks, left>>

Step(t) ==
    \/ \E m \in Messages : (ConfirmLooks(t, m) \/ ViewedLooks(t, m))
    \/ StampLooksRead(t) \/ StampLooks(t) \/ StampTouches(t) \/ StampTells(t)
    \/ ConfirmUnlinks(t) \/ Answer(t) \/ Ends(t)

Next ==
    \/ \E t \in Requests :
        \/ \E batch \in (SUBSET Messages) \ {{}} :
            \/ \E u \in Recipients : Confirm(t, u, batch)
            \/ \E u \in People : Viewed(t, u, batch)
        \/ Step(t) \/ StampFails(t) \/ StampGivesUp(t)
    \/ \E u \in Recipients : Leave(u) \/ Sweep(u)
    \/ \E m \in Messages : Archive(m) \/ \E u \in Recipients : PollDrops(m, u)
    \/ Crash

Spec == Init /\ [][Next]_vars

-----------------------------------------------------------------------------
TypeOK ==
    /\ members \subseteq People /\ gone \subseteq Messages
    /\ entries \subseteq Messages \X Recipients
    /\ flags \subseteq Flags /\ ticks \subseteq Flags /\ lost \subseteq Flags
    /\ left \in 0..MaxLeaves /\ faults \in 0..MaxFaults
    /\ req \in [Requests -> [at : {"idle", "item", "look", "lookd", "touch", "tell", "unlink",
                                   "answered", "failed"},
                             op : {"confirm", "viewed"}, user : People,
                             todo : SUBSET Messages, seen : SUBSET Messages,
                             m : Messages, kind : Kinds]]

(***************************************************************************)
(* A read message counts as delivered, in the files and in what the sender *)
(* can come to know (api.py:373-384): whatever devices race and whoever    *)
(* dies, readby/ never holds a user whom deliveredto/ does not, and a blue *)
(* tick without a grey one is only due to a grey one that is on its way,   *)
(* or was lost on it, or to a message archived meanwhile.                  *)
(***************************************************************************)
Telling(f) == \E t \in Requests : req[t].at = "tell" /\ Flag(t) = f

ReadImpliesDelivered ==
    \A m \in Messages, u \in People :
        LET d == <<"d", m, u>>
            r == <<"r", m, u>>
        IN  /\ r \in flags => d \in flags
            /\ r \in ticks => m \in gone \/ d \in ticks \cup lost \/ Telling(d)

(***************************************************************************)
(* A flag is set once and suppresses its tick from then on (api.py:382):   *)
(* so whoever set it tells the sender, unless the disk refused, the sender *)
(* had no queue to tell them in, the process died or the message was       *)
(* archived in between; and the sender is told of nothing that did not     *)
(* happen, and of neither their own messages nor the server's.             *)
(***************************************************************************)
FlagsAreTold ==
    /\ \A f \in flags : \/ f \in ticks \cup lost \/ Telling(f)
                        \/ f[2] \in gone \cup System \/ f[3] = Sender
    /\ \A f \in ticks : f \in flags /\ f[2] \notin System /\ f[3] # Sender

(***************************************************************************)
(* One archived message does not cost the batch its receipts (api.py:450): *)
(* a request that comes to an end without an error of the disk has been    *)
(* through its batch, and a viewed request has marked every message that   *)
(* the reader could see and that is still there.  And a message entry      *)
(* leaves the queue of a member only delivered.                            *)
(***************************************************************************)
ReceiptsAreKept ==
    /\ \A t \in Requests :
        req[t].at = "answered" \/ (req[t].at = "failed" /\ faults = 0) =>
            /\ req[t].todo = {}
            /\ \A m \in req[t].seen \ gone : <<"r", m, req[t].user>> \in flags
    /\ \A m \in Messages \ gone, u \in Recipients \cap members :
        <<m, u>> \in entries \/ <<"d", m, u>> \in flags
=============================================================================
