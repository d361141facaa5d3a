------------------------------ MODULE Membership ------------------------------
(***************************************************************************)
(* One group: its foundation, concurrent adds and leaves, the join gate of *)
(* every read path, and the clock that ids and join stamps are drawn from, *)
(* with a wall clock that steps back, a high-water mark whose write may    *)
(* fail, and restarts.  A message is the number of its minting; its id is  *)
(* what the clock gave it.                                                 *)
(***************************************************************************)
EXTENDS Naturals, Sequences, FiniteSets

CONSTANTS
    Users, Founders,      \* who may be a member; who founds the group
    Adders, Readers,      \* request threads that add a user, that read messages
    MaxMembers,           \* config.MAX_GROUP_MEMBERS
    Absent, Empty,        \* no marker; a marker without a stamp
    MaxTs, MaxMessages, MaxLeaves, MaxFaults, MaxRestarts     \* bounds

ASSUME MembershipAssumption ==
    /\ Founders \subseteq Users /\ IsFiniteSet(Users) /\ IsFiniteSet(Adders)
    /\ MaxMembers \in Nat /\ Cardinality(Founders) <= MaxMembers
    /\ Absent # Empty /\ Absent \notin Nat /\ Empty \notin Nat
    /\ {MaxTs, MaxMessages, MaxLeaves, MaxFaults, MaxRestarts} \subseteq Nat

VARIABLES
    last, hwm,          \* Store._last_ms, and id_hwm on disk
    group,              \* "none", "building" in tmp/, "there"
    founded,            \* the stamp of the founders' markers in tmp/
    id,                 \* the ids of the messages minted
    tmp,                \* the messages being written in tmp/
    incoming, stored,   \* the messages in incoming/, and in the group
    marker,             \* members/<u>: its stamp
    add,                \* an add request: where it is, for whom, its stamp
    read,               \* a read: where it is, whose, the gate, what there was and what it shows
    base,               \* history: base[u], the messages before the stamp in u's marker
    stray,              \* history: in incoming/ at a restart that set the clock back
    faults, restarts, leaves

clock == <<last, hwm>>
messages == <<id, tmp, incoming, stored>>
markers == <<marker, base>>
bounds == <<faults, restarts, leaves>>
vars == <<clock, group, founded, messages, markers, add, read, stray, bounds>>

Minted == 1..Len(id)
Live == tmp \cup incoming \cup stored
Stamped(u) == marker[u] \notin {Absent, Empty}
Members == {u \in Users : marker[u] # Absent}

Idle == [at |-> "idle", user |-> Absent, stamp |-> 0, base |-> 0, orphan |-> FALSE]
Closed == [at |-> "idle", user |-> Absent, gate |-> 0, base |-> 0, had |-> {}, shown |-> {},
           disturbed |-> FALSE]

Init ==
    /\ last = 0 /\ hwm = 0
    /\ group = "none" /\ founded = [stamp |-> 0, base |-> 0]
    /\ id = <<>> /\ tmp = {} /\ incoming = {} /\ stored = {}
    /\ marker = [u \in Users |-> Absent]
    /\ base = [u \in Users |-> 0]
    /\ add = [a \in Adders |-> Idle]
    /\ read = [r \in Readers |-> Closed]
    /\ stray = {}
    /\ faults = 0 /\ restarts = 0 /\ leaves = 0

-----------------------------------------------------------------------------
(***************************************************************************)
(* next_ts: strictly above every stamp of this process, whatever the wall  *)
(* clock shows: it may be stepped back or forth at any time.  The          *)
(* high-water mark is written if it can be.                                *)
(***************************************************************************)
NextTs(now) == IF now > last THEN now ELSE last + 1

Draw ==
    /\ \E now \in 0..MaxTs : last' = NextTs(now)
    /\ last' <= MaxTs
    /\ \/ hwm' = last' /\ UNCHANGED faults
       \/ faults < MaxFaults /\ faults' = faults + 1 /\ UNCHANGED hwm

(***************************************************************************)
(* _clock_floor: the join stamps and the newest stored message.            *)
(***************************************************************************)
FloorSlip == {id[m] : m \in stored}
Floor == {marker[u] : u \in {x \in Users : Stamped(x)}} \cup {id[m] : m \in stored}

Restart ==
    /\ restarts < MaxRestarts
    /\ restarts' = restarts + 1
    /\ last' \in {hwm} \cup Floor /\ \A t \in {hwm} \cup Floor : t <= last'
    /\ tmp' = {}
    /\ stray' = stray \cup {m \in incoming : id[m] > last'}
    /\ group' = IF group = "building" THEN "none" ELSE group
    /\ founded' = [stamp |-> 0, base |-> 0]
    /\ add' = [a \in Adders |-> Idle]
    /\ read' = [r \in Readers |-> Closed]
    /\ UNCHANGED <<hwm, id, incoming, stored, markers, faults, leaves>>

-----------------------------------------------------------------------------
(***************************************************************************)
(* create_group, _publish_group: one stamp for all founders, the group     *)
(* built in tmp/ and renamed into place.                                   *)
(***************************************************************************)
CreateGroup ==
    /\ group = "none"
    /\ Draw
    /\ group' = "building"
    /\ founded' = [stamp |-> last', base |-> Len(id)]
    /\ UNCHANGED <<messages, markers, add, read, stray, restarts, leaves>>

PublishGroup ==
    /\ group = "building"
    /\ group' = "there"
    /\ marker' = [u \in Users |-> IF u \in Founders THEN founded.stamp ELSE Absent]
    /\ base' = [u \in Users |-> IF u \in Founders THEN founded.base ELSE 0]
    /\ founded' = [stamp |-> 0, base |-> 0]
    /\ UNCHANGED <<clock, messages, add, read, stray, bounds>>

(***************************************************************************)
(* A message for the group, or an announcement: minted, spooled, routed.   *)
(***************************************************************************)
Mint ==
    /\ group = "there"
    /\ Len(id) < MaxMessages
    /\ Draw
    /\ id' = Append(id, last')
    /\ tmp' = tmp \cup {Len(id')}
    /\ UNCHANGED <<group, founded, incoming, stored, markers, add, read, stray, restarts, leaves>>

Spool(m) ==
    /\ m \in tmp
    /\ tmp' = tmp \ {m}
    /\ incoming' = incoming \cup {m}
    /\ UNCHANGED <<clock, group, founded, id, stored, markers, add, read, stray, bounds>>

Route(m) ==
    /\ m \in incoming
    /\ incoming' = incoming \ {m}
    /\ stored' = stored \cup {m}
    /\ UNCHANGED <<clock, group, founded, id, tmp, markers, add, read, stray, bounds>>

-----------------------------------------------------------------------------
(***************************************************************************)
(* modify_members, one user of "add": the size and the marker are looked   *)
(* at; the stamp is drawn; write_text opens the marker, which creates or   *)
(* empties it, and fills it.  A leave in between unlinks the file that is  *)
(* being written.                                                          *)
(***************************************************************************)
AddCheckSlip(a, u) ==
    /\ add[a].at = "idle" /\ group = "there"
    /\ u \notin Members
    /\ add' = [add EXCEPT ![a] = [Idle EXCEPT !.at = "draw", !.user = u]]
    /\ UNCHANGED <<clock, group, founded, messages, markers, read, stray, bounds>>

AddCheck(a, u) ==
    /\ add[a].at = "idle" /\ group = "there"
    /\ Cardinality(Members) < MaxMembers
    /\ u \notin Members
    /\ add' = [add EXCEPT ![a] = [Idle EXCEPT !.at = "draw", !.user = u]]
    /\ UNCHANGED <<clock, group, founded, messages, markers, read, stray, bounds>>

AddDraw(a) ==
    /\ add[a].at = "draw"
    /\ Draw
    /\ add' = [add EXCEPT ![a].at = "open", ![a].stamp = last', ![a].base = Len(id)]
    /\ UNCHANGED <<group, founded, messages, markers, read, stray, restarts, leaves>>

Disturb(u) == read' = [r \in Readers |-> [read[r] EXCEPT !.disturbed = @ \/ read[r].user = u]]

AddOpen(a) ==
    /\ add[a].at = "open"
    /\ marker' = [marker EXCEPT ![add[a].user] = Empty]
    /\ base' = [base EXCEPT ![add[a].user] = 0]
    /\ add' = [add EXCEPT ![a].at = "write"]
    /\ Disturb(add[a].user)
    /\ UNCHANGED <<clock, group, founded, messages, stray, bounds>>

AddWrite(a) ==
    /\ add[a].at = "write"
    /\ LET u == add[a].user
       IN  IF add[a].orphan THEN UNCHANGED <<marker, base>>
           ELSE /\ marker' = [marker EXCEPT ![u] = add[a].stamp]
                /\ base' = [base EXCEPT ![u] = add[a].base]
    /\ add' = [add EXCEPT ![a] = Idle]
    /\ Disturb(add[a].user)
    /\ UNCHANGED <<clock, group, founded, messages, stray, bounds>>

Leave(u) ==
    /\ u \in Members
    /\ leaves < MaxLeaves
    /\ leaves' = leaves + 1
    /\ marker' = [marker EXCEPT ![u] = Absent]
    /\ base' = [base EXCEPT ![u] = 0]
    /\ add' = [a \in Adders |-> [add[a] EXCEPT !.orphan =
                    @ \/ (add[a].at = "write" /\ add[a].user = u)]]
    /\ Disturb(u)
    /\ UNCHANGED <<clock, group, founded, messages, stray, faults, restarts>>

-----------------------------------------------------------------------------
(***************************************************************************)
(* can_see, _visible_mdir, history, search, list_groups: membership, then  *)
(* the join stamp, then what the gate lets through.                        *)
(***************************************************************************)
IsMember(r, u) ==
    /\ read[r].at = "idle"
    /\ u \in Members
    /\ read' = [read EXCEPT ![r] = [Closed EXCEPT !.at = "gate", !.user = u, !.base = base[u],
                                                  !.had = stored, !.disturbed = ~Stamped(u)]]
    /\ UNCHANGED <<clock, group, founded, messages, markers, add, stray, bounds>>

Gate(r, g) == read' = [read EXCEPT ![r].at = "show", ![r].gate = g]

JoinedAt(r) ==
    /\ read[r].at = "gate"
    /\ LET u == read[r].user
       IN  \/ marker[u] = Absent /\ Gate(r, 0)
           \/ marker[u] = Empty /\ \E mtime \in 0..MaxTs : Gate(r, mtime)
           \/ Stamped(u) /\ Gate(r, marker[u])
    /\ UNCHANGED <<clock, group, founded, messages, markers, add, stray, bounds>>

ShowSlip(r) ==
    /\ read[r].at = "show"
    /\ read' = [read EXCEPT ![r].at = "done", ![r].shown = stored]
    /\ UNCHANGED <<clock, group, founded, messages, markers, add, stray, bounds>>

Show(r) ==
    /\ read[r].at = "show"
    /\ read' = [read EXCEPT ![r].at = "done", ![r].shown = {m \in stored : id[m] >= read[r].gate}]
    /\ UNCHANGED <<clock, group, founded, messages, markers, add, stray, bounds>>

ReadEnds(r) ==
    /\ read[r].at = "done"
    /\ read' = [read EXCEPT ![r] = Closed]
    /\ UNCHANGED <<clock, group, founded, messages, markers, add, stray, bounds>>

Add(a) == (\E u \in Users : AddCheck(a, u)) \/ AddDraw(a) \/ AddOpen(a) \/ AddWrite(a)
Read(r) == (\E u \in Users : IsMember(r, u)) \/ JoinedAt(r) \/ Show(r) \/ ReadEnds(r)

Next ==
    \/ Restart \/ CreateGroup \/ PublishGroup
    \/ Mint \/ \E m \in Minted : Spool(m) \/ Route(m)
    \/ \E a \in Adders : Add(a)
    \/ \E u \in Users : Leave(u)
    \/ \E r \in Readers : Read(r)

Spec == Init /\ [][Next]_vars

-----------------------------------------------------------------------------
TypeOK ==
    /\ last \in Nat /\ hwm \in Nat
    /\ group \in {"none", "building", "there"}
    /\ founded \in [stamp : Nat, base : Nat]
    /\ id \in Seq(Nat)
    /\ tmp \subseteq Minted /\ incoming \subseteq Minted /\ stored \subseteq Minted
    /\ marker \in [Users -> Nat \cup {Absent, Empty}]
    /\ base \in [Users -> Nat]
    /\ add \in [Adders -> [at : {"idle", "draw", "open", "write"}, user : Users \cup {Absent},
                           stamp : Nat, base : Nat, orphan : BOOLEAN]]
    /\ \A a \in Adders : add[a].at # "idle" => add[a].user \in Users
    /\ read \in [Readers -> [at : {"idle", "gate", "show", "done"}, user : Users \cup {Absent},
                             gate : Nat, base : Nat, had : SUBSET Nat, shown : SUBSET Nat,
                             disturbed : BOOLEAN]]
    /\ \A r \in Readers : read[r].at # "idle" => read[r].user \in Users

(***************************************************************************)
(* Whoever has a stamp is let through exactly to the messages minted after *)
(* it was drawn: none of them is hidden (store.py:50-56), however the wall *)
(* clock steps, the high-water mark is lost and adds race; and none from   *)
(* before the join is shown.  The exception are messages that were in      *)
(* incoming/ at a restart without a high-water mark, which the floor does  *)
(* not look at (store.py:59).                                              *)
(***************************************************************************)
Exact(stamp, n) ==
    \A m \in Live : IF m > n THEN id[m] > stamp ELSE id[m] < stamp \/ m \in stray
GateIsExact == \A u \in Users : Stamped(u) => Exact(marker[u], base[u])

(***************************************************************************)
(* A read shows nothing from before the reader's join, and all that was    *)
(* stored of what came after when it began, unless their marker was        *)
(* removed, rewritten or half-written between the two looks that are taken *)
(* at it (api.py:507-513: a leave in between opens the gate).              *)
(***************************************************************************)
ReadsAreGated ==
    \A r \in Readers :
        read[r].at = "done" /\ ~read[r].disturbed =>
            /\ {m \in read[r].shown : m <= read[r].base} \subseteq stray
            /\ {m \in read[r].had : m > read[r].base} \subseteq read[r].shown

(***************************************************************************)
(* The cap is looked at before the marker is written (api.py:1230-1236):   *)
(* adds that race exceed it, but by no more than their number less one.    *)
(***************************************************************************)
OvershootBounded ==
    Cardinality(Members) <= MaxMembers + (IF Adders = {} THEN 0 ELSE Cardinality(Adders) - 1)
=============================================================================
