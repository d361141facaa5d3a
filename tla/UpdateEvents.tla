---------------------------- MODULE UpdateEvents ----------------------------
(* Update events of one message by one actor.  Every change of the message
   (react, edit, delete) is followed by _fanout_event, which puts the entry
   <mid>~u~<actor> into the queue of every member: one symlink per member, that
   successive changes share and re-stamp.  A poll hands the entry out and notes
   its stamp, the client fetches the message state, and confirm unlinks the
   entry unless it was re-stamped since it was last handed out.  The devices of
   a user share the queue and the notes.  Changes, polls and confirms are
   threads that interleave at every file operation.

   Stamps are in nanoseconds; st_mtime is a float, which tells stamps apart only
   when they differ by Ulp of them.

   QueueProofs extends this module and Ticks, hence the prefix of the names that
   every specification has.                                                  *)
EXTENDS Naturals, FiniteSets

CONSTANTS
    Users,       \* members since before the message, ordered as sorted() does
    Devices,     \* <<u, k>>: the clients of u
    Changers,    \* threads of the actor's devices that change the message
    Ulp,         \* resolution of st_mtime
    MaxChanges,  \* bound: changes of the message
    MaxSteps,    \* bound: backward steps of the wall clock
    MaxFailures  \* bound: things that go wrong

ASSUME UsersAssumption == Users \subseteq Nat \ {0} /\ IsFiniteSet(Users) /\ Users # {}
ASSUME DevicesAssumption == Devices \subseteq Users \X Nat
ASSUME BoundsAssumption == /\ Ulp \in Nat \ {0}
                           /\ {MaxChanges, MaxSteps, MaxFailures} \subseteq Nat

VARIABLES
    version,  \* changes written so far
    now,      \* the clock that stamps new files
    link,     \* stamp of the entry in the queue of a user, 0 for no entry
    handed,   \* Api._handed: st_mtime of the entry handed out, 0 for none
    change,   \* what a changer is at; found: the entry was there already
    client,   \* what a device is at; mtime: the stamp it has read
    shown,    \* history: latest version handed out to a device of the user
    latest,   \* history: latest stamp that the entry of a user has had
    missed,   \* history: users who may miss a change, for a cause given below
    steps, failures

env == <<steps, failures>>
history == <<shown, latest, missed>>
eventsVars == <<version, now, link, handed, change, client, history, env>>

Owner(d) == d[1]
Float(t) == t \div Ulp
Larger(a, b) == IF a < b THEN b ELSE a
First(x, S) == x \in S /\ \A y \in S : x <= y

NoChange == [pc |-> "idle", todo |-> {}, ns |-> 0, version |-> 0, found |-> FALSE]
Idle == [pc |-> "poll", mtime |-> 0]

EventsInit ==
    /\ version = 0
    /\ now = Ulp
    /\ link = [u \in Users |-> 0]
    /\ handed = [u \in Users |-> 0]
    /\ change = [c \in Changers |-> NoChange]
    /\ client = [d \in Devices |-> Idle]
    /\ shown = [u \in Users |-> 0]
    /\ latest = [u \in Users |-> 0]
    /\ missed = {}
    /\ steps = 0
    /\ failures = 0

Goes(wrong) == failures < MaxFailures /\ failures' = failures + 1 /\ wrong

-----------------------------------------------------------------------------
(* Confirm can tell a change from what was handed out before if the stamp of the
   entry is newer than what is noted or being compared ... *)
Noted(u) ==
    {handed[u]} \cup
    {client[d].mtime : d \in {e \in Devices : Owner(e) = u /\ client[e].pc = "compare"}}

(* ... and if no confirm has done its comparing already.  Nothing is expected of
   a stamp that is not the latest, or given after a step of the clock. *)
Unprotected(u, t) ==
    \/ \E d \in Devices : Owner(d) = u /\ client[d].pc = "unlink"
    \/ (steps > 0 \/ t <= latest[u]) /\ \E h \in Noted(u) : Float(t) <= h

Stamped(u, t) ==
    /\ link' = [link EXCEPT ![u] = t]
    /\ latest' = [latest EXCEPT ![u] = Larger(@, t)]
    /\ missed' = IF Unprotected(u, t) THEN missed \cup {u} ELSE missed \ {u}

-----------------------------------------------------------------------------
(* The actor's threads.                                                      *)

(* react, edit_message or delete_message writes the change and lists the
   members. *)
Change(c) ==
    /\ change[c].pc = "idle"
    /\ version < MaxChanges
    /\ version' = version + 1
    /\ change' = [change EXCEPT ![c] = [pc |-> "link", todo |-> Users, ns |-> 0,
                                        version |-> version + 1, found |-> FALSE]]
    /\ UNCHANGED <<now, link, handed, client, history, env>>

At(c, where, u) == change[c].pc = where /\ First(u, change[c].todo)

(* queue_add: the symlink is made, with the time of its making, or is there. *)
FanLink(c, u) ==
    /\ At(c, "link", u)
    /\ IF link[u] = 0 THEN Stamped(u, now) ELSE UNCHANGED <<link, latest, missed>>
    /\ change' = [change EXCEPT ![c].pc = "read", ![c].found = link[u] # 0]
    /\ UNCHANGED <<version, now, handed, client, shown, env>>

(* The fan-out has done with this member. *)
Reached(c, u) ==
    change' = [change EXCEPT ![c] =
        IF change[c].todo = {u} THEN NoChange
        ELSE [change[c] EXCEPT !.pc = "link", !.todo = @ \ {u}, !.found = FALSE]]

(* The new stamp: the time, and later than the old one ... *)
FanRead(c, u) ==
    /\ At(c, "read", u)
    /\ link[u] # 0
    /\ now' = now + Ulp
    /\ change' = [change EXCEPT ![c].pc = "stamp",
                                ![c].ns = Larger(now + Ulp, link[u] + 1)]
    /\ UNCHANGED <<version, link, handed, client, history, env>>

(* ... is put on the symlink ... *)
FanStamp(c, u) ==
    /\ At(c, "stamp", u)
    /\ link[u] # 0
    /\ Stamped(u, change[c].ns)
    /\ Reached(c, u)
    /\ UNCHANGED <<version, now, handed, client, shown, env>>

(* An entry that was there when queue_add looked carries the change only once
   it is stamped. *)
Unstamped(c, u) == missed' = IF change[c].found THEN missed \cup {u} ELSE missed

(* ... unless a confirm has unlinked it: the OSError is passed over. *)
FanGone(c, u) ==
    /\ At(c, "read", u) \/ At(c, "stamp", u)
    /\ link[u] = 0
    /\ Reached(c, u)
    /\ Unstamped(c, u)
    /\ UNCHANGED <<version, now, link, handed, client, shown, latest, env>>

(* Any other OSError of lstat and utime is passed over as well ... *)
FanRefused(c, u) ==
    /\ Goes(At(c, "read", u) \/ At(c, "stamp", u))
    /\ Reached(c, u)
    /\ Unstamped(c, u)
    /\ UNCHANGED <<version, now, link, handed, client, shown, latest, steps>>

(* ... and queue_add gives up on an account that it cannot provision. *)
FanGivesUp(c, u) ==
    /\ Goes(At(c, "link", u) /\ link[u] = 0)
    /\ Reached(c, u)
    /\ missed' = missed \cup {u}
    /\ UNCHANGED <<version, now, link, handed, client, shown, latest, steps>>

(* A symlink that the disk refuses ends the request, and nobody else is told. *)
FanFails(c) ==
    /\ Goes(change[c].pc = "link")
    /\ change' = [change EXCEPT ![c] = NoChange]
    /\ missed' = missed \cup change[c].todo
    /\ UNCHANGED <<version, now, link, handed, client, shown, latest, steps>>

-----------------------------------------------------------------------------
(* The devices of a user: poll, fetch the state, confirm.                    *)

Move(d, where) == client' = [client EXCEPT ![d].pc = where]

(* _queue_items reads the stamp of the entry ... *)
Poll(d) ==
    /\ client[d].pc = "poll"
    /\ link[Owner(d)] # 0
    /\ client' = [client EXCEPT ![d] = [pc |-> "hand", mtime |-> Float(link[Owner(d)])]]
    /\ UNCHANGED <<version, now, link, handed, change, history, env>>

(* With the answer the client fetches the state of the message: this version, or
   a later one. *)
Answered(d) ==
    /\ client[d].pc = "hand"
    /\ shown' = [shown EXCEPT ![Owner(d)] = version]
    /\ client' = [client EXCEPT ![d] = [Idle EXCEPT !.pc = "confirm"]]
    /\ UNCHANGED <<version, now, link, change, latest, missed, steps>>

(* Slip: the stamp of the first hand-out stays. *)
HandOutOnce(d) ==
    /\ Answered(d)
    /\ handed' = [handed EXCEPT ![Owner(d)] = IF @ = 0 THEN client[d].mtime ELSE @]
    /\ UNCHANGED failures

(* ... and notes it ... *)
HandOut(d) ==
    /\ Answered(d)
    /\ handed' = [handed EXCEPT ![Owner(d)] = client[d].mtime]
    /\ UNCHANGED failures

(* ... unless the table of the notes is full, when the notes of entries that are
   gone are shed, which makes room or not. *)
HandOutFull(d) ==
    LET u == Owner(d) IN
    /\ Goes(handed[u] = 0)
    /\ Answered(d)
    /\ \E noted \in {0, client[d].mtime} :
          handed' = [v \in Users |-> IF v = u THEN noted
                                     ELSE IF link[v] = 0 THEN 0 ELSE handed[v]]

(* The answer, or the confirm, does not get there: the device polls again. *)
Drop(d) ==
    /\ Goes(client[d].pc = "confirm")
    /\ client' = [client EXCEPT ![d] = Idle]
    /\ UNCHANGED <<version, now, link, handed, change, history, steps>>

(* confirm looks whether the entry is there ... *)
LookEntry(d) ==
    /\ client[d].pc = "confirm"
    /\ client' = [client EXCEPT ![d] = IF link[Owner(d)] = 0 THEN Idle ELSE [@ EXCEPT !.pc = "note"]]
    /\ UNCHANGED <<version, now, link, handed, change, history, env>>

(* ... then, _superseded, what was noted of it: without a note it goes ... *)
ReadNote(d) ==
    LET noted == handed[Owner(d)] IN
    /\ client[d].pc = "note"
    /\ client' = [client EXCEPT ![d] = [pc |-> IF noted = 0 THEN "unlink" ELSE "compare",
                                        mtime |-> noted]]
    /\ UNCHANGED <<version, now, link, handed, change, history, env>>

(* Slip: what was handed out goes. *)
SupersededNever(d) == FALSE

Superseded(d) == Float(link[Owner(d)]) > client[d].mtime

(* ... and compares: the entry stays for the change it was re-stamped for ... *)
Compare(d) ==
    /\ client[d].pc = "compare"
    /\ link[Owner(d)] # 0
    /\ client' = [client EXCEPT ![d] = IF Superseded(d) THEN Idle ELSE [@ EXCEPT !.pc = "unlink"]]
    /\ UNCHANGED <<version, now, link, handed, change, history, env>>

(* ... or is gone. *)
CompareGone(d) ==
    /\ client[d].pc = "compare"
    /\ link[Owner(d)] = 0
    /\ client' = [client EXCEPT ![d] = Idle]
    /\ handed' = [handed EXCEPT ![Owner(d)] = 0]
    /\ UNCHANGED <<version, now, link, change, history, env>>

(* The entry goes; without a note, nobody knows for which change it was there. *)
Unlink(d) ==
    LET u == Owner(d) IN
    /\ client[d].pc = "unlink"
    /\ link' = [link EXCEPT ![u] = 0]
    /\ missed' = IF link[u] # 0 /\ client[d].mtime = 0 THEN missed \cup {u} ELSE missed
    /\ Move(d, "forget")
    /\ UNCHANGED <<version, now, handed, change, shown, latest, env>>

Forget(d) ==
    /\ client[d].pc = "forget"
    /\ handed' = [handed EXCEPT ![Owner(d)] = 0]
    /\ client' = [client EXCEPT ![d] = Idle]
    /\ UNCHANGED <<version, now, link, change, history, env>>

-----------------------------------------------------------------------------
(* The wall clock is stepped back. *)
StepBack ==
    /\ steps < MaxSteps
    /\ steps' = steps + 1
    /\ now' \in {t \in Ulp..now : t % Ulp = 0}
    /\ UNCHANGED <<version, link, handed, change, client, history, failures>>

(* _handed is memory; a change whose fan-out was cut off is not resumed, and a
   client repeats what was not answered. *)
Restart ==
    /\ Goes(TRUE)
    /\ handed' = [u \in Users |-> 0]
    /\ change' = [c \in Changers |-> NoChange]
    /\ missed' = missed \cup UNION {change[c].todo : c \in Changers}
    /\ client' = [d \in Devices |->
          IF client[d].pc \in {"poll", "hand"} THEN Idle ELSE [Idle EXCEPT !.pc = "confirm"]]
    /\ UNCHANGED <<version, now, link, shown, latest, steps>>

Device(d) ==
    \/ Poll(d) \/ HandOut(d) \/ LookEntry(d) \/ ReadNote(d)
    \/ Compare(d) \/ CompareGone(d) \/ Unlink(d) \/ Forget(d)

Fan(c) == \E u \in Users : FanLink(c, u) \/ FanRead(c, u) \/ FanStamp(c, u)
                           \/ FanGone(c, u)

Fails ==
    \/ \E c \in Changers : FanFails(c) \/ \E u \in Users : FanRefused(c, u) \/ FanGivesUp(c, u)
    \/ \E d \in Devices : HandOutFull(d) \/ Drop(d)
    \/ Restart

EventsNext ==
    \/ \E c \in Changers : Change(c) \/ Fan(c)
    \/ \E d \in Devices : Device(d)
    \/ StepBack \/ Fails

EventsSpec == EventsInit /\ [][EventsNext]_eventsVars

(* Requests run to their end, and every client polls, fetches and confirms. *)
Fairness == /\ \A c \in Changers : WF_eventsVars(Fan(c))
            /\ \A d \in Devices : WF_eventsVars(Device(d))

FairSpec == EventsSpec /\ Fairness

-----------------------------------------------------------------------------
MaxTime == (MaxChanges * Cardinality(Users) + 1) * Ulp

EventsTypeOK ==
    /\ version \in 0..MaxChanges
    /\ now \in Ulp..MaxTime
    /\ link \in [Users -> Nat]
    /\ handed \in [Users -> Nat]
    /\ change \in [Changers -> [pc : {"idle", "link", "read", "stamp"}, todo : SUBSET Users,
                                ns : Nat, version : 0..MaxChanges, found : BOOLEAN]]
    /\ \A c \in Changers : change[c].pc = "idle" <=> change[c].todo = {}
    /\ client \in [Devices -> [pc : {"poll", "hand", "confirm", "note", "compare", "unlink",
                                     "forget"}, mtime : Nat]]
    /\ shown \in [Users -> 0..MaxChanges]
    /\ latest \in [Users -> Nat]
    /\ missed \subseteq Users
    /\ steps \in 0..MaxSteps /\ failures \in 0..MaxFailures

OnItsWay(u) == \E c \in Changers : u \in change[c].todo /\ change[c].version > shown[u]

(* A user to whom the latest change has not been handed out has the entry in the
   queue, or a fan-out will come to them: whatever the devices of all members
   poll and confirm meanwhile, and however changes overtake each other.  A user
   may miss a change (missed) for these causes only: its fan-out was cut off, was
   refused, or found an entry that a confirm then unlinked; it stamped the entry
   between the look and the unlink of a confirm; its stamp was not the latest
   the entry has had, or the clock was stepped back; or a confirm had no note to
   compare with, after another device's confirm, a restart or a full table. *)
StaleIsTold ==
    \A u \in Users : shown[u] < version => link[u] # 0 \/ u \in missed \/ OnItsWay(u)

(* No entry stays for good: clients that poll, fetch and confirm empty their
   queue once the changes end, whatever stamps the entry was given. *)
QueueDrains == \A d \in Devices : link[Owner(d)] # 0 ~> link[Owner(d)] = 0

-----------------------------------------------------------------------------
(* What comments and API.md say, and the code does not keep.                 *)

(* _superseded and API.md: confirming an entry that changed again since the poll
   is a no-op, so no change is dropped that no client was told about. *)
NewerChangeIsKept ==
    \A u \in Users : shown[u] < version => link[u] # 0 \/ OnItsWay(u)
=============================================================================
