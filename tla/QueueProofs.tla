----------------------------- MODULE QueueProofs -----------------------------
(* Proofs about what the queue entries tell: Ticks, for any messages, members,
   devices and senders, and UpdateEvents, for any members, devices and threads
   that change the message.                                                  *)
EXTENDS Ticks, UpdateEvents, TLAPS

-----------------------------------------------------------------------------
(* Ticks                                                                     *)

Delivered(t) == <<"d", req[t].m, req[t].user>>

(* The marker in readby/ is touched, and told, after deliveredto/ has the   *)
(* reader, by a viewed request only.                                        *)
DeliveredFirst(t) == req[t].kind = "r" =>
    /\ req[t].op = "viewed" /\ req[t].at \in {"touch", "tell", "failed"}
    /\ Delivered(t) \in flags

(* Who is about to tell the sender has set the flag. *)
ToldIsSet(t) == req[t].at = "tell" => Flag(t) \in flags

(* What a viewed request has seen and not marked is what it is working on;  *)
(* only an error of the disk keeps it from that.                            *)
SeenIsMarked(t) ==
    /\ req[t].at = "failed" => faults > 0
    /\ req[t].at = "idle" \/ req[t].op = "confirm" => req[t].seen = {}
    /\ req[t].at = "answered" => req[t].todo = {}
    /\ req[t].at # "failed" => \A m \in req[t].seen \ gone :
           \/ <<"r", m, req[t].user>> \in flags
           \/ m = req[t].m /\ req[t].at \in {"look", "lookd", "touch", "tell"}

(* A confirm unlinks the entry of a message that is delivered, or moot. *)
UnlinksDelivered(t) == req[t].at = "unlink" =>
    /\ req[t].op = "confirm"
    /\ req[t].m \in gone \/ req[t].user \notin members \/ Delivered(t) \in flags

Sound(t) == DeliveredFirst(t) /\ ToldIsSet(t) /\ SeenIsMarked(t) /\ UnlinksDelivered(t)

(* The flag that a request is telling is told, or need not be. *)
Settled(t) ==
    \/ Flag(t) \in ticks' \cup lost'
    \/ req[t].m \in gone' \cup System \/ req[t].user = Sender

IInv ==
    /\ TypeOK
    /\ \A t \in Requests : Sound(t)
    /\ ReadImpliesDelivered /\ FlagsAreTold /\ ReceiptsAreKept

Reqs == [at : {"idle", "item", "look", "lookd", "touch", "tell", "unlink", "answered", "failed"},
         op : {"confirm", "viewed"}, user : People,
         todo : SUBSET Messages, seen : SUBSET Messages, m : Messages, kind : Kinds]

-----------------------------------------------------------------------------
LEMMA ClosedType == Closed \in Reqs /\ Closed.at = "idle" /\ Closed.kind = "d" /\ Closed.seen = {}
  BY TicksAssumption DEF Closed, Reqs, People, Kinds

LEMMA ReqType == ASSUME TypeOK, NEW t \in Requests PROVE req[t] \in Reqs
  BY DEF TypeOK, Reqs

(* What holds of a request stays, while others set flags, leave and archive. *)
LEMMA OthersStay ==
    ASSUME TypeOK, TypeOK', faults' >= faults,
           flags \subseteq flags', gone \subseteq gone', members' \subseteq members,
           NEW t \in Requests, Sound(t), req'[t] = req[t]
    PROVE  Sound(t)'
<1>1. DeliveredFirst(t)'
  BY DEF Sound, DeliveredFirst, Delivered
<1>2. ToldIsSet(t)'
  BY DEF Sound, ToldIsSet, Flag
<1>3. SeenIsMarked(t)'
  BY TicksAssumption DEF Sound, SeenIsMarked, TypeOK
<1>4. UnlinksDelivered(t)'
  BY DEF Sound, UnlinksDelivered, Delivered
<1> QED
  BY <1>1, <1>2, <1>3, <1>4 DEF Sound

(* One request moves on, by at most a flag, a tick and an entry. *)
LEMMA RequestMoves ==
    ASSUME IInv, TypeOK', NEW t \in Requests, Sound(t)',
           \A s \in Requests \ {t} : req'[s] = req[s],
           flags \subseteq flags', flags' \subseteq flags \cup {Flag(t)},
           ticks \subseteq ticks', ticks' \subseteq ticks \cup {Flag(t)},
           lost \subseteq lost', UNCHANGED group,
           faults' >= faults,
           flags' # flags => req'[t].at = "tell" /\ Flag(t)' = Flag(t),
           req[t].at = "tell" => Settled(t),
           ticks' # ticks => Flag(t) \in flags /\ req[t].m \notin System /\ req[t].user # Sender,
           \A m \in Messages \ gone, u \in Recipients \cap members :
               <<m, u>> \in entries \ entries' => <<"d", m, u>> \in flags
    PROVE  IInv'
<1>1. \A s \in Requests : Sound(s)'
  BY OthersStay DEF IInv, group
<1>2. FlagsAreTold'
  <2>1. ASSUME NEW f \in flags'
        PROVE  \/ f \in ticks' \cup lost' \/ Telling(f)'
               \/ f[2] \in gone' \cup System \/ f[3] = Sender
    <3>1. CASE f \notin flags
      <4>1. req'[t].at = "tell" /\ Flag(t)' = f
        BY <2>1, <3>1
      <4> QED
        BY <4>1 DEF Telling
    <3>2. CASE f \in flags
      <4>1. CASE ~Telling(f)
        BY <3>2, <4>1 DEF IInv, FlagsAreTold, group
      <4>2. CASE Telling(f)
        <5>1. PICK s \in Requests : req[s].at = "tell" /\ Flag(s) = f
          BY <4>2 DEF Telling
        <5>2. CASE s = t
          <6>1. f = <<req[t].kind, req[t].m, req[t].user>>
            BY <5>1, <5>2 DEF Flag
          <6> QED
            BY <5>1, <5>2, <6>1 DEF Settled
        <5>3. CASE s # t
          <6>1. req'[s].at = "tell" /\ Flag(s)' = f
            BY <5>1, <5>3 DEF Flag
          <6> QED
            BY <6>1 DEF Telling
        <5> QED
          BY <5>2, <5>3
      <4> QED
        BY <4>1, <4>2
    <3> QED
      BY <3>1, <3>2
  <2>2. ASSUME NEW f \in ticks'
        PROVE  f \in flags' /\ f[2] \notin System /\ f[3] # Sender
    <3>1. CASE f \in ticks
      BY <3>1 DEF IInv, FlagsAreTold
    <3>2. CASE f \notin ticks
      BY <2>2, <3>2 DEF Flag
    <3> QED
      BY <3>1, <3>2
  <2> QED
    BY <2>1, <2>2 DEF FlagsAreTold
<1>3. ReadImpliesDelivered'
  <2> SUFFICES ASSUME NEW m \in Messages, NEW u \in People
               PROVE  /\ <<"r", m, u>> \in flags' => <<"d", m, u>> \in flags'
                      /\ <<"r", m, u>> \in ticks' =>
                            \/ m \in gone' \/ <<"d", m, u>> \in ticks' \cup lost'
                            \/ Telling(<<"d", m, u>>)'
    BY DEF ReadImpliesDelivered
  <2>1. <<"r", m, u>> \in flags' => <<"d", m, u>> \in flags'
    <3>1. CASE <<"r", m, u>> \in flags
      BY <3>1 DEF IInv, ReadImpliesDelivered
    <3>2. CASE <<"r", m, u>> \in flags' \ flags
      <4>1. req[t].kind = "r" /\ Delivered(t) = <<"d", m, u>>
        BY <3>2 DEF Flag, Delivered
      <4> QED
        BY <4>1 DEF IInv, Sound, DeliveredFirst
    <3> QED
      BY <3>1, <3>2
  <2>2. ASSUME <<"r", m, u>> \in ticks'
        PROVE  \/ m \in gone' \/ <<"d", m, u>> \in ticks' \cup lost'
               \/ Telling(<<"d", m, u>>)'
    <3>1. <<"r", m, u>> \in flags' /\ m \notin System /\ u # Sender
      BY <1>2, <2>2 DEF FlagsAreTold
    <3>2. <<"d", m, u>> \in flags'
      BY <2>1, <3>1
    <3> QED
      BY <1>2, <3>1, <3>2 DEF FlagsAreTold
  <2> QED
    BY <2>1, <2>2
<1>4. ReceiptsAreKept'
  <2>1. ASSUME NEW s \in Requests,
               req'[s].at = "answered" \/ (req'[s].at = "failed" /\ faults' = 0)
        PROVE  req'[s].todo = {} /\ \A m \in req'[s].seen \ gone' : <<"r", m, req'[s].user>> \in flags'
    BY <1>1, <2>1 DEF Sound, SeenIsMarked
  <2>2. ASSUME NEW m \in Messages \ gone', NEW u \in Recipients \cap members'
        PROVE  <<m, u>> \in entries' \/ <<"d", m, u>> \in flags'
    BY DEF IInv, ReceiptsAreKept, group
  <2> QED
    BY <2>1, <2>2 DEF ReceiptsAreKept
<1> QED
  BY <1>1, <1>2, <1>3, <1>4 DEF IInv

-----------------------------------------------------------------------------
LEMMA InitHolds == Init => IInv
<1> SUFFICES ASSUME Init PROVE IInv
  OBVIOUS
<1>1. TypeOK
  BY ClosedType, TicksAssumption DEF Init, TypeOK, Reqs, Flags
<1>2. \A t \in Requests : req[t] = Closed
  BY DEF Init
<1>3. \A t \in Requests : Sound(t)
  BY <1>2, ClosedType DEF Sound, DeliveredFirst, ToldIsSet, SeenIsMarked, UnlinksDelivered
<1>4. ReadImpliesDelivered /\ FlagsAreTold
  BY DEF Init, ReadImpliesDelivered, FlagsAreTold
<1>5. ReceiptsAreKept
  BY <1>2, ClosedType DEF Init, ReceiptsAreKept
<1> QED
  BY <1>1, <1>3, <1>4, <1>5 DEF IInv

-----------------------------------------------------------------------------
(* The steps of a request. *)

LEMMA NextItemIs ==
    ASSUME TypeOK, NEW t \in Requests, NextItem(t)
    PROVE  /\ req' \in [Requests -> Reqs]
           /\ \A s \in Requests \ {t} : req'[s] = req[s]
           /\ req'[t] = [req[t] EXCEPT !.at = "item", !.m = Closed.m, !.kind = Closed.kind]
           /\ req'[t].at = "item" /\ req'[t].kind = "d"
<1>1. req \in [Requests -> Reqs] /\ req[t] \in Reqs
  BY DEF TypeOK, Reqs
<1>2. Closed.m \in Messages /\ Closed.kind = "d" /\ "d" \in Kinds
  BY ClosedType DEF Reqs, Kinds
<1>3. req' = [req EXCEPT ![t] = [req[t] EXCEPT !.at = "item", !.m = Closed.m, !.kind = Closed.kind]]
  BY <1>1 DEF NextItem, Reqs
<1>4. [req[t] EXCEPT !.at = "item", !.m = Closed.m, !.kind = Closed.kind] \in Reqs
  BY <1>1, <1>2 DEF Reqs
<1> QED
  BY <1>1, <1>2, <1>3, <1>4 DEF Reqs

LEMMA GotoIs ==
    ASSUME TypeOK, NEW t \in Requests,
           NEW at \in {"item", "look", "lookd", "touch", "tell", "unlink", "answered", "failed"},
           Goto(t, at)
    PROVE  /\ req' \in [Requests -> Reqs]
           /\ \A s \in Requests \ {t} : req'[s] = req[s]
           /\ req'[t] = [req[t] EXCEPT !.at = at]
<1>1. req \in [Requests -> Reqs] /\ req[t] \in Reqs
  BY DEF TypeOK, Reqs
<1>2. req' = [req EXCEPT ![t] = [req[t] EXCEPT !.at = at]]
  BY <1>1 DEF Goto, Reqs
<1>3. [req[t] EXCEPT !.at = at] \in Reqs
  BY <1>1 DEF Reqs
<1> QED
  BY <1>1, <1>2, <1>3

(* A step that sets no flag, tells nothing and keeps the entries. *)
LEMMA QuietStep ==
    ASSUME IInv, NEW t \in Requests, req' \in [Requests -> Reqs],
           \A s \in Requests \ {t} : req'[s] = req[s],
           UNCHANGED <<group, entries, flags, ticks, lost, bounds>>,
           req[t].at = "tell" => Settled(t),
           Sound(t)'
    PROVE  IInv'
<1>1. TypeOK'
  BY DEF IInv, TypeOK, Reqs, group, bounds
<1>2. faults' >= faults
  BY TicksAssumption DEF IInv, TypeOK, bounds
<1>3. UNCHANGED group /\ UNCHANGED <<entries, flags, ticks, lost>>
  OBVIOUS
<1> QED
  BY <1>1, <1>2, <1>3, RequestMoves

LEMMA BeginStep ==
    ASSUME IInv, NEW t \in Requests, NEW batch \in SUBSET Messages, NEW u \in People,
           Viewed(t, u, batch) \/ (u \in Recipients /\ Confirm(t, u, batch))
    PROVE  IInv'
<1>1. req[t].at = "idle" /\ UNCHANGED <<group, entries, flags, ticks, lost, bounds>>
  BY DEF Viewed, Confirm
<1>2. PICK r \in Reqs : /\ req' = [req EXCEPT ![t] = r]
                        /\ r.at = "item" /\ r.kind = "d" /\ r.seen = {}
  <2>1. CASE Viewed(t, u, batch)
    <3> DEFINE v == [Closed EXCEPT !.at = "item", !.op = "viewed", !.user = u, !.todo = batch]
    <3>1. v \in Reqs /\ v.at = "item" /\ v.kind = "d" /\ v.seen = {}
      BY ClosedType DEF Reqs
    <3>2. req' = [req EXCEPT ![t] = v]
      BY <2>1 DEF Viewed
    <3> QED
      BY <3>1, <3>2
  <2>2. CASE u \in Recipients /\ Confirm(t, u, batch)
    <3> DEFINE c == [Closed EXCEPT !.at = "item", !.user = u, !.todo = batch]
    <3>1. c \in Reqs /\ c.at = "item" /\ c.kind = "d" /\ c.seen = {}
      BY ClosedType DEF Reqs
    <3>2. req' = [req EXCEPT ![t] = c]
      BY <2>2 DEF Confirm
    <3> QED
      BY <3>1, <3>2
  <2> QED
    BY <2>1, <2>2
<1>4. req' \in [Requests -> Reqs] /\ req'[t] = r /\ \A s \in Requests \ {t} : req'[s] = req[s]
  BY <1>2 DEF IInv, TypeOK, Reqs
<1>5. Sound(t)'
  BY <1>2, <1>4 DEF Sound, DeliveredFirst, ToldIsSet, SeenIsMarked, UnlinksDelivered
<1> QED
  BY <1>1, <1>4, <1>5, QuietStep

LEMMA ConfirmLooksStep ==
    ASSUME IInv, NEW t \in Requests, NEW m \in Messages, ConfirmLooks(t, m)
    PROVE  IInv'
<1> DEFINE u == req[t].user
           item == [req[t] EXCEPT !.todo = @ \ {m}]
           moot == m \in gone \/ u \notin members
           r == IF <<m, u>> \notin entries THEN item
                ELSE [item EXCEPT !.m = m, !.at = IF moot THEN "unlink" ELSE "look"]
<1>1. req[t] \in Reqs /\ req[t].at = "item" /\ req[t].op = "confirm"
  BY ReqType DEF IInv, ConfirmLooks
<1>2. req' = [req EXCEPT ![t] = r] /\ UNCHANGED <<group, entries, flags, ticks, lost, bounds>>
  BY DEF ConfirmLooks
<1>3. /\ r \in Reqs /\ r.op = "confirm" /\ r.kind = req[t].kind /\ r.seen = req[t].seen
      /\ r.at \in {"item", "look", "unlink"} /\ r.user = u
      /\ r.at = "unlink" => r.m \in gone \/ u \notin members
  BY <1>1 DEF Reqs
<1> HIDE DEF r
<1>4. req' \in [Requests -> Reqs] /\ req'[t] = r /\ \A s \in Requests \ {t} : req'[s] = req[s]
  BY <1>2, <1>3 DEF IInv, TypeOK, Reqs
<1>5. req[t].kind = "d" /\ req[t].seen = {}
  BY <1>1 DEF IInv, Sound, DeliveredFirst, SeenIsMarked, Reqs, Kinds
<1>6. Sound(t)'
  BY <1>2, <1>3, <1>4, <1>5
     DEF Sound, DeliveredFirst, ToldIsSet, SeenIsMarked, UnlinksDelivered, group
<1> QED
  BY <1>1, <1>2, <1>4, <1>6, QuietStep

LEMMA ViewedLooksStep ==
    ASSUME IInv, NEW t \in Requests, NEW m \in Messages, ViewedLooks(t, m)
    PROVE  IInv'
<1> DEFINE u == req[t].user
           item == [req[t] EXCEPT !.todo = @ \ {m}]
           may == u \in members /\ m \notin gone /\ u # Sender /\ m \notin System
           r == IF may THEN [item EXCEPT !.m = m, !.at = "look", !.seen = @ \cup {m}] ELSE item
<1>1. req[t] \in Reqs /\ req[t].at = "item" /\ req[t].op = "viewed"
  BY ReqType DEF IInv, ViewedLooks
<1>2. req' = [req EXCEPT ![t] = r] /\ UNCHANGED <<group, entries, flags, ticks, lost, bounds>>
  BY DEF ViewedLooks
<1>3. /\ r \in Reqs /\ r.op = "viewed" /\ r.kind = req[t].kind /\ r.user = u
      /\ r.at \in {"item", "look"}
      /\ \A n \in r.seen : n \in req[t].seen \/ (n = r.m /\ r.at = "look")
  BY <1>1 DEF Reqs
<1> HIDE DEF r
<1>4. req' \in [Requests -> Reqs] /\ req'[t] = r /\ \A s \in Requests \ {t} : req'[s] = req[s]
  BY <1>2, <1>3 DEF IInv, TypeOK, Reqs
<1>5. req[t].kind # "r" /\ \A n \in req[t].seen \ gone : <<"r", n, u>> \in flags
  BY <1>1 DEF IInv, Sound, DeliveredFirst, SeenIsMarked
<1>6. Sound(t)'
  BY <1>2, <1>3, <1>4, <1>5
     DEF Sound, DeliveredFirst, ToldIsSet, SeenIsMarked, UnlinksDelivered, group
<1> QED
  BY <1>1, <1>2, <1>4, <1>6, QuietStep

LEMMA StampLooksReadStep ==
    ASSUME IInv, NEW t \in Requests, StampLooksRead(t)
    PROVE  IInv'
<1>1. /\ req[t] \in Reqs /\ req[t].at = "look" /\ req[t].op = "viewed" /\ TypeOK /\ Sound(t)
      /\ UNCHANGED <<group, entries, flags, ticks, lost, bounds>>
  BY ReqType DEF IInv, StampLooksRead
<1>2. CASE req[t].m \in gone \/ Read(t) \in flags
  <2>1. NextItem(t)
    BY <1>2 DEF StampLooksRead, Vanished
  <2>2. /\ req' \in [Requests -> Reqs] /\ \A s \in Requests \ {t} : req'[s] = req[s]
        /\ req'[t] = [req[t] EXCEPT !.at = "item", !.m = Closed.m, !.kind = Closed.kind]
        /\ req'[t].kind = "d"
    BY <1>1, <2>1, NextItemIs
  <2>3. Sound(t)'
    BY <1>1, <1>2, <2>2 DEF Sound, DeliveredFirst, ToldIsSet, SeenIsMarked, UnlinksDelivered,
                            Read, Reqs, group
  <2> QED
    BY <1>1, <2>2, <2>3, QuietStep
<1>3. CASE req[t].m \notin gone /\ Read(t) \notin flags
  <2>1. Goto(t, "lookd")
    BY <1>3 DEF StampLooksRead
  <2>2. /\ req' \in [Requests -> Reqs] /\ \A s \in Requests \ {t} : req'[s] = req[s]
        /\ req'[t] = [req[t] EXCEPT !.at = "lookd"]
    BY <1>1, <2>1, GotoIs
  <2>3. Sound(t)'
    BY <1>1, <2>2 DEF Sound, DeliveredFirst, ToldIsSet, SeenIsMarked, UnlinksDelivered, Reqs, group
  <2> QED
    BY <1>1, <2>2, <2>3, QuietStep
<1> QED
  BY <1>2, <1>3

(* Where a stamp that is done goes on: its flag is set. *)
LEMMA OnwardIs ==
    ASSUME IInv, NEW t \in Requests, Onward(t), Flag(t) \in flags, Flag(t) \in flags',
           flags \subseteq flags', UNCHANGED group, req[t].at \in {"look", "lookd", "tell"}
    PROVE  /\ req' \in [Requests -> Reqs] /\ \A s \in Requests \ {t} : req'[s] = req[s]
           /\ Sound(t)'
<1>1. req[t] \in Reqs /\ TypeOK /\ Sound(t)
  BY ReqType DEF IInv
<1>2. CASE req[t].op = "confirm"
  <2>1. Goto(t, "unlink")
    BY <1>2 DEF Onward
  <2>2. /\ req' \in [Requests -> Reqs] /\ \A s \in Requests \ {t} : req'[s] = req[s]
        /\ req'[t] = [req[t] EXCEPT !.at = "unlink"]
    BY <1>1, <2>1, GotoIs
  <2>3. req[t].kind = "d" /\ Delivered(t)' \in flags'
    BY <1>1, <1>2, <2>2 DEF Sound, DeliveredFirst, Flag, Delivered, Reqs, Kinds
  <2>4. Sound(t)'
    BY <1>1, <1>2, <2>2, <2>3
       DEF Sound, DeliveredFirst, ToldIsSet, SeenIsMarked, UnlinksDelivered, Reqs, group
  <2> QED
    BY <2>2, <2>4
<1>3. CASE req[t].op = "viewed" /\ req[t].kind = "d"
  <2> DEFINE r == [req[t] EXCEPT !.at = "touch", !.kind = "r"]
  <2>1. req' = [req EXCEPT ![t] = r]
    BY <1>1, <1>3 DEF Onward, Reqs, IInv, TypeOK
  <2>2. r \in Reqs
    BY <1>1 DEF Reqs, Kinds
  <2>3. /\ req' \in [Requests -> Reqs] /\ \A s \in Requests \ {t} : req'[s] = req[s]
        /\ req'[t] = r
    BY <1>1, <2>1, <2>2 DEF TypeOK, Reqs
  <2>4. Delivered(t)' \in flags'
    BY <1>1, <1>3, <2>3 DEF Flag, Delivered, Reqs
  <2>5. Sound(t)'
    BY <1>1, <1>3, <2>3, <2>4
       DEF Sound, DeliveredFirst, ToldIsSet, SeenIsMarked, UnlinksDelivered, Reqs, group
  <2> QED
    BY <2>3, <2>5
<1>4. CASE req[t].op = "viewed" /\ req[t].kind = "r"
  <2>1. NextItem(t)
    BY <1>4 DEF Onward
  <2>2. /\ req' \in [Requests -> Reqs] /\ \A s \in Requests \ {t} : req'[s] = req[s]
        /\ req'[t] = [req[t] EXCEPT !.at = "item", !.m = Closed.m, !.kind = Closed.kind]
        /\ req'[t].kind = "d"
    BY <1>1, <2>1, NextItemIs
  <2>3. <<"r", req[t].m, req[t].user>> \in flags'
    BY <1>4 DEF Flag
  <2>4. Sound(t)'
    BY <1>1, <1>4, <2>2, <2>3
       DEF Sound, DeliveredFirst, ToldIsSet, SeenIsMarked, UnlinksDelivered, Reqs, group
  <2> QED
    BY <2>2, <2>4
<1> QED
  BY <1>1, <1>2, <1>3, <1>4 DEF Reqs, Kinds

(* An item whose message is gone is given up: nothing is due for it. *)
LEMMA VanishedIs ==
    ASSUME IInv, NEW t \in Requests, Vanished(t), req[t].m \in gone, flags' = flags,
           UNCHANGED <<group, bounds>>, req[t].at \in {"look", "lookd", "touch", "tell"}
    PROVE  /\ req' \in [Requests -> Reqs] /\ \A s \in Requests \ {t} : req'[s] = req[s]
           /\ Sound(t)' /\ Settled(t)
<1>1. req[t] \in Reqs /\ TypeOK /\ Sound(t)
  BY ReqType DEF IInv
<1>2. /\ req' \in [Requests -> Reqs] /\ \A s \in Requests \ {t} : req'[s] = req[s]
      /\ req'[t] = [req[t] EXCEPT !.at = "item", !.m = Closed.m, !.kind = Closed.kind]
      /\ req'[t].kind = "d"
  BY <1>1, NextItemIs DEF Vanished
<1>3. Sound(t)'
  BY <1>1, <1>2 DEF Sound, DeliveredFirst, ToldIsSet, SeenIsMarked, UnlinksDelivered, Reqs, group
<1> QED
  BY <1>2, <1>3 DEF Settled, group

LEMMA StampLooksStep ==
    ASSUME IInv, NEW t \in Requests, StampLooks(t)
    PROVE  IInv'
<1>1. /\ req[t] \in Reqs /\ req[t].at \in {"look", "lookd"} /\ TypeOK /\ Sound(t)
      /\ UNCHANGED <<group, entries, flags, ticks, lost, bounds>>
  BY ReqType DEF IInv, StampLooks
<1>2. CASE req[t].m \in gone
  BY <1>1, <1>2, VanishedIs, QuietStep DEF StampLooks
<1>3. CASE req[t].m \notin gone /\ Flag(t) \in flags
  <2>1. Onward(t)
    BY <1>3 DEF StampLooks
  <2> QED
    BY <1>1, <1>3, <2>1, OnwardIs, QuietStep
<1>4. CASE req[t].m \notin gone /\ Flag(t) \notin flags
  <2>1. Goto(t, "touch")
    BY <1>4 DEF StampLooks
  <2>2. /\ req' \in [Requests -> Reqs] /\ \A s \in Requests \ {t} : req'[s] = req[s]
        /\ req'[t] = [req[t] EXCEPT !.at = "touch"]
    BY <1>1, <2>1, GotoIs
  <2>3. Sound(t)'
    BY <1>1, <2>2 DEF Sound, DeliveredFirst, ToldIsSet, SeenIsMarked, UnlinksDelivered, Reqs, group
  <2> QED
    BY <1>1, <2>2, <2>3, QuietStep
<1> QED
  BY <1>2, <1>3, <1>4

LEMMA StampTouchesStep ==
    ASSUME IInv, NEW t \in Requests, StampTouches(t)
    PROVE  IInv'
<1>1. /\ req[t] \in Reqs /\ req[t].at = "touch" /\ TypeOK /\ Sound(t)
      /\ UNCHANGED <<group, entries, ticks, lost, bounds>> /\ UNCHANGED group
  BY ReqType DEF IInv, StampTouches
<1>2. CASE req[t].m \in gone
  <2>1. Vanished(t) /\ flags' = flags
    BY <1>2 DEF StampTouches
  <2> QED
    BY <1>1, <1>2, <2>1, VanishedIs, QuietStep
<1>3. CASE req[t].m \notin gone
  <2>1. Goto(t, "tell") /\ flags' = flags \cup {Flag(t)}
    BY <1>3 DEF StampTouches
  <2>2. /\ req' \in [Requests -> Reqs] /\ \A s \in Requests \ {t} : req'[s] = req[s]
        /\ req'[t] = [req[t] EXCEPT !.at = "tell"]
    BY <1>1, <2>1, GotoIs
  <2>3. /\ req'[t].at = "tell" /\ req'[t].op = req[t].op /\ req'[t].kind = req[t].kind
        /\ req'[t].m = req[t].m /\ req'[t].user = req[t].user /\ req'[t].seen = req[t].seen
        /\ req'[t].todo = req[t].todo
    BY <1>1, <2>2 DEF Reqs
  <2>4. Flag(t)' = Flag(t) /\ Flag(t) \in Flags /\ Delivered(t)' = Delivered(t)
    BY <1>1, <2>3 DEF Flag, Delivered, Flags, Reqs
  <2>5. DeliveredFirst(t)' /\ ToldIsSet(t)' /\ UnlinksDelivered(t)'
    BY <1>1, <2>1, <2>3, <2>4 DEF Sound, DeliveredFirst, ToldIsSet, UnlinksDelivered
  <2>6. SeenIsMarked(t)'
    BY <1>1, <2>1, <2>3 DEF Sound, SeenIsMarked, group
  <2>7. Sound(t)'
    BY <2>5, <2>6 DEF Sound
  <2>8. TypeOK'
    BY <1>1, <2>1, <2>2, <2>4 DEF TypeOK, Reqs, group, bounds
  <2>9. faults' >= faults
    BY <1>1, TicksAssumption DEF TypeOK, bounds
  <2>10. UNCHANGED <<entries, ticks, lost>>
    BY <1>1
  <2> QED
    BY <1>1, <2>1, <2>2, <2>3, <2>4, <2>7, <2>8, <2>9, <2>10, RequestMoves
<1> QED
  BY <1>2, <1>3

LEMMA StampTellsStep ==
    ASSUME IInv, NEW t \in Requests, StampTells(t)
    PROVE  IInv'
<1>1. /\ req[t] \in Reqs /\ req[t].at = "tell" /\ TypeOK /\ Sound(t)
      /\ UNCHANGED <<group, entries, flags, lost, bounds>> /\ UNCHANGED group
  BY ReqType DEF IInv, StampTells, TellsIf
<1>2. Flag(t) \in flags /\ flags' = flags
  BY <1>1 DEF Sound, ToldIsSet
<1>3. CASE req[t].m \in gone
  <2>1. Vanished(t) /\ ticks' = ticks
    BY <1>3 DEF StampTells, TellsIf
  <2> QED
    BY <1>1, <1>2, <1>3, <2>1, VanishedIs, QuietStep
<1>4. CASE req[t].m \notin gone
  <2>1. Onward(t) /\ ticks' = IF Worth(t) THEN ticks \cup {Flag(t)} ELSE ticks
    BY <1>4 DEF StampTells, TellsIf
  <2>2. /\ req' \in [Requests -> Reqs] /\ \A s \in Requests \ {t} : req'[s] = req[s]
        /\ Sound(t)'
    BY <1>1, <1>2, <2>1, OnwardIs
  <2>3. Settled(t)
    BY <1>1, <2>1 DEF Settled, Worth, group
  <2>4. TypeOK'
    BY <1>1, <1>2, <2>1, <2>2 DEF TypeOK, Reqs, group, bounds
  <2>5. faults' >= faults
    BY <1>1, TicksAssumption DEF TypeOK, bounds
  <2>6. ticks' # ticks => Flag(t) \in flags /\ req[t].m \notin System /\ req[t].user # Sender
    BY <1>2, <2>1 DEF Worth
  <2>7. ticks \subseteq ticks' /\ ticks' \subseteq ticks \cup {Flag(t)}
    BY <2>1
  <2>8. UNCHANGED <<entries, flags, lost>>
    BY <1>1
  <2> QED
    BY <1>1, <1>2, <2>2, <2>3, <2>4, <2>5, <2>6, <2>7, <2>8, RequestMoves
<1> QED
  BY <1>3, <1>4

LEMMA StampFailsStep ==
    ASSUME IInv, NEW t \in Requests, StampFails(t)
    PROVE  IInv'
<1>1. /\ req[t] \in Reqs /\ req[t].at \in {"touch", "tell"} /\ TypeOK /\ Sound(t)
      /\ UNCHANGED <<group, entries, flags, ticks, left>> /\ UNCHANGED group
      /\ faults < MaxFaults /\ faults' = faults + 1 /\ Goto(t, "failed")
      /\ lost' = IF req[t].at = "tell" THEN lost \cup {Flag(t)} ELSE lost
  BY ReqType DEF IInv, StampFails
<1>2. /\ req' \in [Requests -> Reqs] /\ \A s \in Requests \ {t} : req'[s] = req[s]
      /\ req'[t] = [req[t] EXCEPT !.at = "failed"]
  BY <1>1, GotoIs
<1>3. /\ req'[t].at = "failed" /\ req'[t].op = req[t].op /\ req'[t].kind = req[t].kind
      /\ req'[t].m = req[t].m /\ req'[t].user = req[t].user /\ req'[t].seen = req[t].seen
      /\ req'[t].todo = req[t].todo
  BY <1>1, <1>2 DEF Reqs
<1>4. faults \in Nat /\ faults' \in 0..MaxFaults /\ faults' > 0 /\ faults' >= faults
  BY <1>1, TicksAssumption DEF TypeOK
<1>5. Sound(t)'
  BY <1>1, <1>3, <1>4
     DEF Sound, DeliveredFirst, ToldIsSet, SeenIsMarked, UnlinksDelivered, Delivered
<1>6. Flag(t) \in Flags
  BY <1>1 DEF Flag, Flags, Reqs
<1>7. TypeOK'
  BY <1>1, <1>2, <1>4, <1>6 DEF TypeOK, Reqs, group
<1>8. req[t].at = "tell" => Settled(t)
  BY <1>1 DEF Settled
<1>9. UNCHANGED <<entries, flags, ticks>> /\ lost \subseteq lost'
  BY <1>1
<1> QED
  BY <1>1, <1>2, <1>4, <1>5, <1>7, <1>8, <1>9, RequestMoves

LEMMA StampGivesUpStep ==
    ASSUME IInv, NEW t \in Requests, StampGivesUp(t)
    PROVE  IInv'
<1>1. /\ req[t] \in Reqs /\ req[t].at = "tell" /\ TypeOK /\ Sound(t) /\ Onward(t)
      /\ req[t].m \notin gone
      /\ UNCHANGED <<group, entries, flags, ticks, left>> /\ UNCHANGED group
      /\ faults < MaxFaults /\ faults' = faults + 1 /\ lost' = lost \cup {Flag(t)}
  BY ReqType DEF IInv, StampGivesUp
<1>2. Flag(t) \in flags /\ flags' = flags
  BY <1>1 DEF Sound, ToldIsSet
<1>3. faults \in Nat /\ faults' \in 0..MaxFaults /\ faults' > 0 /\ faults' >= faults
  BY <1>1, TicksAssumption DEF TypeOK
<1>4. /\ req' \in [Requests -> Reqs] /\ \A s \in Requests \ {t} : req'[s] = req[s]
      /\ Sound(t)'
  BY <1>1, <1>2, <1>3, OnwardIs
<1>5. Flag(t) \in Flags
  BY <1>1 DEF Flag, Flags, Reqs
<1>6. TypeOK'
  BY <1>1, <1>3, <1>4, <1>5 DEF TypeOK, Reqs, group
<1>7. Settled(t)
  BY <1>1 DEF Settled
<1>8. UNCHANGED <<entries, flags, ticks>> /\ lost \subseteq lost'
  BY <1>1
<1> QED
  BY <1>1, <1>2, <1>3, <1>4, <1>6, <1>7, <1>8, RequestMoves

LEMMA ConfirmUnlinksStep ==
    ASSUME IInv, NEW t \in Requests, ConfirmUnlinks(t)
    PROVE  IInv'
<1>1. /\ req[t] \in Reqs /\ req[t].at = "unlink" /\ TypeOK /\ Sound(t) /\ NextItem(t)
      /\ UNCHANGED <<group, flags, ticks, lost, bounds>> /\ UNCHANGED group
      /\ entries' = entries \ {<<req[t].m, req[t].user>>}
  BY ReqType DEF IInv, ConfirmUnlinks
<1>2. /\ req' \in [Requests -> Reqs] /\ \A s \in Requests \ {t} : req'[s] = req[s]
      /\ req'[t] = [req[t] EXCEPT !.at = "item", !.m = Closed.m, !.kind = Closed.kind]
      /\ req'[t].kind = "d"
  BY <1>1, NextItemIs
<1>3. Sound(t)'
  BY <1>1, <1>2 DEF Sound, DeliveredFirst, ToldIsSet, SeenIsMarked, UnlinksDelivered, Reqs, group
<1>4. TypeOK' /\ faults' >= faults
  BY <1>1, <1>2, TicksAssumption DEF TypeOK, Reqs, group, bounds
<1>5. ASSUME NEW m \in Messages \ gone, NEW u \in Recipients \cap members,
             <<m, u>> \in entries \ entries'
      PROVE  <<"d", m, u>> \in flags
  <2>1. m = req[t].m /\ u = req[t].user
    BY <1>1, <1>5
  <2> QED
    BY <1>1, <2>1 DEF Sound, UnlinksDelivered, Delivered
<1>6. UNCHANGED <<flags, ticks, lost>>
  BY <1>1
<1> QED
  BY <1>1, <1>2, <1>3, <1>4, <1>5, <1>6, RequestMoves

LEMMA AnswerStep ==
    ASSUME IInv, NEW t \in Requests, Answer(t)
    PROVE  IInv'
<1>1. /\ req[t] \in Reqs /\ req[t].at = "item" /\ req[t].todo = {} /\ TypeOK /\ Sound(t)
      /\ UNCHANGED <<group, entries, flags, ticks, lost, bounds>> /\ Goto(t, "answered")
  BY ReqType DEF IInv, Answer
<1>2. /\ req' \in [Requests -> Reqs] /\ \A s \in Requests \ {t} : req'[s] = req[s]
      /\ req'[t] = [req[t] EXCEPT !.at = "answered"]
  BY <1>1, GotoIs
<1>3. Sound(t)'
  BY <1>1, <1>2 DEF Sound, DeliveredFirst, ToldIsSet, SeenIsMarked, UnlinksDelivered, Reqs, group
<1> QED
  BY <1>1, <1>2, <1>3, QuietStep

LEMMA EndsStep ==
    ASSUME IInv, NEW t \in Requests, Ends(t)
    PROVE  IInv'
<1>1. /\ req[t].at \in {"answered", "failed"} /\ req' = [req EXCEPT ![t] = Closed]
      /\ UNCHANGED <<group, entries, flags, ticks, lost, bounds>>
  BY DEF Ends
<1>2. /\ req' \in [Requests -> Reqs] /\ \A s \in Requests \ {t} : req'[s] = req[s]
      /\ req'[t] = Closed
  BY <1>1, ClosedType DEF IInv, TypeOK, Reqs
<1>3. Sound(t)'
  BY <1>2, ClosedType DEF Sound, DeliveredFirst, ToldIsSet, SeenIsMarked, UnlinksDelivered
<1> QED
  BY <1>1, <1>2, <1>3, QuietStep

-----------------------------------------------------------------------------
(* The steps of the others: the requests stay where they are. *)
LEMMA OtherStep ==
    ASSUME IInv, TypeOK', UNCHANGED <<flags, ticks, lost, req, faults>>,
           gone \subseteq gone', members' \subseteq members,
           \A m \in Messages \ gone', u \in Recipients \cap members' :
               <<m, u>> \notin entries \ entries'
    PROVE  IInv'
<1>1. faults' >= faults
  BY TicksAssumption DEF IInv, TypeOK
<1>2. \A t \in Requests : Sound(t)'
  BY <1>1, OthersStay DEF IInv
<1>3. \A f : Telling(f) <=> Telling(f)'
  BY DEF Telling, Flag
<1>4. ReadImpliesDelivered'
  BY <1>3 DEF IInv, ReadImpliesDelivered
<1>5. FlagsAreTold'
  BY <1>3 DEF IInv, FlagsAreTold
<1>6. ReceiptsAreKept'
  BY DEF IInv, ReceiptsAreKept
<1> QED
  BY <1>2, <1>4, <1>5, <1>6 DEF IInv

LEMMA CrashStep ==
    ASSUME IInv, Crash
    PROVE  IInv'
<1>1. /\ UNCHANGED <<group, entries, flags, ticks, left>> /\ UNCHANGED group
      /\ faults < MaxFaults /\ faults' = faults + 1
      /\ lost' = lost \cup {Flag(t) : t \in {x \in Requests : req[x].at = "tell"}}
      /\ req' = [t \in Requests |-> Closed]
  BY DEF Crash
<1>2. faults' \in 0..MaxFaults
  BY <1>1, TicksAssumption DEF IInv, TypeOK
<1>3. \A t \in Requests : Flag(t) \in Flags
  BY ReqType DEF IInv, Flag, Flags, Reqs
<1>4. TypeOK'
  BY <1>1, <1>2, <1>3, ClosedType DEF IInv, TypeOK, Reqs, group
<1>5. \A t \in Requests : req'[t] = Closed
  BY <1>1
<1>6. \A t \in Requests : Sound(t)'
  BY <1>5, ClosedType DEF Sound, DeliveredFirst, ToldIsSet, SeenIsMarked, UnlinksDelivered
<1>7. \A f : f \in lost \/ Telling(f) => f \in lost'
  BY <1>1 DEF Telling
<1>8. ReadImpliesDelivered'
  BY <1>1, <1>7 DEF IInv, ReadImpliesDelivered, group
<1>9. FlagsAreTold'
  BY <1>1, <1>7 DEF IInv, FlagsAreTold, group
<1>10. ReceiptsAreKept'
  BY <1>1, <1>5, ClosedType DEF IInv, ReceiptsAreKept, group
<1> QED
  BY <1>4, <1>6, <1>8, <1>9, <1>10 DEF IInv

LEMMA StepInductive == IInv /\ [Next]_vars => IInv'
<1> SUFFICES ASSUME IInv, [Next]_vars PROVE IInv'
  OBVIOUS
<1>1. ASSUME NEW t \in Requests, NEW batch \in SUBSET Messages, NEW u \in Recipients,
             Confirm(t, u, batch)
      PROVE  IInv'
  BY <1>1, BeginStep DEF People
<1>2. ASSUME NEW t \in Requests, NEW batch \in SUBSET Messages, NEW u \in People,
             Viewed(t, u, batch)
      PROVE  IInv'
  BY <1>2, BeginStep
<1>3. ASSUME NEW t \in Requests, Step(t) \/ StampFails(t) \/ StampGivesUp(t)
      PROVE  IInv'
  BY <1>3, ConfirmLooksStep, ViewedLooksStep, StampLooksReadStep, StampLooksStep,
     StampTouchesStep, StampTellsStep, StampFailsStep, StampGivesUpStep, ConfirmUnlinksStep,
     AnswerStep, EndsStep
     DEF Step
<1>4. ASSUME NEW u \in Recipients, Leave(u)
      PROVE  IInv'
  <2>1. TypeOK'
    BY <1>4, TicksAssumption DEF IInv, TypeOK, Leave
  <2> QED
    BY <1>4, <2>1, OtherStep DEF Leave
<1>5. ASSUME NEW u \in Recipients, Sweep(u)
      PROVE  IInv'
  <2>1. TypeOK'
    BY <1>5 DEF IInv, TypeOK, Sweep, group, bounds
  <2>2. \A m \in Messages, v \in Recipients \cap members : <<m, v>> \notin entries \ entries'
    BY <1>5 DEF Sweep
  <2> QED
    BY <1>5, <2>1, <2>2, OtherStep DEF Sweep, group, bounds
<1>6. ASSUME NEW m \in Messages, Archive(m)
      PROVE  IInv'
  <2>1. TypeOK'
    BY <1>6 DEF IInv, TypeOK, Archive, bounds
  <2> QED
    BY <1>6, <2>1, OtherStep DEF Archive, bounds
<1>7. ASSUME NEW m \in Messages, NEW u \in Recipients, PollDrops(m, u)
      PROVE  IInv'
  <2>1. TypeOK'
    BY <1>7 DEF IInv, TypeOK, PollDrops, group, bounds
  <2> QED
    BY <1>7, <2>1, OtherStep DEF PollDrops, group, bounds
<1>8. ASSUME Crash PROVE IInv'
  BY <1>8, CrashStep
<1>9. ASSUME UNCHANGED vars PROVE IInv'
  <2>1. TypeOK'
    BY <1>9 DEF IInv, TypeOK, vars, group, bounds
  <2> QED
    BY <1>9, <2>1, OtherStep DEF vars, group, bounds
<1> QED
  BY <1>1, <1>2, <1>3, <1>4, <1>5, <1>6, <1>7, <1>8, <1>9 DEF Next

-----------------------------------------------------------------------------
(* The inductive invariant: what each request has done so far is behind it  *)
(* in the files, in the order that _stamp (api.py:372-398) keeps.           *)
THEOREM Invariance == Spec => []IInv
  BY InitHolds, StepInductive, PTL DEF Spec

(* The state stays within its type, whatever the requests interleave. *)
THEOREM TypeCorrect == Spec => []TypeOK
<1>1. IInv => TypeOK
  BY DEF IInv
<1> QED
  BY <1>1, Invariance, PTL

(* A read message counts as delivered (api.py:373-384): readby/ never holds *)
(* a user whom deliveredto/ does not, whatever devices race.                *)
THEOREM ReadersHaveReceived == Spec => []ReadImpliesDelivered
<1>1. IInv => ReadImpliesDelivered
  BY DEF IInv
<1> QED
  BY <1>1, Invariance, PTL

(* A flag that is set is told, being told, lost to a failure, or of no      *)
(* interest to the sender; and nothing is told that is not set.             *)
THEOREM FlagsReachTheSender == Spec => []FlagsAreTold
<1>1. IInv => FlagsAreTold
  BY DEF IInv
<1> QED
  BY <1>1, Invariance, PTL

(* A request that is answered has marked all that its reader could see, and *)
(* a message entry leaves a member's queue only once it is delivered.       *)
THEOREM ReceiptsStay == Spec => []ReceiptsAreKept
<1>1. IInv => ReceiptsAreKept
  BY DEF IInv
<1> QED
  BY <1>1, Invariance, PTL

-----------------------------------------------------------------------------
(* UpdateEvents                                                              *)

Reader == [pc : {"poll", "hand", "confirm", "note", "compare", "unlink", "forget"}, mtime : Nat]
Fanout == [pc : {"idle", "link", "read", "stamp"}, todo : SUBSET Users, ns : Nat,
           version : Nat, found : BOOLEAN]

(* EventsTypeOK, but for the bounds. *)
EventTypes ==
    /\ version \in Nat /\ now \in Nat /\ steps \in Nat /\ failures \in Nat
    /\ link \in [Users -> Nat] /\ handed \in [Users -> Nat]
    /\ change \in [Changers -> Fanout]
    /\ client \in [Devices -> Reader]
    /\ shown \in [Users -> Nat] /\ latest \in [Users -> Nat] /\ missed \subseteq Users

(* The changes on their way are different ones, and their stamps are times. *)
Distinct ==
    /\ 0 < now
    /\ \A c \in Changers :
          /\ change[c].pc # "idle" => change[c].version <= version
          /\ change[c].pc = "stamp" => 0 < change[c].ns
    /\ \A c, e \in Changers :
          c # e /\ change[c].pc # "idle" /\ change[e].pc # "idle"
              => change[c].version # change[e].version

(* A fan-out that made the entry itself counts on it. *)
Own(c, u) == change[c].pc \in {"read", "stamp"} /\ First(u, change[c].todo) /\ ~change[c].found

Pending(u, v) ==
    \E c \in Changers : change[c].pc # "idle" /\ change[c].version = v
                        /\ u \in change[c].todo /\ ~Own(c, u)

(* Every change that u was not told of has its fan-out to u before it. *)
Covered(u) == \A v \in 1..version : shown[u] < v => Pending(u, v)

(* The entry is gone, or a confirm may take it away. *)
Exposed(u) ==
    \/ link[u] = 0
    \/ \E h \in Noted(u) : h # 0 /\ Float(link[u]) <= h
    \/ \E d \in Devices : Owner(d) = u /\ client[d].pc = "unlink" /\ client[d].mtime # 0

Guarded == \A u \in Users : Exposed(u) => u \in missed \/ Covered(u)

(* While the clock is not stepped back, stamps are a float step apart, and what
   was noted was a stamp of the entry. *)
Tick(t) == \E k \in Nat : t = k * Ulp

Clocked == steps = 0 =>
    /\ Tick(now)
    /\ \A u \in Users : /\ Tick(latest[u]) /\ latest[u] <= now /\ link[u] <= latest[u]
                         /\ handed[u] <= Float(latest[u])
    /\ \A d \in Devices : client[d].pc \in {"hand", "compare"} =>
          client[d].mtime <= Float(latest[Owner(d)])
    /\ \A c \in Changers : change[c].pc = "stamp" => Tick(change[c].ns) /\ change[c].ns <= now

EventsInv == EventTypes /\ Distinct /\ Guarded /\ Clocked

LEMMA Owners == \A d \in Devices : Owner(d) \in Users
  BY DevicesAssumption DEF Owner

LEMMA Floats ==
    /\ \A t \in Nat : Float(t) \in Nat
    /\ \A s, t \in Nat : s + Ulp <= t => Float(s) < Float(t)
    /\ \A s, t \in Nat : s <= t => Float(s) <= Float(t)
<1>1. ASSUME NEW t \in Nat PROVE Float(t) \in Nat
  BY BoundsAssumption DEF Float
<1>2. ASSUME NEW s \in Nat, NEW t \in Nat, s + Ulp <= t PROVE Float(s) < Float(t)
  BY <1>2, BoundsAssumption DEF Float
<1>3. ASSUME NEW s \in Nat, NEW t \in Nat, s <= t PROVE Float(s) <= Float(t)
  BY <1>3, BoundsAssumption DEF Float
<1> QED
  BY <1>1, <1>2, <1>3

(* Two ticks that differ are a float step apart. *)
LEMMA Ticking ==
    /\ Tick(Ulp) /\ Tick(0)
    /\ \A t \in Nat : Tick(t) => Tick(t + Ulp)
    /\ \A s, t \in Nat : Tick(s) /\ Tick(t) /\ s < t => s + Ulp <= t
<1> USE BoundsAssumption DEF Tick
<1>1. Tick(Ulp) /\ Tick(0)
  <2>1. Ulp = 1 * Ulp /\ 0 = 0 * Ulp
    OBVIOUS
  <2> QED
    BY <2>1
<1>2. ASSUME NEW t \in Nat, Tick(t) PROVE Tick(t + Ulp)
  <2>1. PICK k \in Nat : t = k * Ulp
    BY <1>2
  <2>2. t + Ulp = (k + 1) * Ulp /\ k + 1 \in Nat
    BY <2>1
  <2> QED
    BY <2>2
<1>3. ASSUME NEW s \in Nat, NEW t \in Nat, Tick(s), Tick(t), s < t PROVE s + Ulp <= t
  <2>1. PICK j \in Nat : s = j * Ulp
    BY <1>3
  <2>2. PICK k \in Nat : t = k * Ulp
    BY <1>3
  <2>3. j < k
    <3> SUFFICES ASSUME k <= j PROVE FALSE
      OBVIOUS
    <3>1. PICK i \in Nat : j = k + i
      <4>1. j - k \in Nat /\ j = k + (j - k)
        OBVIOUS
      <4> QED
        BY <4>1
    <3>2. s = t + i * Ulp /\ i * Ulp \in Nat
      BY <2>1, <2>2, <3>1
    <3> QED
      BY <1>3, <3>2
  <2>4. PICK i \in Nat : k = j + 1 + i
    <3>1. k - j - 1 \in Nat /\ k = j + 1 + (k - j - 1)
      BY <2>3
    <3> QED
      BY <3>1
  <2>5. t = s + Ulp + i * Ulp /\ i * Ulp \in Nat
    BY <2>1, <2>2, <2>4
  <2> QED
    BY <2>5
<1> QED
  BY <1>1, <1>2, <1>3

LEMMA Firsts ==
    ASSUME NEW c \in Changers, EventTypes
    PROVE  \A u, w \in Users : First(u, change[c].todo) /\ First(w, change[c].todo) => u = w
<1>1. change[c].todo \subseteq Nat
  BY UsersAssumption DEF EventTypes, Fanout
<1> QED
  BY <1>1 DEF First

LEMMA LargerIs ==
    \A a, b \in Nat : Larger(a, b) \in {a, b} /\ a <= Larger(a, b) /\ b <= Larger(a, b)
  BY DEF Larger

LEMMA NotedTypes == ASSUME EventTypes, NEW u \in Users PROVE Noted(u) \subseteq Nat
  BY DEF EventTypes, Noted, Reader

LEMMA EventSteps ==
    ASSUME [EventsNext]_eventsVars
    PROVE  \/ \E c \in Changers : Change(c) \/ FanFails(c)
           \/ \E c \in Changers, u \in Users :
                 FanLink(c, u) \/ FanRead(c, u) \/ FanStamp(c, u) \/ FanGone(c, u)
                 \/ FanRefused(c, u) \/ FanGivesUp(c, u)
           \/ \E d \in Devices : Poll(d) \/ HandOut(d) \/ HandOutFull(d) \/ LookEntry(d)
                 \/ ReadNote(d) \/ Compare(d) \/ CompareGone(d) \/ Unlink(d) \/ Forget(d)
                 \/ Drop(d)
           \/ StepBack \/ Restart \/ UNCHANGED eventsVars
  BY DEF EventsNext, Fan, Device, Fails

-----------------------------------------------------------------------------
(* What the fan-outs do. *)

(* The fan-out goes on with the members that are left. *)
LEMMA ReachedIs ==
    ASSUME EventTypes, NEW c \in Changers, NEW u \in Users, Reached(c, u)
    PROVE  \E r \in Fanout :
              /\ change' = [change EXCEPT ![c] = r] /\ r.pc \in {"idle", "link"}
              /\ r.pc = "link" => r.version = change[c].version
              /\ \A w \in change[c].todo \ {u} : r.pc = "link" /\ w \in r.todo
<1> DEFINE on == [change[c] EXCEPT !.pc = "link", !.todo = change[c].todo \ {u}, !.found = FALSE]
           r == IF change[c].todo = {u} THEN NoChange ELSE on
<1>1. change[c] \in Fanout
  BY DEF EventTypes
<1>2. /\ on \in Fanout /\ on.pc = "link" /\ on.version = change[c].version
      /\ on.todo = change[c].todo \ {u}
  BY <1>1 DEF Fanout
<1>3. NoChange \in Fanout /\ NoChange.pc = "idle"
  BY DEF NoChange, Fanout
<1>4. change' = [change EXCEPT ![c] = r]
  BY DEF Reached
<1>5. r \in Fanout /\ r.pc \in {"idle", "link"}
      /\ (r.pc = "link" => r.version = change[c].version)
      /\ \A w \in change[c].todo \ {u} : r.pc = "link" /\ w \in r.todo
  BY <1>2, <1>3
<1> HIDE DEF r
<1> QED
  BY <1>4, <1>5

(* A changer at work keeps the number of its change, and a new change has one of
   its own. *)
LEMMA DistinctKept ==
    ASSUME EventTypes, Distinct, NEW c \in Changers, NEW r \in Fanout,
           change' = [change EXCEPT ![c] = r], version <= version', version' \in Nat, 0 < now',
           r.pc # "idle" => \/ change[c].pc # "idle" /\ r.version = change[c].version
                            \/ version' = version + 1 /\ r.version = version',
           r.pc = "stamp" => 0 < r.ns
    PROVE  Distinct'
<1> USE DEF EventTypes, Fanout
<1>1. \A e \in Changers : change'[e] = IF e = c THEN r ELSE change[e]
  OBVIOUS
<1>2. \A e \in Changers : change'[e].pc # "idle" =>
         \/ change[e].pc # "idle" /\ change'[e].version = change[e].version
         \/ e = c /\ version' = version + 1 /\ change'[e].version = version'
  BY <1>1
<1>3. \A e \in Changers : change[e].pc # "idle" => change[e].version <= version
  BY DEF Distinct
<1>4. \A e \in Changers : change[e].version \in Nat
  OBVIOUS
<1>5. ASSUME NEW e \in Changers
      PROVE  /\ change'[e].pc # "idle" => change'[e].version <= version'
             /\ change'[e].pc = "stamp" => 0 < change'[e].ns
  BY <1>1, <1>2, <1>3, <1>4 DEF Distinct
<1>6. ASSUME NEW e \in Changers, NEW f \in Changers, e # f, change'[e].pc # "idle",
             change'[f].pc # "idle"
      PROVE  change'[e].version # change'[f].version
  BY <1>2, <1>3, <1>4, <1>6 DEF Distinct
<1> QED
  BY <1>5, <1>6 DEF Distinct

(* What is pending for w stays so, but for what changer c does. *)
LEMMA PendingKept ==
    ASSUME EventTypes, NEW c \in Changers, NEW r \in Fanout, change' = [change EXCEPT ![c] = r],
           NEW w \in Users, NEW v \in Nat, Pending(w, v),
           change[c].pc # "idle" /\ change[c].version = v /\ w \in change[c].todo /\ ~Own(c, w)
              => r.pc # "idle" /\ r.version = v /\ w \in r.todo /\ ~Own(c, w)'
    PROVE  Pending(w, v)'
<1>1. PICK e \in Changers : change[e].pc # "idle" /\ change[e].version = v
                            /\ w \in change[e].todo /\ ~Own(e, w)
  BY DEF Pending
<1>2. CASE e = c
  <2>1. change'[c] = r
    BY DEF EventTypes
  <2> QED
    BY <1>1, <1>2, <2>1 DEF Pending
<1>3. CASE e # c
  <2>1. change'[e] = change[e]
    BY <1>3 DEF EventTypes
  <2> QED
    BY <1>1, <2>1 DEF Pending, Own
<1> QED
  BY <1>2, <1>3

(* A stamp that is not excused keeps confirms from the entry. *)
LEMMA StampedHolds ==
    ASSUME EventTypes, Clocked, NEW u \in Users, NEW t \in Nat, 0 < t, Stamped(u, t),
           steps = 0 => Tick(t), UNCHANGED <<handed, client>>
    PROVE  u \in missed' \/ ~Exposed(u)'
<1> SUFFICES ASSUME u \notin missed' PROVE ~Exposed(u)'
  OBVIOUS
<1>1. ~Unprotected(u, t) /\ link'[u] = t
  BY DEF Stamped, EventTypes
<1>2. Noted(u)' = Noted(u)
  BY DEF Noted
<1>3. ASSUME NEW h \in Noted(u), h # 0, Float(t) <= h PROVE FALSE
  <2>1. steps = 0 /\ latest[u] < t
    BY <1>1, <1>3 DEF Unprotected, EventTypes
  <2>2. h <= Float(latest[u])
    <3>1. h = handed[u] \/ \E d \in Devices : Owner(d) = u /\ client[d].pc = "compare"
                                              /\ h = client[d].mtime
      BY DEF Noted
    <3> QED
      BY <2>1, <3>1 DEF Clocked
  <2>3. latest[u] + Ulp <= t
    BY <2>1, Ticking DEF Clocked, EventTypes
  <2>4. Float(latest[u]) < Float(t) /\ Float(latest[u]) \in Nat /\ Float(t) \in Nat /\ h \in Nat
    BY <2>3, Floats, NotedTypes DEF EventTypes
  <2> QED
    BY <1>3, <2>2, <2>4
<1>4. \A d \in Devices : Owner(d) = u => client'[d].pc # "unlink"
  BY <1>1 DEF Unprotected
<1> QED
  BY <1>1, <1>2, <1>3, <1>4 DEF Exposed

(* Users of whose entry and confirms nothing changes. *)
LEMMA SameExposed ==
    ASSUME NEW w \in Users, link'[w] = link[w], UNCHANGED <<handed, client>>
    PROVE  Exposed(w)' <=> Exposed(w)
  BY DEF Exposed, Noted
(* The record of a changer, or of a device, after a step that changes one field
   or two. *)
LEMMA FanoutIs ==
    ASSUME EventTypes, NEW c \in Changers, NEW u \in Users
    PROVE  /\ FanLink(c, u) => \E r \in Fanout :
                 /\ change' = [change EXCEPT ![c] = r] /\ r.pc = "read"
                 /\ r.todo = change[c].todo /\ r.version = change[c].version
                 /\ r.found = (link[u] # 0)
           /\ FanRead(c, u) => \E r \in Fanout :
                 /\ change' = [change EXCEPT ![c] = r] /\ r.pc = "stamp"
                 /\ r.todo = change[c].todo /\ r.version = change[c].version
                 /\ r.found = change[c].found /\ r.ns = Larger(now + Ulp, link[u] + 1)
<1>1. change \in [Changers -> Fanout] /\ change[c] \in Fanout
  BY DEF EventTypes
<1>2. ASSUME FanLink(c, u)
      PROVE  \E r \in Fanout :
                /\ change' = [change EXCEPT ![c] = r] /\ r.pc = "read"
                /\ r.todo = change[c].todo /\ r.version = change[c].version
                /\ r.found = (link[u] # 0)
  <2> DEFINE r == [change[c] EXCEPT !.pc = "read", !.found = (link[u] # 0)]
  <2>1. change' = [change EXCEPT ![c] = r]
    BY <1>1, <1>2 DEF FanLink
  <2>2. /\ r \in Fanout /\ r.pc = "read" /\ r.todo = change[c].todo
        /\ r.version = change[c].version /\ r.found = (link[u] # 0)
    BY <1>1 DEF Fanout
  <2> QED
    BY <2>1, <2>2
<1>3. ASSUME FanRead(c, u)
      PROVE  \E r \in Fanout :
                /\ change' = [change EXCEPT ![c] = r] /\ r.pc = "stamp"
                /\ r.todo = change[c].todo /\ r.version = change[c].version
                /\ r.found = change[c].found /\ r.ns = Larger(now + Ulp, link[u] + 1)
  <2> DEFINE ns == Larger(now + Ulp, link[u] + 1)
             r == [change[c] EXCEPT !.pc = "stamp", !.ns = ns]
  <2>1. change' = [change EXCEPT ![c] = r]
    BY <1>1, <1>3 DEF FanRead
  <2>2. ns \in Nat
    BY BoundsAssumption, LargerIs DEF EventTypes
  <2> HIDE DEF ns
  <2>3. /\ r \in Fanout /\ r.pc = "stamp" /\ r.todo = change[c].todo
        /\ r.version = change[c].version /\ r.found = change[c].found /\ r.ns = ns
    BY <1>1, <2>2 DEF Fanout
  <2> QED
    BY <2>1, <2>3 DEF ns
<1> QED
  BY <1>2, <1>3

LEMMA ReaderIs ==
    ASSUME EventTypes, NEW d \in Devices,
           Poll(d) \/ HandOut(d) \/ HandOutFull(d) \/ LookEntry(d) \/ ReadNote(d)
           \/ Compare(d) \/ CompareGone(d) \/ Unlink(d) \/ Forget(d) \/ Drop(d)
    PROVE  \E r \in Reader : client' = [client EXCEPT ![d] = r] /\ r = client'[d]
<1>1. client \in [Devices -> Reader] /\ client[d] \in Reader /\ Owner(d) \in Users
  BY Owners DEF EventTypes
<1>2. Float(link[Owner(d)]) \in Nat /\ handed[Owner(d)] \in Nat
  BY <1>1, Floats DEF EventTypes
<1>3. /\ Idle \in Reader /\ [Idle EXCEPT !.pc = "confirm"] \in Reader
      /\ [pc |-> "hand", mtime |-> Float(link[Owner(d)])] \in Reader
      /\ \A pc \in {"compare", "unlink"} : [pc |-> pc, mtime |-> handed[Owner(d)]] \in Reader
      /\ \A pc \in {"note", "unlink", "forget"} : [client[d] EXCEPT !.pc = pc] \in Reader
  BY <1>1, <1>2 DEF Idle, Reader
<1>4. PICK r \in Reader : client' = [client EXCEPT ![d] = r]
  <2>1. CASE Poll(d) \/ HandOut(d) \/ HandOutFull(d) \/ Drop(d)
    BY <1>3, <2>1 DEF Poll, HandOut, HandOutFull, Answered, Drop, Goes
  <2>2. CASE LookEntry(d) \/ Compare(d) \/ CompareGone(d) \/ Forget(d)
    BY <1>3, <2>2 DEF LookEntry, Compare, CompareGone, Forget
  <2>3. CASE ReadNote(d)
    BY <1>3, <2>3 DEF ReadNote
  <2>4. CASE Unlink(d)
    BY <1>1, <1>3, <2>4 DEF Unlink, Move
  <2> QED
    BY <2>1, <2>2, <2>3, <2>4
<1> QED
  BY <1>1, <1>4

-----------------------------------------------------------------------------
(* The types. *)

LEMMA FanTypes ==
    ASSUME EventTypes, NEW c \in Changers, NEW u \in Users,
           FanLink(c, u) \/ FanRead(c, u) \/ FanStamp(c, u) \/ FanGone(c, u)
           \/ FanRefused(c, u) \/ FanGivesUp(c, u)
    PROVE  EventTypes'
<1>1. change' \in [Changers -> Fanout]
  <2>1. CASE FanLink(c, u) \/ FanRead(c, u)
    BY <2>1, FanoutIs DEF EventTypes
  <2>2. CASE Reached(c, u)
    BY <2>2, ReachedIs DEF EventTypes
  <2> QED
    BY <2>1, <2>2 DEF FanStamp, FanGone, FanRefused, FanGivesUp
<1>2. change[c].ns \in Nat /\ (FanRead(c, u) => now' \in Nat)
  BY BoundsAssumption DEF EventTypes, Fanout, FanRead
<1>3. \A t \in Nat : Stamped(u, t) =>
         link' \in [Users -> Nat] /\ latest' \in [Users -> Nat] /\ missed' \subseteq Users
  BY LargerIs DEF Stamped, EventTypes
<1>4. CASE FanLink(c, u) \/ FanStamp(c, u)
  BY <1>1, <1>2, <1>3, <1>4 DEF EventTypes, FanLink, FanStamp, env
<1>5. CASE FanRead(c, u)
  BY <1>1, <1>2, <1>5 DEF EventTypes, FanRead, env, history
<1>6. CASE FanGone(c, u) \/ FanRefused(c, u) \/ FanGivesUp(c, u)
  BY <1>1, <1>6 DEF EventTypes, FanGone, FanRefused, FanGivesUp, Unstamped, Goes, env
<1> QED
  BY <1>4, <1>5, <1>6

LEMMA DeviceTypes ==
    ASSUME EventTypes, NEW d \in Devices,
           Poll(d) \/ HandOut(d) \/ HandOutFull(d) \/ LookEntry(d) \/ ReadNote(d)
           \/ Compare(d) \/ CompareGone(d) \/ Unlink(d) \/ Forget(d) \/ Drop(d)
    PROVE  EventTypes'
<1>1. client' \in [Devices -> Reader]
  BY ReaderIs DEF EventTypes
<1>2. Owner(d) \in Users /\ client[d].mtime \in Nat
  BY Owners DEF EventTypes, Reader
<1>3. CASE Poll(d) \/ LookEntry(d) \/ ReadNote(d) \/ Compare(d) \/ Drop(d)
  BY <1>1, <1>3 DEF EventTypes, Poll, LookEntry, ReadNote, Compare, Drop, Goes, env, history
<1>4. CASE CompareGone(d) \/ Forget(d) \/ Unlink(d)
  BY <1>1, <1>2, <1>4 DEF EventTypes, CompareGone, Forget, Unlink, env, history
<1>5. CASE HandOut(d)
  BY <1>1, <1>2, <1>5 DEF EventTypes, HandOut, Answered
<1>6. CASE HandOutFull(d)
  BY <1>1, <1>2, <1>6 DEF EventTypes, HandOutFull, Answered, Goes
<1> QED
  BY <1>3, <1>4, <1>5, <1>6

LEMMA NewChange ==
    ASSUME EventTypes
    PROVE  LET r == [pc |-> "link", todo |-> Users, ns |-> 0,
                     version |-> version + 1, found |-> FALSE] IN
           /\ r \in Fanout /\ r.pc = "link" /\ r.todo = Users /\ r.version = version + 1
           /\ ~r.found
  BY DEF EventTypes, Fanout

LEMMA EventTypesStay ==
    ASSUME EventTypes, [EventsNext]_eventsVars
    PROVE  EventTypes'
<1>1. NoChange \in Fanout /\ Idle \in Reader /\ [Idle EXCEPT !.pc = "confirm"] \in Reader
  BY DEF NoChange, Idle, Fanout, Reader
<1>2. ASSUME NEW c \in Changers, Change(c) PROVE EventTypes'
  <2> DEFINE r == [pc |-> "link", todo |-> Users, ns |-> 0,
                   version |-> version + 1, found |-> FALSE]
  <2>1. r \in Fanout /\ change' = [change EXCEPT ![c] = r]
    BY <1>2, NewChange DEF Change
  <2> HIDE DEF r
  <2>2. change' \in [Changers -> Fanout]
    BY <2>1 DEF EventTypes
  <2> QED
    BY <1>2, <2>2 DEF EventTypes, Change, env, history
<1>3. ASSUME NEW c \in Changers, FanFails(c) PROVE EventTypes'
  <2>1. change[c].todo \subseteq Users
    BY DEF EventTypes, Fanout
  <2> QED
    BY <1>1, <1>3, <2>1 DEF EventTypes, FanFails, Goes
<1>4. CASE StepBack
  BY <1>4, BoundsAssumption DEF EventTypes, StepBack, history
<1>5. CASE Restart
  <2>1. UNION {change[c].todo : c \in Changers} \subseteq Users
    BY DEF EventTypes, Fanout
  <2> QED
    BY <1>1, <1>5, <2>1 DEF EventTypes, Restart, Goes
<1>6. CASE UNCHANGED eventsVars
  BY <1>6 DEF EventTypes, eventsVars, history, env
<1> QED
  BY <1>2, <1>3, <1>4, <1>5, <1>6, FanTypes, DeviceTypes, EventSteps

(* The numbers of the changes. *)
LEMMA DistinctStays ==
    ASSUME EventTypes, Distinct, [EventsNext]_eventsVars
    PROVE  Distinct'
<1> USE DEF EventTypes
<1>0. 0 < now /\ version <= version
  BY DEF Distinct
<1>1. ASSUME NEW c \in Changers, Change(c) PROVE Distinct'
  <2> DEFINE r == [pc |-> "link", todo |-> Users, ns |-> 0,
                   version |-> version + 1, found |-> FALSE]
  <2>1. r \in Fanout /\ r.pc = "link" /\ r.version = version + 1
    BY NewChange
  <2>2. change' = [change EXCEPT ![c] = r] /\ version' = version + 1 /\ now' = now
    BY <1>1 DEF Change
  <2> HIDE DEF r
  <2>3. /\ version <= version' /\ version' \in Nat /\ 0 < now' /\ r.pc # "stamp"
        /\ version' = version + 1 /\ r.version = version'
    BY <1>0, <2>1, <2>2
  <2> QED
    BY <2>1, <2>2, <2>3, DistinctKept
<1>2. ASSUME NEW c \in Changers, FanFails(c) PROVE Distinct'
  <2>1. NoChange \in Fanout /\ NoChange.pc = "idle"
    BY DEF NoChange, Fanout
  <2>2. change' = [change EXCEPT ![c] = NoChange] /\ version' = version /\ now' = now
    BY <1>2 DEF FanFails, Goes
  <2> QED
    BY <1>0, <2>1, <2>2, DistinctKept
<1>3. ASSUME NEW c \in Changers, NEW u \in Users, FanLink(c, u) PROVE Distinct'
  <2>1. change[c].pc = "link" /\ version' = version /\ now' = now
    BY <1>3 DEF FanLink, At
  <2> QED
    BY <1>0, <1>3, <2>1, FanoutIs, DistinctKept
<1>4. ASSUME NEW c \in Changers, NEW u \in Users, FanRead(c, u) PROVE Distinct'
  <2>1. change[c].pc = "read" /\ version' = version /\ now' = now + Ulp
    BY <1>4 DEF FanRead, At
  <2>2. 0 < now' /\ 0 < Larger(now + Ulp, link[u] + 1)
    BY <1>0, <2>1, BoundsAssumption, LargerIs
  <2> QED
    BY <1>0, <1>4, <2>1, <2>2, FanoutIs, DistinctKept
<1>5. ASSUME NEW c \in Changers, NEW u \in Users,
             FanStamp(c, u) \/ FanGone(c, u) \/ FanRefused(c, u) \/ FanGivesUp(c, u)
      PROVE  Distinct'
  <2>1. change[c].pc # "idle" /\ version' = version /\ now' = now /\ Reached(c, u)
    BY <1>5 DEF FanStamp, FanGone, FanRefused, FanGivesUp, Goes, At
  <2> QED
    BY <1>0, <2>1, ReachedIs, DistinctKept
<1>6. CASE Restart
  BY <1>0, <1>6 DEF Restart, Goes, Distinct, NoChange
<1>7. CASE StepBack
  BY <1>0, <1>7, BoundsAssumption DEF StepBack, Distinct
<1>8. ASSUME UNCHANGED <<version, now, change>> PROVE Distinct'
  BY <1>8 DEF Distinct
<1>9. ASSUME NEW d \in Devices,
             Poll(d) \/ HandOut(d) \/ HandOutFull(d) \/ LookEntry(d) \/ ReadNote(d)
             \/ Compare(d) \/ CompareGone(d) \/ Unlink(d) \/ Forget(d) \/ Drop(d)
      PROVE  UNCHANGED <<version, now, change>>
  BY <1>9 DEF Poll, HandOut, HandOutFull, Answered, LookEntry, ReadNote, Compare, CompareGone,
              Unlink, Forget, Drop, Goes
<1>10. CASE UNCHANGED eventsVars
  BY <1>8, <1>10 DEF eventsVars
<1> QED
  BY <1>1, <1>2, <1>3, <1>4, <1>5, <1>6, <1>7, <1>8, <1>9, <1>10, EventSteps
-----------------------------------------------------------------------------
(* The entries that confirms may take away. *)

(* A fan-out leaves a member guarded whose entry it does not touch, if it goes
   on with the change for them. *)
LEMMA FanKeeps ==
    ASSUME EventTypes, Guarded, NEW c \in Changers, NEW r \in Fanout,
           change' = [change EXCEPT ![c] = r], UNCHANGED <<version, shown, handed, client>>,
           NEW w \in Users, link'[w] = link[w], w \in missed => w \in missed',
           \/ w \in missed'
           \/ change[c].pc # "idle" /\ w \in change[c].todo /\ ~Own(c, w)
                => r.pc # "idle" /\ r.version = change[c].version /\ w \in r.todo /\ ~Own(c, w)'
    PROVE  Exposed(w)' => w \in missed' \/ Covered(w)'
<1> SUFFICES ASSUME Exposed(w)', w \notin missed' PROVE Covered(w)'
  OBVIOUS
<1>1. Covered(w)
  BY SameExposed DEF Guarded
<1>2. ASSUME NEW v \in 1..version, shown[w] < v PROVE Pending(w, v)'
  <2>1. Pending(w, v) /\ v \in Nat
    BY <1>1, <1>2 DEF Covered, EventTypes
  <2> QED
    BY <2>1, PendingKept
<1> QED
  BY <1>2 DEF Covered

(* A device leaves the members guarded if it exposes nothing. *)
LEMMA DeviceKeeps ==
    ASSUME Guarded, UNCHANGED <<version, shown, change>>, NEW w \in Users,
           w \in missed => w \in missed', Exposed(w)' => Exposed(w) \/ w \in missed'
    PROVE  Exposed(w)' => w \in missed' \/ Covered(w)'
<1>1. Covered(w)' = Covered(w)
  BY DEF Covered, Pending, Own
<1> QED
  BY <1>1 DEF Guarded

(* Nothing is exposed by what a device does to the notes and to itself, if it
   compares with a note and unlinks what it may. *)
LEMMA NothingExposed ==
    ASSUME EventTypes, NEW d \in Devices, NEW r \in Reader, client' = [client EXCEPT ![d] = r],
           NEW w \in Users, link'[w] = link[w], handed'[w] \in {0, handed[w]},
           Owner(d) = w => /\ r.pc = "compare" => r.mtime \in Noted(w)
                           /\ r.pc = "unlink" => r.mtime = 0 \/ Exposed(w)
    PROVE  Exposed(w)' => Exposed(w)
<1>1. \A e \in Devices : client'[e] = IF e = d THEN r ELSE client[e]
  BY DEF EventTypes
<1>2. \A h \in Noted(w)' : h = 0 \/ h \in Noted(w)
  BY <1>1 DEF Noted
<1>3. ASSUME NEW e \in Devices, Owner(e) = w, client'[e].pc = "unlink", client'[e].mtime # 0
      PROVE  Exposed(w)
  BY <1>1, <1>3 DEF Exposed
<1> QED
  BY <1>2, <1>3 DEF Exposed

LEMMA GuardedByFans ==
    ASSUME EventTypes, Distinct, Guarded, Clocked, NEW c \in Changers, NEW u \in Users,
           FanLink(c, u) \/ FanRead(c, u) \/ FanStamp(c, u) \/ FanGone(c, u)
           \/ FanRefused(c, u) \/ FanGivesUp(c, u)
    PROVE  Guarded'
<1>0. /\ UNCHANGED <<version, shown, handed, client>>
      /\ First(u, change[c].todo) /\ change[c].pc # "idle"
  BY DEF FanLink, FanRead, FanStamp, FanGone, FanRefused, FanGivesUp, Goes, At, history
<1>1. \A w \in Users \ {u} : ~First(w, change[c].todo)
  BY <1>0, Firsts
<1>2. ASSUME FanLink(c, u) PROVE Guarded'
  <2>1. PICK r \in Fanout : /\ change' = [change EXCEPT ![c] = r] /\ r.pc = "read"
                            /\ r.todo = change[c].todo /\ r.version = change[c].version
                            /\ r.found = (link[u] # 0)
    BY <1>2, FanoutIs
  <2>2. change'[c] = r
    BY <2>1 DEF EventTypes
  <2>3. \A w \in Users : w # u \/ link[u] # 0 => ~Own(c, w)'
    BY <1>1, <2>1, <2>2 DEF Own, First
  <2>4. CASE link[u] # 0
    <3>1. UNCHANGED <<link, missed>>
      BY <1>2, <2>4 DEF FanLink
    <3> QED
      BY <1>0, <2>1, <2>3, <2>4, <3>1, FanKeeps DEF Guarded
  <2>5. CASE link[u] = 0
    <3>1. Stamped(u, now)
      BY <1>2, <2>5 DEF FanLink
    <3>2. Exposed(u)' => u \in missed' \/ Covered(u)'
      BY <1>0, <3>1, StampedHolds DEF Distinct, Clocked, EventTypes
    <3>3. \A w \in Users \ {u} : link'[w] = link[w] /\ (w \in missed => w \in missed')
      BY <3>1 DEF Stamped, EventTypes
    <3>4. \A w \in Users \ {u} : Exposed(w)' => w \in missed' \/ Covered(w)'
      BY <1>0, <2>1, <2>3, <3>3, FanKeeps
    <3> QED
      BY <3>2, <3>4 DEF Guarded
  <2> QED
    BY <2>4, <2>5
<1>3. ASSUME FanRead(c, u) PROVE Guarded'
  <2>1. PICK r \in Fanout : /\ change' = [change EXCEPT ![c] = r] /\ r.pc = "stamp"
                            /\ r.todo = change[c].todo /\ r.version = change[c].version
                            /\ r.found = change[c].found
    BY <1>3, FanoutIs
  <2>2. change'[c] = r /\ change[c].pc = "read" /\ UNCHANGED <<link, missed>>
    BY <1>3, <2>1 DEF EventTypes, FanRead, At, history
  <2>3. \A w \in Users : ~Own(c, w) => ~Own(c, w)'
    BY <2>1, <2>2 DEF Own
  <2> QED
    BY <1>0, <2>1, <2>2, <2>3, FanKeeps DEF Guarded
<1>4. ASSUME Reached(c, u) PROVE
         /\ \A w \in Users \ {u} : link'[w] = link[w] /\ (w \in missed => w \in missed')
               => (Exposed(w)' => w \in missed' \/ Covered(w)')
         /\ link'[u] = link[u] /\ (u \in missed => u \in missed') /\ (u \in missed' \/ Own(c, u))
               => (Exposed(u)' => u \in missed' \/ Covered(u)')
  <2>1. PICK r \in Fanout :
           /\ change' = [change EXCEPT ![c] = r] /\ r.pc \in {"idle", "link"}
           /\ r.pc = "link" => r.version = change[c].version
           /\ \A w \in change[c].todo \ {u} : r.pc = "link" /\ w \in r.todo
    BY <1>4, ReachedIs
  <2>2. change'[c] = r
    BY <2>1 DEF EventTypes
  <2>3. \A w \in Users : ~Own(c, w)'
    BY <2>1, <2>2 DEF Own
  <2>4. ASSUME NEW w \in Users \ {u}, link'[w] = link[w], w \in missed => w \in missed'
        PROVE  Exposed(w)' => w \in missed' \/ Covered(w)'
    BY <1>0, <2>1, <2>3, <2>4, FanKeeps
  <2>5. ASSUME link'[u] = link[u], u \in missed => u \in missed', u \in missed' \/ Own(c, u)
        PROVE  Exposed(u)' => u \in missed' \/ Covered(u)'
    BY <1>0, <2>1, <2>3, <2>5, FanKeeps
  <2> QED
    BY <2>4, <2>5
<1>5. ASSUME FanStamp(c, u) PROVE Guarded'
  <2>1. Reached(c, u) /\ Stamped(u, change[c].ns) /\ change[c].pc = "stamp"
    BY <1>5 DEF FanStamp, At
  <2>2. change[c].ns \in Nat /\ 0 < change[c].ns /\ (steps = 0 => Tick(change[c].ns))
    BY <2>1 DEF EventTypes, Fanout, Distinct, Clocked
  <2>3. Exposed(u)' => u \in missed' \/ Covered(u)'
    BY <1>0, <2>1, <2>2, StampedHolds
  <2>4. \A w \in Users \ {u} : link'[w] = link[w] /\ (w \in missed => w \in missed')
    BY <2>1 DEF Stamped, EventTypes
  <2> QED
    BY <1>4, <2>1, <2>3, <2>4 DEF Guarded
<1>6. ASSUME FanGone(c, u) \/ FanRefused(c, u) PROVE Guarded'
  <2>1. /\ Reached(c, u) /\ Unstamped(c, u) /\ link' = link
        /\ change[c].pc \in {"read", "stamp"}
    BY <1>6 DEF FanGone, FanRefused, Goes, At
  <2>2. missed \subseteq missed' /\ (u \in missed' \/ Own(c, u))
    BY <1>0, <2>1 DEF Unstamped, Own
  <2> QED
    BY <1>4, <2>1, <2>2 DEF Guarded
<1>7. ASSUME FanGivesUp(c, u) PROVE Guarded'
  <2>1. Reached(c, u) /\ link' = link /\ missed' = missed \cup {u}
    BY <1>7 DEF FanGivesUp
  <2> QED
    BY <1>4, <2>1 DEF Guarded
<1> QED
  BY <1>2, <1>3, <1>5, <1>6, <1>7

LEMMA GuardedByDevices ==
    ASSUME EventTypes, Guarded, NEW d \in Devices,
           Poll(d) \/ HandOut(d) \/ HandOutFull(d) \/ LookEntry(d) \/ ReadNote(d)
           \/ Compare(d) \/ CompareGone(d) \/ Unlink(d) \/ Forget(d) \/ Drop(d)
    PROVE  Guarded'
<1>0. Owner(d) \in Users /\ client[d] \in Reader /\ \A w \in Users : link[w] \in Nat
  BY Owners DEF EventTypes
<1>1. PICK r \in Reader : client' = [client EXCEPT ![d] = r] /\ r = client'[d]
  BY ReaderIs
<1>2. CASE Poll(d) \/ LookEntry(d) \/ ReadNote(d) \/ Compare(d) \/ Drop(d)
  <2>1. UNCHANGED <<version, shown, change, link, handed, missed>>
    BY <1>2 DEF Poll, LookEntry, ReadNote, Compare, Drop, Goes, history
  <2>2. /\ r.pc = "compare" => r.mtime \in Noted(Owner(d))
        /\ r.pc = "unlink" => r.mtime = 0 \/ Exposed(Owner(d))
    <3>1. CASE Poll(d) \/ LookEntry(d) \/ Drop(d)
      BY <1>0, <1>1, <3>1 DEF Poll, LookEntry, Drop, Goes, Idle, EventTypes, Reader
    <3>2. CASE ReadNote(d)
      BY <1>0, <1>1, <3>2 DEF ReadNote, Noted, EventTypes, Reader
    <3>3. CASE Compare(d)
      <4>1. client[d].mtime \in Noted(Owner(d))
        BY <3>3 DEF Compare, Noted
      <4>2. r.pc # "compare" /\ (r.pc = "unlink" => ~Superseded(d) /\ r.mtime = client[d].mtime)
        BY <1>0, <1>1, <3>3 DEF Compare, Idle, EventTypes, Reader
      <4>3. r.pc = "unlink" => Float(link[Owner(d)]) <= r.mtime
        BY <1>0, <4>2, Floats DEF Superseded, Reader
      <4> QED
        BY <4>1, <4>2, <4>3 DEF Exposed
    <3> QED
      BY <1>2, <3>1, <3>2, <3>3
  <2> QED
    BY <1>1, <2>1, <2>2, NothingExposed, DeviceKeeps DEF Guarded
<1>3. CASE HandOut(d) \/ HandOutFull(d)
  <2>1. /\ UNCHANGED <<version, change, link, missed>> /\ client[d].pc = "hand"
        /\ shown' = [shown EXCEPT ![Owner(d)] = version] /\ r.pc = "confirm"
    BY <1>0, <1>1, <1>3 DEF HandOut, HandOutFull, Answered, Goes, Idle, EventTypes, Reader
  <2>2. Covered(Owner(d))'
    BY <1>0, <2>1 DEF Covered, EventTypes
  <2>3. \A w \in Users \ {Owner(d)} : handed'[w] \in {0, handed[w]} /\ shown'[w] = shown[w]
    BY <1>3, <2>1 DEF HandOut, HandOutFull, Goes, EventTypes
  <2>4. ASSUME NEW w \in Users \ {Owner(d)} PROVE Exposed(w)' => w \in missed' \/ Covered(w)'
    <3>1. Exposed(w)' => Exposed(w)
      BY <1>1, <2>1, <2>3, NothingExposed
    <3>2. Covered(w)' = Covered(w)
      BY <2>1, <2>3 DEF Covered, Pending, Own
    <3> QED
      BY <2>1, <3>1, <3>2 DEF Guarded
  <2> QED
    BY <2>2, <2>4 DEF Guarded
<1>4. CASE CompareGone(d) \/ Forget(d)
  <2>1. UNCHANGED <<version, shown, change, link, missed>> /\ r.pc = "poll"
    BY <1>1, <1>4 DEF CompareGone, Forget, history, Idle, EventTypes
  <2>2. \A w \in Users : handed'[w] \in {0, handed[w]}
    BY <1>4 DEF CompareGone, Forget, EventTypes
  <2> QED
    BY <1>1, <2>1, <2>2, NothingExposed, DeviceKeeps DEF Guarded
<1>5. CASE Unlink(d)
  <2>1. /\ UNCHANGED <<version, shown, change, handed>> /\ r.pc = "forget"
        /\ link' = [link EXCEPT ![Owner(d)] = 0] /\ missed \subseteq missed'
        /\ client[d].pc = "unlink"
        /\ link[Owner(d)] # 0 /\ client[d].mtime = 0 => Owner(d) \in missed'
    BY <1>0, <1>1, <1>5 DEF Unlink, Move, EventTypes, Reader
  <2>2. Exposed(Owner(d)) \/ Owner(d) \in missed'
    BY <2>1 DEF Exposed
  <2>3. \A w \in Users \ {Owner(d)} : link'[w] = link[w]
    BY <2>1 DEF EventTypes
  <2>4. \A w \in Users \ {Owner(d)} : Exposed(w)' => Exposed(w)
    BY <1>1, <2>1, <2>3, NothingExposed
  <2> QED
    BY <2>1, <2>2, <2>4, DeviceKeeps DEF Guarded
<1> QED
  BY <1>2, <1>3, <1>4, <1>5

LEMMA GuardedStays ==
    ASSUME EventTypes, Distinct, Guarded, Clocked, [EventsNext]_eventsVars
    PROVE  Guarded'
<1>1. ASSUME NEW c \in Changers, Change(c) PROVE Guarded'
  <2> DEFINE r == [pc |-> "link", todo |-> Users, ns |-> 0,
                   version |-> version + 1, found |-> FALSE]
  <2>1. /\ r \in Fanout /\ r.pc = "link" /\ r.todo = Users /\ r.version = version + 1
    BY NewChange
  <2>2. /\ change' = [change EXCEPT ![c] = r] /\ version' = version + 1
        /\ UNCHANGED <<link, handed, client, shown, missed>> /\ change[c].pc = "idle"
    BY <1>1 DEF Change, history
  <2> HIDE DEF r
  <2>3. change'[c] = r
    BY <2>2 DEF EventTypes
  <2>4. ASSUME NEW w \in Users, Covered(w) PROVE Covered(w)'
    <3>1. ASSUME NEW v \in Nat, v = version + 1 PROVE Pending(w, v)'
      BY <2>1, <2>3, <3>1 DEF Pending, Own
    <3>2. ASSUME NEW v \in 1..version, shown[w] < v PROVE Pending(w, v)'
      <4>1. Pending(w, v) /\ v \in Nat
        BY <2>4, <3>2 DEF Covered, EventTypes
      <4> QED
        BY <2>1, <2>2, <4>1, PendingKept
    <3>3. \A v \in 1..version' : v \in Nat /\ (v = version + 1 \/ v \in 1..version)
      BY <2>2 DEF EventTypes
    <3> QED
      BY <2>2, <3>1, <3>2, <3>3 DEF Covered
  <2> QED
    BY <2>2, <2>4, SameExposed DEF Guarded
<1>2. ASSUME NEW c \in Changers, FanFails(c) PROVE Guarded'
  <2>1. /\ UNCHANGED <<version, shown, handed, client, link>>
        /\ change' = [change EXCEPT ![c] = NoChange] /\ missed' = missed \cup change[c].todo
    BY <1>2 DEF FanFails, Goes
  <2>2. NoChange \in Fanout
    BY DEF NoChange, Fanout
  <2> QED
    BY <2>1, <2>2, FanKeeps DEF Guarded
<1>3. CASE Restart
  <2>1. /\ UNCHANGED <<version, shown, link>> /\ handed' = [u \in Users |-> 0]
        /\ missed' = missed \cup UNION {change[c].todo : c \in Changers}
        /\ \A d \in Devices : client'[d].pc \in {"poll", "confirm"}
    BY <1>3 DEF Restart, Goes, Idle
  <2>2. ASSUME NEW w \in Users PROVE Exposed(w)' => Exposed(w)
    <3>1. \A h \in Noted(w)' : h = 0
      BY <2>1 DEF Noted
    <3> QED
      BY <2>1, <3>1 DEF Exposed
  <2>3. ASSUME NEW w \in Users, Covered(w), w \notin missed' PROVE Covered(w)'
    <3>1. \A v \in 1..version : ~Pending(w, v)
      BY <2>1, <2>3 DEF Pending
    <3>2. \A v \in 1..version : ~(shown[w] < v)
      BY <2>3, <3>1 DEF Covered
    <3> QED
      BY <2>1, <3>2 DEF Covered
  <2> QED
    BY <2>1, <2>2, <2>3 DEF Guarded
<1>4. CASE StepBack \/ UNCHANGED eventsVars
  <2>1. UNCHANGED <<version, shown, link, handed, client, change, missed>>
    BY <1>4 DEF StepBack, eventsVars, history
  <2> QED
    BY <2>1, SameExposed, DeviceKeeps DEF Guarded
<1> QED
  BY <1>1, <1>2, <1>3, <1>4, GuardedByFans, GuardedByDevices, EventSteps
-----------------------------------------------------------------------------
(* The stamps. *)

LEMMA StampedClocked ==
    ASSUME EventTypes, Clocked, NEW u \in Users, NEW t \in Nat, Stamped(u, t), steps = 0,
           Tick(t), t <= now, UNCHANGED <<handed, client, now>>
    PROVE  /\ \A w \in Users : /\ Tick(latest'[w]) /\ latest'[w] <= now' /\ link'[w] <= latest'[w]
                               /\ handed'[w] <= Float(latest'[w])
           /\ \A d \in Devices : client'[d].pc \in {"hand", "compare"} =>
                 client'[d].mtime <= Float(latest'[Owner(d)])
<1>1. latest'[u] = Larger(latest[u], t) /\ link'[u] = t
      /\ \A w \in Users \ {u} : latest'[w] = latest[w] /\ link'[w] = link[w]
  BY DEF Stamped, EventTypes
<1>2. \A w \in Users : latest[w] \in Nat /\ handed[w] \in Nat
  BY DEF EventTypes
<1>3. ASSUME NEW w \in Users
      PROVE  /\ latest'[w] \in Nat /\ latest[w] <= latest'[w]
             /\ Tick(latest'[w]) /\ latest'[w] <= now' /\ link'[w] <= latest'[w]
  <2>1. CASE w = u
    BY <1>1, <1>2, <2>1, LargerIs DEF Clocked
  <2>2. CASE w # u
    BY <1>1, <1>2, <2>2 DEF Clocked
  <2> QED
    BY <2>1, <2>2
<1>4. ASSUME NEW w \in Users, NEW h \in Nat, h <= Float(latest[w])
      PROVE  h <= Float(latest'[w])
  <2>1. /\ Float(latest[w]) <= Float(latest'[w])
        /\ Float(latest[w]) \in Nat /\ Float(latest'[w]) \in Nat
    BY <1>2, <1>3, Floats
  <2> QED
    BY <1>4, <2>1
<1>5. \A d \in Devices : client[d].mtime \in Nat
  BY DEF EventTypes, Reader
<1> QED
  BY <1>2, <1>3, <1>4, <1>5, Owners DEF Clocked

LEMMA ClockedStays ==
    ASSUME EventTypes, Clocked, [EventsNext]_eventsVars
    PROVE  Clocked'
<1> SUFFICES ASSUME steps' = 0 PROVE Clocked'
  BY DEF Clocked
<1>0. steps = 0 /\ ~StepBack
  <2>1. ~StepBack
    BY DEF StepBack, EventTypes
  <2>2. \A c \in Changers : Change(c) \/ FanFails(c) => steps' = steps
    BY DEF Change, FanFails, env
  <2>3. \A c \in Changers, u \in Users :
           FanLink(c, u) \/ FanRead(c, u) \/ FanStamp(c, u) \/ FanGone(c, u)
           \/ FanRefused(c, u) \/ FanGivesUp(c, u) => steps' = steps
    BY DEF FanLink, FanRead, FanStamp, FanGone, FanRefused, FanGivesUp, env
  <2>4. \A d \in Devices :
           Poll(d) \/ HandOut(d) \/ HandOutFull(d) \/ LookEntry(d) \/ ReadNote(d)
           \/ Compare(d) \/ CompareGone(d) \/ Unlink(d) \/ Forget(d) \/ Drop(d) => steps' = steps
    BY DEF Poll, HandOut, HandOutFull, Answered, LookEntry, ReadNote, Compare, CompareGone,
           Unlink, Forget, Drop, env
  <2>5. Restart \/ UNCHANGED eventsVars => steps' = steps
    BY DEF Restart, eventsVars, env
  <2> QED
    BY <2>1, <2>2, <2>3, <2>4, <2>5, EventSteps
<1>1. /\ Tick(now)
      /\ \A u \in Users : /\ Tick(latest[u]) /\ latest[u] <= now /\ link[u] <= latest[u]
                          /\ handed[u] <= Float(latest[u])
      /\ \A d \in Devices : client[d].pc \in {"hand", "compare"} =>
            client[d].mtime <= Float(latest[Owner(d)])
      /\ \A c \in Changers : change[c].pc = "stamp" => Tick(change[c].ns) /\ change[c].ns <= now
  BY <1>0 DEF Clocked
<1>2. \A u \in Users : link[u] \in Nat /\ latest[u] \in Nat /\ handed[u] \in Nat
                       /\ Float(latest[u]) \in Nat
  BY Floats DEF EventTypes
(* No new stamp is on its way. *)
<1>3. ASSUME NEW c \in Changers, NEW r \in Fanout, change' = [change EXCEPT ![c] = r],
             r.pc # "stamp"
      PROVE  \A e \in Changers : change'[e].pc = "stamp" =>
                change[e].pc = "stamp" /\ change'[e].ns = change[e].ns
  BY <1>3 DEF EventTypes
<1>4. ASSUME NEW c \in Changers, NEW u \in Users, Reached(c, u)
      PROVE  \A e \in Changers : change'[e].pc = "stamp" =>
                change[e].pc = "stamp" /\ change'[e].ns = change[e].ns
  BY <1>3, <1>4, ReachedIs
<1>5. ASSUME UNCHANGED <<now, link, handed, client, latest>>,
             \A e \in Changers : change'[e].pc = "stamp" =>
                change[e].pc = "stamp" /\ change'[e].ns = change[e].ns
      PROVE  Clocked'
  BY <1>1, <1>5 DEF Clocked
<1>6. ASSUME NEW c \in Changers, Change(c) \/ FanFails(c) PROVE Clocked'
  <2>1. NoChange \in Fanout /\ NoChange.pc = "idle"
    BY DEF NoChange, Fanout
  <2>2. PICK r \in Fanout : change' = [change EXCEPT ![c] = r] /\ r.pc # "stamp"
    BY <1>6, <2>1, NewChange DEF Change, FanFails
  <2> QED
    BY <1>3, <1>5, <1>6, <2>2 DEF Change, FanFails, Goes, history
<1>7. ASSUME NEW c \in Changers, NEW u \in Users,
             FanGone(c, u) \/ FanRefused(c, u) \/ FanGivesUp(c, u)
      PROVE  Clocked'
  BY <1>4, <1>5, <1>7 DEF FanGone, FanRefused, FanGivesUp, Goes
<1>8. ASSUME NEW c \in Changers, NEW u \in Users, FanLink(c, u) PROVE Clocked'
  <2>1. UNCHANGED <<now, handed, client>>
    BY <1>8 DEF FanLink
  <2>2. \A e \in Changers : change'[e].pc = "stamp" =>
           change[e].pc = "stamp" /\ change'[e].ns = change[e].ns
    BY <1>3, <1>8, FanoutIs
  <2>3. CASE link[u] # 0
    BY <1>5, <1>8, <2>1, <2>2, <2>3 DEF FanLink
  <2>4. CASE link[u] = 0
    <3>1. Stamped(u, now) /\ now \in Nat
      BY <1>8, <2>4 DEF FanLink, EventTypes
    <3>2. /\ \A w \in Users : /\ Tick(latest'[w]) /\ latest'[w] <= now'
                              /\ link'[w] <= latest'[w] /\ handed'[w] <= Float(latest'[w])
          /\ \A d \in Devices : client'[d].pc \in {"hand", "compare"} =>
                client'[d].mtime <= Float(latest'[Owner(d)])
      BY <1>0, <1>1, <2>1, <3>1, StampedClocked
    <3> QED
      BY <1>1, <2>1, <2>2, <3>2 DEF Clocked
  <2> QED
    BY <2>3, <2>4
<1>9. ASSUME NEW c \in Changers, NEW u \in Users, FanStamp(c, u) PROVE Clocked'
  <2>1. /\ Reached(c, u) /\ Stamped(u, change[c].ns) /\ change[c].pc = "stamp"
        /\ change[c].ns \in Nat /\ UNCHANGED <<now, handed, client>>
    BY <1>9 DEF FanStamp, At, EventTypes, Fanout
  <2>2. /\ \A w \in Users : /\ Tick(latest'[w]) /\ latest'[w] <= now'
                            /\ link'[w] <= latest'[w] /\ handed'[w] <= Float(latest'[w])
        /\ \A d \in Devices : client'[d].pc \in {"hand", "compare"} =>
              client'[d].mtime <= Float(latest'[Owner(d)])
    BY <1>0, <1>1, <2>1, StampedClocked
  <2> QED
    BY <1>1, <1>4, <2>1, <2>2 DEF Clocked
<1>10. ASSUME NEW c \in Changers, NEW u \in Users, FanRead(c, u) PROVE Clocked'
  <2>1. now' = now + Ulp /\ UNCHANGED <<link, handed, client, latest>>
    BY <1>10 DEF FanRead, history
  <2>2. Tick(now') /\ now <= now' /\ now' \in Nat /\ link[u] + 1 <= now'
    BY <1>1, <1>2, <2>1, Ticking, BoundsAssumption DEF EventTypes
  <2>3. PICK r \in Fanout : change' = [change EXCEPT ![c] = r] /\ r.ns = Larger(now', link[u] + 1)
    BY <1>10, <2>1, FanoutIs
  <2>4. Larger(now', link[u] + 1) = now'
    BY <1>2, <2>2 DEF Larger
  <2>5. ASSUME NEW e \in Changers, change'[e].pc = "stamp"
        PROVE  Tick(change'[e].ns) /\ change'[e].ns <= now'
    <3>1. CASE e = c
      BY <2>2, <2>3, <2>4, <3>1 DEF EventTypes
    <3>2. CASE e # c
      <4>1. change'[e] = change[e] /\ change[e].ns \in Nat
        BY <2>3, <3>2 DEF EventTypes, Fanout
      <4> QED
        BY <1>1, <2>2, <2>5, <4>1 DEF EventTypes
    <3> QED
      BY <3>1, <3>2
  <2>6. \A w \in Users : latest[w] <= now'
    BY <1>1, <1>2, <2>2 DEF EventTypes
  <2> QED
    BY <1>1, <2>1, <2>2, <2>5, <2>6 DEF Clocked
(* A device notes what it has read. *)
<1>11. ASSUME UNCHANGED <<now, change, latest>>, NEW d \in Devices, NEW r \in Reader,
              client' = [client EXCEPT ![d] = r],
              r.pc \in {"hand", "compare"} => r.mtime <= Float(latest[Owner(d)]),
              \A w \in Users : link'[w] \in {0, link[w]},
              \A w \in Users : \/ handed'[w] \in {0, handed[w]}
                               \/ w = Owner(d) /\ handed'[w] <= Float(latest[w])
       PROVE  Clocked'
  <2>1. \A e \in Devices : client'[e] = IF e = d THEN r ELSE client[e]
    BY <1>11 DEF EventTypes
  <2>2. \A e \in Devices : client'[e].pc \in {"hand", "compare"} =>
           client'[e].mtime <= Float(latest'[Owner(e)])
    BY <1>1, <1>11, <2>1
  <2>3. \A w \in Users : link'[w] <= latest'[w] /\ handed'[w] <= Float(latest'[w])
    BY <1>1, <1>2, <1>11
  <2> QED
    BY <1>1, <1>11, <2>2, <2>3 DEF Clocked
<1>12. ASSUME NEW d \in Devices,
              Poll(d) \/ HandOut(d) \/ HandOutFull(d) \/ LookEntry(d) \/ ReadNote(d)
              \/ Compare(d) \/ CompareGone(d) \/ Unlink(d) \/ Forget(d) \/ Drop(d)
       PROVE  Clocked'
  <2>0. Owner(d) \in Users /\ client[d] \in Reader
    BY Owners DEF EventTypes
  <2>1. PICK r \in Reader : client' = [client EXCEPT ![d] = r] /\ r = client'[d]
    BY <1>12, ReaderIs
  <2>2. UNCHANGED <<now, change, latest>> /\ \A w \in Users : link'[w] \in {0, link[w]}
    BY <1>12 DEF Poll, HandOut, HandOutFull, Answered, LookEntry, ReadNote, Compare, CompareGone,
                 Unlink, Forget, Drop, Goes, history, EventTypes
  <2>3. CASE Poll(d)
    <3>1. r.mtime = Float(link[Owner(d)]) /\ handed' = handed
      BY <2>0, <2>1, <2>3 DEF Poll, EventTypes
    <3>2. Float(link[Owner(d)]) <= Float(latest[Owner(d)])
      BY <1>1, <1>2, <2>0, Floats
    <3> QED
      BY <1>11, <2>1, <2>2, <3>1, <3>2
  <2>4. CASE HandOut(d) \/ HandOutFull(d)
    <3>1. client[d].pc = "hand" /\ r.pc = "confirm"
      BY <2>1, <2>4 DEF HandOut, HandOutFull, Answered, Goes, Idle, EventTypes
    <3>2. client[d].mtime <= Float(latest[Owner(d)]) /\ 0 <= Float(latest[Owner(d)])
      BY <1>1, <1>2, <2>0, <3>1
    <3>3. \A w \in Users : \/ handed'[w] \in {0, handed[w]}
                           \/ w = Owner(d) /\ handed'[w] <= Float(latest[w])
      BY <2>4, <3>2 DEF HandOut, HandOutFull, Goes, EventTypes
    <3> QED
      BY <1>11, <2>1, <2>2, <3>1, <3>3
  <2>5. CASE ReadNote(d)
    <3>1. r.mtime = handed[Owner(d)] /\ handed' = handed
      BY <2>0, <2>1, <2>5 DEF ReadNote, EventTypes
    <3> QED
      BY <1>1, <1>11, <2>0, <2>1, <2>2, <3>1
  <2>6. CASE LookEntry(d) \/ Compare(d) \/ CompareGone(d) \/ Unlink(d) \/ Forget(d) \/ Drop(d)
    <3>1. r.pc \notin {"hand", "compare"}
      BY <2>0, <2>1, <2>6 DEF LookEntry, Compare, CompareGone, Unlink, Move, Forget, Drop, Goes,
                              Idle, EventTypes, Reader
    <3>2. \A w \in Users : handed'[w] \in {0, handed[w]}
      BY <2>6 DEF LookEntry, Compare, CompareGone, Unlink, Forget, Drop, Goes, EventTypes
    <3> QED
      BY <1>11, <2>1, <2>2, <3>1, <3>2
  <2> QED
    BY <1>12, <2>3, <2>4, <2>5, <2>6
<1>13. CASE Restart
  <2>1. /\ UNCHANGED <<now, link, latest>> /\ handed' = [u \in Users |-> 0]
        /\ \A d \in Devices : client'[d].pc \in {"poll", "confirm"}
        /\ \A c \in Changers : change'[c].pc = "idle"
    BY <1>13 DEF Restart, Goes, Idle, NoChange
  <2>2. \A w \in Users : handed'[w] <= Float(latest'[w])
    BY <1>2, <2>1
  <2> QED
    BY <1>1, <2>1, <2>2 DEF Clocked
<1>14. CASE UNCHANGED eventsVars
  BY <1>5, <1>14 DEF eventsVars, history
<1> QED
  BY <1>0, <1>6, <1>7, <1>8, <1>9, <1>10, <1>12, <1>13, <1>14, EventSteps

-----------------------------------------------------------------------------
LEMMA EventsStart == EventsInit => EventsInv
<1> SUFFICES ASSUME EventsInit PROVE EventsInv
  OBVIOUS
<1>1. NoChange \in Fanout /\ NoChange.pc = "idle" /\ Idle \in Reader /\ Idle.pc = "poll"
  BY DEF NoChange, Idle, Fanout, Reader
<1>2. EventTypes
  BY <1>1, BoundsAssumption DEF EventsInit, EventTypes
<1>3. Distinct
  BY <1>1, BoundsAssumption DEF EventsInit, Distinct
<1>4. Guarded
  BY DEF EventsInit, Guarded, Covered
<1>5. Clocked
  <2>1. Float(0) \in Nat /\ Ulp \in Nat
    BY Floats, BoundsAssumption
  <2> QED
    BY <1>1, <2>1, Ticking DEF EventsInit, Clocked
<1> QED
  BY <1>2, <1>3, <1>4, <1>5 DEF EventsInv

(* The inductive invariant of UpdateEvents, for every number of members, of
   devices and of threads that change the message. *)
THEOREM EventsInvariance == EventsSpec => []EventsInv
<1>1. EventsInv /\ [EventsNext]_eventsVars => EventsInv'
  BY EventTypesStay, DistinctStays, GuardedStays, ClockedStays DEF EventsInv
<1> QED
  BY <1>1, EventsStart, PTL DEF EventsSpec

(* A change that was not handed out keeps its entry or has its fan-out before
   it, but for the causes of missed: whatever the devices poll and confirm. *)
THEOREM NoChangeUntold == EventsSpec => []StaleIsTold
<1>1. EventsInv => StaleIsTold
  <2> SUFFICES ASSUME EventsInv, NEW u \in Users, shown[u] < version, link[u] = 0,
                      u \notin missed
               PROVE  OnItsWay(u)
    BY DEF StaleIsTold
  <2>1. Covered(u)
    BY DEF EventsInv, Guarded, Exposed
  <2>2. version \in 1..version /\ shown[u] \in Nat /\ version \in Nat
    BY DEF EventsInv, EventTypes
  <2>3. Pending(u, version)
    BY <2>1, <2>2 DEF Covered
  <2> QED
    BY <2>2, <2>3 DEF Pending, OnItsWay
<1> QED
  BY <1>1, EventsInvariance, PTL
=============================================================================
