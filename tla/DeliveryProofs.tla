--------------------------- MODULE DeliveryProofs ---------------------------
(* Proofs about Delivery and that it implements Mailbox, for every roster,
   group, clock bound, number of crashes and faults, and every set of
   operations that fail.                                                     *)
EXTENDS DeliveryMailbox, FiniteSetTheorems, TLAPS

(* The inductive invariant.  Stamps in markers and requests come from the
   clock, and a marker is written after its stamp was drawn. *)
Clock ==
    \A u \in Users :
        /\ joined[u] <= since[u] /\ since[u] <= ts
        /\ req[u].stamp <= ts
        /\ req[u].op \in {"draw", "write"} => req[u].who \in Users

Minted == \A m \in Mids : place[m] # "none" => m <= ts

Stored(m) == place[m] \in {"group", "archived"}

(* Where the messages of the router's lists are. *)
Listed ==
    /\ \A m \in routed \cup unfinished : Stored(m)
    /\ \A m \in work : IF phase = "drain" THEN place[m] = "incoming" ELSE Stored(m)

(* The router's snapshot holds every member since before the message: whoever
   is added after it has a later stamp in a later marker. *)
Snapshot == \A u \in members : since[u] < cur => u \in mem

Current ==
    pc # "next" =>
        /\ cur \in Mids \ work
        /\ pc \in {"move", "park"} => place[cur] = "incoming"
        /\ pc = "tell" => place[cur] = "rejected"
        /\ pc \in {"dirs", "fan"} => Stored(cur)
        /\ pc \in {"move", "dirs", "fan"} => Snapshot

Has(u, m) ==
    Waiting(u, m) \/ u \in delivered[m] \/ <<u, m>> \in skipped \cup swept

(* In the fan-out, a recipient is still to visit, has the message, or the
   fan-out is known to be incomplete. *)
FanOut ==
    pc = "fan" /\ ok /\ place[cur] = "group" =>
        \A u \in members :
            since[u] < cur /\ u # from[cur] => u \in todo \/ Has(u, cur)

IInv == /\ TypeOK /\ Clock /\ Minted /\ Listed /\ Current /\ FanOut
        /\ RoutedMeansQueued

LEMMA EntryTypes ==
  /\ \A m \in Mids : MsgEntry(m) \in Entry /\ FailedEntry(m) \in Entry
  /\ \A m \in Mids, u \in Users : DeliveredEntry(m, u) \in Entry
BY DEF Entry, MsgEntry, FailedEntry, DeliveredEntry

(* next_mid: the new id was unused, and nothing else about messages changes. *)
LEMMA Minting ==
  ASSUME MessageTypes, Minted, ts < MaxTs,
         NEW u \in Users, NEW where \in Places \ {"none"}, NewMessage(u, where)
  PROVE  /\ ts + 1 \in Mids /\ place[ts + 1] = "none"
         /\ place'[ts + 1] = where
         /\ \A m \in Mids \ {ts + 1} : place'[m] = place[m] /\ from'[m] = from[m]
         /\ Minted'
<1> USE BoundsAssumption DEF MessageTypes, Mids
<1>1. ts \in Nat /\ MaxTs \in Nat /\ ts + 1 \in Mids
  OBVIOUS
<1>2. place[ts + 1] = "none"
  BY <1>1 DEF Minted
<1>3. place'[ts + 1] = where
      /\ \A m \in Mids \ {ts + 1} : place'[m] = place[m] /\ from'[m] = from[m]
  BY <1>1 DEF NewMessage
<1>4. Minted'
  BY <1>1, <1>3 DEF Minted, NewMessage
<1> QED
  BY <1>1, <1>2, <1>3, <1>4

(* What the handler of an exception leaves of the router's position. *)
LEMMA Raising ==
  ASSUME RouterTypes, Raise
  PROVE  /\ pc' \in {"park", "next"} /\ cur' \in 0..MaxTs
         /\ mem' \subseteq Users /\ todo' \subseteq Users /\ ok' \in BOOLEAN
<1> USE BoundsAssumption DEF RouterTypes
<1>1. CASE place[cur] = "incoming"
  BY <1>1 DEF Raise, locals
<1>2. CASE place[cur] # "incoming"
  BY <1>2 DEF Raise, Return
<1> QED
  BY <1>1, <1>2

(* IInv is kept by the steps of the API threads. *)
LEMMA ApiStep ==
  ASSUME IInv, Api
  PROVE  IInv'
<1> USE UsersAssumption, MembersAssumption, BoundsAssumption
        DEF IInv, TypeOK, MessageTypes, UserTypes, RouterTypes, HistoryTypes, Mids
<1>1. ASSUME NEW u \in Users, Send(u)
      PROVE  IInv'
  <2>1. MessageTypes'
    BY SMTT(30), <1>1 DEF Send, NewMessage, marks, calendar, Places
  <2>2. Clock'
    BY SMTT(30), <1>1 DEF Send, NewMessage, membership, Clock, Request
  <2>3. Minted'
    BY <1>1, Minting DEF Send, Places
  <2>4. Listed'
    <3>1. \A m \in Mids : place[m] # "none" => place'[m] = place[m]
      BY <1>1, Minting DEF Send, Places
    <3> QED
      BY <1>1, <3>1 DEF Send, router, listing, Listed, Stored, marks
  <2>5. Current'
    BY <1>1 DEF Send, NewMessage, membership, router, listing, locals,
      Current, Snapshot, Stored, Listed, Minted
  <2>6. FanOut'
    BY <1>1 DEF Send, NewMessage, marks, membership, mail, router, locals,
      FanOut, Has, Waiting
  <2>7. RoutedMeansQueued'
    BY <1>1 DEF Send, NewMessage, marks, membership, mail, RoutedMeansQueued,
      Has, Waiting, At
  <2>8. UserTypes' /\ RouterTypes' /\ HistoryTypes'
    BY <1>1 DEF Send, NewMessage, marks, membership, mail, router, listing,
      locals, env
  <2> QED
    BY <2>1, <2>2, <2>3, <2>4, <2>5, <2>6, <2>7, <2>8
<1>2. ASSUME NEW m \in Mids, Spool(m)
      PROVE  IInv'
  <2>1. MessageTypes'
    BY <1>2 DEF Spool, letters, marks, calendar, Places
  <2>2. Minted'
    BY <1>2 DEF Spool, Minted
  <2>3. Listed'
    BY <1>2 DEF Spool, marks, router, listing, Listed, Stored
  <2>4. Current'
    BY <1>2 DEF Spool, membership, router, listing, locals, Current, Snapshot,
      Stored
  <2>5. FanOut'
    BY <1>2 DEF Spool, letters, marks, membership, mail, router, locals,
      FanOut, Has, Waiting
  <2>6. RoutedMeansQueued'
    BY <1>2 DEF Spool, letters, marks, membership, mail, RoutedMeansQueued,
      Has, Waiting, At
  <2>7. UserTypes' /\ RouterTypes' /\ HistoryTypes'
          /\ Clock'
    BY <1>2 DEF Spool, marks, membership, mail, router, listing, locals, env,
      Clock, Request
  <2> QED
    BY <2>1, <2>2, <2>3, <2>4, <2>5, <2>6, <2>7
<1>3. ASSUME NEW m \in Mids, SpoolFails(m)
      PROVE  IInv'
  <2>1. MessageTypes'
    BY <1>3 DEF SpoolFails, Fault, letters, marks, calendar, Places
  <2>2. HistoryTypes'
    BY <1>3 DEF SpoolFails, Fault, membership, mail, router
  <2>3. Minted'
    BY <1>3 DEF SpoolFails, Fault, Minted
  <2>4. Listed'
    BY <1>3 DEF SpoolFails, Fault, marks, router, listing, Listed, Stored
  <2>5. Current'
    BY <1>3 DEF SpoolFails, Fault, membership, router, listing, locals,
      Current, Snapshot, Stored
  <2>6. FanOut'
    BY <1>3 DEF SpoolFails, Fault, letters, marks, membership, mail, router,
      locals, FanOut, Has, Waiting
  <2>7. RoutedMeansQueued'
    BY <1>3 DEF SpoolFails, Fault, letters, marks, membership, mail,
      RoutedMeansQueued, Has, Waiting, At
  <2>8. UserTypes' /\ RouterTypes' /\ Clock'
    BY <1>3 DEF SpoolFails, Fault, marks, membership, mail, router, listing,
      locals, Clock, Request
  <2> QED
    BY <2>1, <2>2, <2>3, <2>4, <2>5, <2>6, <2>7, <2>8
<1>4. ASSUME NEW u \in Users, NEW v \in Users, AddCheck(u, v)
      PROVE  IInv'
  <2>1. UserTypes'
    <3>1. [op |-> "draw", who |-> v, stamp |-> 0] \in Request
      BY DEF Request
    <3> QED
      BY <1>4, <3>1 DEF AddCheck, store, marks, membership, mail
  <2>2. Clock'
    BY <1>4 DEF AddCheck, store, messages, membership, Clock, Request
  <2>3. MessageTypes' /\ RouterTypes' /\ HistoryTypes'
          /\ Minted' /\ Listed' /\ Current'
          /\ FanOut' /\ RoutedMeansQueued'
    BY <1>4 DEF AddCheck, store, messages, letters, marks, membership, mail,
      calendar, router, listing, locals, env, Minted, Listed, Stored, Current,
      Snapshot, FanOut, Has, Waiting, RoutedMeansQueued, At
  <2> QED
    BY <2>1, <2>2, <2>3
<1>5. ASSUME NEW u \in Users, AddDraw(u)
      PROVE  IInv'
  <2>1. MessageTypes'
    <3>1. ts' \in 0..MaxTs
      BY <1>5 DEF AddDraw
    <3> QED
      BY <1>5, <3>1 DEF AddDraw, letters, marks, calendar
  <2>2. UserTypes'
    <3>1. [op |-> "write", who |-> req[u].who, stamp |-> ts + 1] \in Request
      BY <1>5 DEF AddDraw, Request
    <3> QED
      BY <1>5, <3>1 DEF AddDraw, marks, membership, mail
  <2>3. Clock'
    BY SMTT(30), <1>5 DEF AddDraw, membership, Clock, Request
  <2>4. Minted'
    BY <1>5 DEF AddDraw, Minted
  <2>5. RouterTypes' /\ HistoryTypes' /\ Listed'
          /\ Current' /\ FanOut' /\ RoutedMeansQueued'
    BY <1>5 DEF AddDraw, letters, marks, membership, mail, router, listing,
      locals, env, Listed, Stored, Current, Snapshot, FanOut, Has, Waiting,
      RoutedMeansQueued, At
  <2> QED
    BY <2>1, <2>2, <2>3, <2>4, <2>5
<1>6. ASSUME NEW u \in Users, AddWrite(u)
      PROVE  IInv'
  <2>1. MessageTypes'
    BY SMTT(30), <1>6 DEF AddWrite, SpoolSystem, NewMessage, marks, calendar, Places,
      Clock
  <2>2. UserTypes'
    <3>1. req[u].who \in Users /\ req[u].stamp \in 0..MaxTs
      BY <1>6 DEF AddWrite, Clock, Request
    <3>2. NoRequest \in Request
      BY DEF Request, NoRequest
    <3> QED
      BY <1>6, <3>1, <3>2 DEF AddWrite, marks, mail
  <2>3. HistoryTypes'
    BY <1>6 DEF AddWrite, SpoolSystem, NewMessage, mail, router, env
  <2>4. Clock'
    BY SMTT(30), <1>6 DEF AddWrite, SpoolSystem, NewMessage, Clock, Request, NoRequest
  <2>5. Minted'
    BY <1>6, Minting DEF AddWrite, SpoolSystem, Places
  <2>6. Listed'
    <3>1. \A m \in Mids : place[m] # "none" => place'[m] = place[m]
      BY <1>6, Minting DEF AddWrite, SpoolSystem, Places
    <3> QED
      BY <1>6, <3>1 DEF AddWrite, router, listing, Listed, Stored, marks
  <2>7. Current'
    BY <1>6 DEF AddWrite, SpoolSystem, NewMessage, router, listing, locals,
      Current, Snapshot, Stored, Listed, Minted, Clock
  <2>8. FanOut'
    BY <1>6 DEF AddWrite, SpoolSystem, NewMessage, marks, mail, router,
      locals, FanOut, Has, Waiting, Current, Stored, Clock, Minted
  <2>9. RoutedMeansQueued'
    <3>1. \A m \in routed :
             m <= ts /\ place'[m] = place[m] /\ from'[m] = from[m]
      BY <1>6, Minting DEF AddWrite, SpoolSystem, Places, Listed, Stored, Minted
    <3>2. \A v \in members', m \in routed :
             since'[v] < m => v \in members /\ since'[v] = since[v]
      BY <1>6, <3>1 DEF AddWrite, Clock
    <3> QED
      BY <1>6, <3>1, <3>2 DEF AddWrite, RoutedMeansQueued, Waiting, At, marks,
        mail
  <2>10. RouterTypes'
    BY <1>6 DEF AddWrite, SpoolSystem, NewMessage, router, listing, locals
  <2> QED
    BY <2>1, <2>2, <2>3, <2>4, <2>5, <2>6, <2>7, <2>8, <2>9, <2>10
<1>7. ASSUME NEW u \in Users, LeaveAnnounce(u)
      PROVE  IInv'
  <2>1. MessageTypes'
    BY SMTT(30), <1>7 DEF LeaveAnnounce, SpoolSystem, NewMessage, marks, calendar,
      Places
  <2>2. UserTypes'
    <3>1. [op |-> "leave", who |-> u, stamp |-> 0] \in Request
      BY DEF Request
    <3> QED
      BY <1>7, <3>1 DEF LeaveAnnounce, marks, membership, mail
  <2>3. Clock'
    BY SMTT(30), <1>7 DEF LeaveAnnounce, SpoolSystem, NewMessage, membership, Clock,
      Request
  <2>4. Minted'
    BY <1>7, Minting DEF LeaveAnnounce, SpoolSystem, Places
  <2>5. Listed'
    <3>1. \A m \in Mids : place[m] # "none" => place'[m] = place[m]
      BY <1>7, Minting DEF LeaveAnnounce, SpoolSystem, Places
    <3> QED
      BY <1>7, <3>1 DEF LeaveAnnounce, router, listing, Listed, Stored, marks
  <2>6. Current'
    BY <1>7 DEF LeaveAnnounce, SpoolSystem, NewMessage, membership, router,
      listing, locals, Current, Snapshot, Stored, Listed, Minted
  <2>7. FanOut'
    BY <1>7 DEF LeaveAnnounce, SpoolSystem, NewMessage, marks, membership,
      mail, router, locals, FanOut, Has, Waiting
  <2>8. RoutedMeansQueued'
    BY <1>7 DEF LeaveAnnounce, SpoolSystem, NewMessage, marks, membership,
      mail, RoutedMeansQueued, Has, Waiting, At
  <2>9. RouterTypes' /\ HistoryTypes'
    BY <1>7 DEF LeaveAnnounce, SpoolSystem, NewMessage, membership, mail,
      router, listing, locals, env
  <2> QED
    BY <2>1, <2>2, <2>3, <2>4, <2>5, <2>6, <2>7, <2>8, <2>9
<1>8. ASSUME NEW u \in Users, LeaveUnlink(u)
      PROVE  IInv'
  <2>1. UserTypes'
    <3>1. [op |-> "sweep", who |-> u, stamp |-> 0] \in Request
      BY DEF Request
    <3> QED
      BY <1>8, <3>1 DEF LeaveUnlink, marks, mail
  <2>2. Clock'
    BY <1>8 DEF LeaveUnlink, messages, Clock, Request
  <2>3. Current'
    BY <1>8 DEF LeaveUnlink, messages, router, listing, locals, Current,
      Snapshot, Stored
  <2>4. FanOut'
    BY <1>8 DEF LeaveUnlink, messages, letters, marks, mail, router, locals,
      FanOut, Has, Waiting
  <2>5. RoutedMeansQueued'
    BY <1>8 DEF LeaveUnlink, messages, letters, marks, mail,
      RoutedMeansQueued, Has, Waiting, At
  <2>6. MessageTypes' /\ RouterTypes' /\ HistoryTypes'
          /\ Minted' /\ Listed'
    BY <1>8 DEF LeaveUnlink, messages, letters, marks, mail, calendar, router,
      listing, locals, env, Minted, Listed, Stored
  <2> QED
    BY <2>1, <2>2, <2>3, <2>4, <2>5, <2>6
<1>9. ASSUME NEW u \in Users, LeaveSweep(u)
      PROVE  IInv'
  <2>1. UserTypes'
    <3>1. NoRequest \in Request
      BY DEF Request, NoRequest
    <3> QED
      BY <1>9, <3>1 DEF LeaveSweep, marks, membership
  <2>2. HistoryTypes'
    <3>1. swept' \subseteq Users \X Mids
      BY <1>9 DEF LeaveSweep, Entry
    <3>2. UNCHANGED <<crashes, faults, since, skipped, stranded>>
      BY <1>9 DEF LeaveSweep, membership, router, env
    <3> QED
      BY <3>1, <3>2
  <2>3. Clock'
    BY <1>9 DEF LeaveSweep, messages, membership, Clock, Request, NoRequest
  <2>4. FanOut'
    BY <1>9 DEF LeaveSweep, messages, letters, marks, membership, router,
      locals, FanOut, Has, Waiting, MsgEntry, Current
  <2>5. RoutedMeansQueued'
    BY <1>9 DEF LeaveSweep, messages, letters, marks, membership,
      RoutedMeansQueued, Has, Waiting, At, MsgEntry
  <2>6. MessageTypes' /\ RouterTypes' /\ Minted'
          /\ Listed' /\ Current'
    BY <1>9 DEF LeaveSweep, messages, letters, marks, membership, calendar,
      router, listing, locals, Minted, Listed, Stored, Current, Snapshot
  <2> QED
    BY <2>1, <2>2, <2>3, <2>4, <2>5, <2>6
<1>10. ASSUME NEW u \in Users, Login(u)
      PROVE  IInv'
  <2>1. UserTypes'
    BY <1>10 DEF Login, marks, membership, Nobody
  <2>2. MessageTypes' /\ RouterTypes' /\ HistoryTypes'
          /\ Clock' /\ Minted' /\ Listed'
          /\ Current' /\ FanOut' /\ RoutedMeansQueued'
    BY <1>10 DEF Login, messages, letters, marks, membership, calendar,
      router, listing, locals, env, Clock, Request, Minted, Listed, Stored,
      Current, Snapshot, FanOut, Has, Waiting, RoutedMeansQueued, At
  <2> QED
    BY <2>1, <2>2
<1>11. ASSUME NEW u \in Users, NEW m \in Mids, PeekDrops(u, m)
      PROVE  IInv'
  <2>1. UserTypes'
    BY <1>11 DEF PeekDrops, Unlink, marks, membership, Nobody
  <2>2. FanOut'
    BY <1>11 DEF PeekDrops, Unlink, messages, letters, marks, membership,
      router, locals, FanOut, Has, Waiting, MsgEntry, Clock, Current
  <2>3. RoutedMeansQueued'
    BY <1>11 DEF PeekDrops, Unlink, messages, letters, marks, membership,
      RoutedMeansQueued, Has, Waiting, At, MsgEntry, Clock
  <2>4. MessageTypes' /\ RouterTypes' /\ HistoryTypes'
          /\ Clock' /\ Minted' /\ Listed'
          /\ Current'
    BY <1>11 DEF PeekDrops, Unlink, messages, letters, marks, membership,
      calendar, router, listing, locals, env, Clock, Request, Minted, Listed,
      Stored, Current, Snapshot
  <2> QED
    BY <2>1, <2>2, <2>3, <2>4
<1>12. ASSUME NEW u \in Users, NEW m \in Mids, DropDangling(u, m)
      PROVE  IInv'
  <2>1. UserTypes'
    BY <1>12 DEF DropDangling, Unlink, marks, membership, Nobody
  <2>2. FanOut'
    BY <1>12 DEF DropDangling, Unlink, messages, letters, marks, membership,
      router, locals, FanOut, Has, Waiting, MsgEntry, Current
  <2>3. RoutedMeansQueued'
    BY <1>12 DEF DropDangling, Unlink, messages, letters, marks, membership,
      RoutedMeansQueued, Has, Waiting, At, MsgEntry
  <2>4. MessageTypes' /\ RouterTypes' /\ HistoryTypes'
          /\ Clock' /\ Minted' /\ Listed'
          /\ Current'
    BY <1>12 DEF DropDangling, Unlink, messages, letters, marks, membership,
      calendar, router, listing, locals, env, Clock, Request, Minted, Listed,
      Stored, Current, Snapshot
  <2> QED
    BY <2>1, <2>2, <2>3, <2>4
<1>13. ASSUME NEW u \in Users, NEW m \in Mids, ConfirmMessage(u, m)
      PROVE  IInv'
  <2>1. UserTypes'
    <3>1. delivered' \in [Mids -> SUBSET Users]
      BY <1>13 DEF ConfirmMessage
    <3>2. queue' \in [Users -> SUBSET Entry]
      BY SMTT(30), <1>13, EntryTypes DEF ConfirmMessage
    <3> QED
      BY <1>13, <3>1, <3>2 DEF ConfirmMessage, membership
  <2>2. FanOut'
    BY <1>13 DEF ConfirmMessage, messages, letters, membership, router,
      locals, FanOut, Has, Waiting, MsgEntry, Current
  <2>3. RoutedMeansQueued'
    BY SMTT(30), <1>13 DEF ConfirmMessage, messages, letters, membership,
      RoutedMeansQueued, Has, Waiting, At, MsgEntry
  <2>4. MessageTypes' /\ RouterTypes' /\ HistoryTypes'
          /\ Clock' /\ Minted' /\ Listed'
          /\ Current'
    BY <1>13 DEF ConfirmMessage, messages, letters, membership, calendar,
      router, listing, locals, env, Clock, Request, Minted, Listed, Stored,
      Current, Snapshot
  <2> QED
    BY <2>1, <2>2, <2>3, <2>4
<1>14. ASSUME NEW u \in Users, NEW e \in queue[u], ConfirmEvent(u, e)
      PROVE  IInv'
  <2>1. UserTypes'
    BY <1>14 DEF ConfirmEvent, Unlink, marks, membership, Nobody
  <2>2. FanOut'
    BY <1>14 DEF ConfirmEvent, Unlink, messages, letters, marks, membership,
      router, locals, FanOut, Has, Waiting, MsgEntry, Current
  <2>3. RoutedMeansQueued'
    BY <1>14 DEF ConfirmEvent, Unlink, messages, letters, marks, membership,
      RoutedMeansQueued, Has, Waiting, At, MsgEntry
  <2>4. MessageTypes' /\ RouterTypes' /\ HistoryTypes'
          /\ Clock' /\ Minted' /\ Listed'
          /\ Current'
    BY <1>14 DEF ConfirmEvent, Unlink, messages, letters, marks, membership,
      calendar, router, listing, locals, env, Clock, Request, Minted, Listed,
      Stored, Current, Snapshot
  <2> QED
    BY <2>1, <2>2, <2>3, <2>4
<1> QED
  BY <1>1, <1>2, <1>3, <1>4, <1>5, <1>6, <1>7, <1>8, <1>9, <1>10, <1>11,
     <1>12, <1>13, <1>14 DEF Api

(* IInv is kept by the steps of the router thread. *)
LEMMA RouterLoopStep ==
  ASSUME IInv, RouterStep \/ RouterFault
  PROVE  IInv'
<1> USE UsersAssumption, MembersAssumption, BoundsAssumption
        DEF IInv, TypeOK, MessageTypes, UserTypes, RouterTypes, HistoryTypes, Mids
<1>1. ASSUME EndOfListing
      PROVE  IInv'
  <2>1. RouterTypes'
    BY <1>1 DEF EndOfListing, At, locals
  <2>2. Listed'
    BY <1>1 DEF EndOfListing, At, store, messages, marks, Listed, Stored
  <2>3. Current'
    BY <1>1 DEF EndOfListing, At, store, messages, membership, locals,
      Current, Snapshot, Stored
  <2>4. MessageTypes' /\ UserTypes' /\ HistoryTypes'
          /\ Clock' /\ Minted' /\ FanOut'
          /\ RoutedMeansQueued'
    BY <1>1 DEF EndOfListing, At, store, messages, letters, marks, membership,
      mail, calendar, locals, env, Clock, Request, Minted, FanOut, Has,
      Waiting, RoutedMeansQueued
  <2> QED
    BY <2>1, <2>2, <2>3, <2>4
<1>2. ASSUME NEW m \in Mids, Resume(m)
      PROVE  IInv'
  <2>1. RouterTypes'
    BY <1>2 DEF Resume, Take, First
  <2>2. Listed'
    BY <1>2 DEF Resume, Take, First, store, messages, marks, Listed, Stored
  <2>3. Current'
    BY <1>2 DEF Resume, Take, First, store, messages, membership, Current,
      Snapshot, Stored
  <2>4. FanOut'
    BY <1>2 DEF Resume, Take, First, store, messages, letters, marks,
      membership, mail, FanOut, Has, Waiting
  <2>5. MessageTypes' /\ UserTypes' /\ HistoryTypes'
          /\ Clock' /\ Minted' /\ RoutedMeansQueued'
    BY <1>2 DEF Resume, Take, First, store, messages, letters, marks,
      membership, mail, calendar, env, Clock, Request, Minted,
      RoutedMeansQueued, Has, Waiting, At
  <2> QED
    BY <2>1, <2>2, <2>3, <2>4, <2>5
<1>3. ASSUME NEW m \in Mids, GiveUp(m)
      PROVE  IInv'
  <2>1. RouterTypes'
    BY <1>3 DEF GiveUp, Take, First, locals
  <2>2. Listed'
    BY <1>3 DEF GiveUp, Take, First, store, messages, marks, Listed, Stored
  <2>3. Current'
    BY <1>3 DEF GiveUp, Take, First, store, messages, membership, locals,
      Current, Snapshot, Stored
  <2>4. MessageTypes' /\ UserTypes' /\ HistoryTypes'
          /\ Clock' /\ Minted' /\ FanOut'
          /\ RoutedMeansQueued'
    BY <1>3 DEF GiveUp, Take, First, store, messages, letters, marks,
      membership, mail, calendar, locals, env, Clock, Request, Minted, FanOut,
      Has, Waiting, RoutedMeansQueued, At
  <2> QED
    BY <2>1, <2>2, <2>3, <2>4
<1>4. ASSUME NEW m \in Mids, Route(m)
      PROVE  IInv'
  <2>1. RouterTypes'
    <3>1. pc' \in {"move", "park"}
      BY <1>4 DEF Route
    <3> QED
      BY <1>4, <3>1 DEF Route, Take, First
  <2>2. Listed'
    BY <1>4 DEF Route, MaySend, Take, First, store, messages, marks, Listed,
      Stored
  <2>3. Current'
    BY <1>4 DEF Route, MaySend, Take, First, store, messages, membership,
      Current, Snapshot, Stored, Listed
  <2>4. FanOut'
    BY <1>4 DEF Route, MaySend, Take, First, store, messages, letters, marks,
      membership, mail, FanOut, Has, Waiting
  <2>5. MessageTypes' /\ UserTypes' /\ HistoryTypes'
          /\ Clock' /\ Minted' /\ RoutedMeansQueued'
    BY <1>4 DEF Route, MaySend, Take, First, store, messages, letters, marks,
      membership, mail, calendar, env, Clock, Request, Minted,
      RoutedMeansQueued, Has, Waiting, At
  <2> QED
    BY <2>1, <2>2, <2>3, <2>4, <2>5
<1>5. ASSUME Move
      PROVE  IInv'
  <2>1. MessageTypes'
    BY <1>5 DEF Move, letters, marks, Places, Current
  <2>2. RouterTypes'
    BY <1>5 DEF Move, listing, locals
  <2>3. Minted'
    BY <1>5 DEF Move, Minted, Current
  <2>4. Listed'
    BY <1>5 DEF Move, marks, listing, Listed, Stored, Current
  <2>5. Current'
    BY <1>5 DEF Move, membership, listing, locals, Current, Snapshot, Stored
  <2>6. FanOut'
    BY <1>5 DEF Move, letters, marks, membership, mail, locals, FanOut, Has,
      Waiting
  <2>7. RoutedMeansQueued'
    BY <1>5 DEF Move, letters, marks, membership, mail, RoutedMeansQueued,
      Has, Waiting, At, Current, Listed, Stored
  <2>8. UserTypes' /\ HistoryTypes' /\ Clock'
    BY <1>5 DEF Move, marks, membership, mail, env, Clock, Request
  <2> QED
    BY <2>1, <2>2, <2>3, <2>4, <2>5, <2>6, <2>7, <2>8
<1>6. ASSUME MoveFails
      PROVE  IInv'
  <2>1. MessageTypes'
    BY <1>6 DEF MoveFails, Fault, Raise, Return, messages, letters, marks,
      Places, Current
  <2>2. RouterTypes'
    BY <1>6, Raising DEF MoveFails, listing, locals
  <2>3. HistoryTypes'
    BY <1>6 DEF MoveFails, Fault, Raise, Return, membership, mail
  <2>4. Current'
    BY <1>6 DEF MoveFails, Fault, Raise, Return, messages, membership,
      listing, locals, Current, Snapshot, Stored
  <2>5. FanOut'
    BY <1>6 DEF MoveFails, Fault, Raise, Return, messages, letters, marks,
      membership, mail, locals, FanOut, Has, Waiting
  <2>6. UserTypes' /\ Clock' /\ Minted'
          /\ Listed' /\ RoutedMeansQueued'
    BY <1>6 DEF MoveFails, Fault, Raise, Return, messages, letters, marks,
      membership, mail, listing, Clock, Request, Minted, Listed, Stored,
      RoutedMeansQueued, Has, Waiting, At
  <2> QED
    BY <2>1, <2>2, <2>3, <2>4, <2>5, <2>6
<1>7. ASSUME Park
      PROVE  IInv'
  <2>1. MessageTypes'
    BY <1>7 DEF Park, letters, marks, calendar, Places
  <2>2. RouterTypes'
    BY <1>7 DEF Park, listing, locals
  <2>3. Minted'
    BY <1>7 DEF Park, Minted, Current
  <2>4. Listed'
    BY <1>7 DEF Park, marks, listing, Listed, Stored, Current
  <2>5. Current'
    BY <1>7 DEF Park, membership, listing, locals, Current, Snapshot, Stored
  <2>6. FanOut'
    BY <1>7 DEF Park, letters, marks, membership, mail, locals, FanOut, Has,
      Waiting
  <2>7. RoutedMeansQueued'
    BY <1>7 DEF Park, letters, marks, membership, mail, RoutedMeansQueued,
      Has, Waiting, At
  <2>8. UserTypes' /\ HistoryTypes' /\ Clock'
    BY <1>7 DEF Park, marks, membership, mail, env, Clock, Request
  <2> QED
    BY <2>1, <2>2, <2>3, <2>4, <2>5, <2>6, <2>7, <2>8
<1>8. ASSUME ParkFails
      PROVE  IInv'
  <2>1. MessageTypes'
    BY <1>8 DEF ParkFails, Fault, Return, letters, marks, calendar, Places
  <2>2. RouterTypes'
    BY <1>8 DEF ParkFails, Fault, Return, listing
  <2>3. HistoryTypes'
    BY <1>8 DEF ParkFails, Fault, Return, membership, mail
  <2>4. Minted'
    BY <1>8 DEF ParkFails, Fault, Return, Minted, Current
  <2>5. Listed'
    BY <1>8 DEF ParkFails, Fault, Return, marks, listing, Listed, Stored,
      Current
  <2>6. Current'
    BY <1>8 DEF ParkFails, Fault, Return, membership, listing, Current,
      Snapshot, Stored
  <2>7. FanOut'
    BY <1>8 DEF ParkFails, Fault, Return, letters, marks, membership, mail,
      FanOut, Has, Waiting
  <2>8. RoutedMeansQueued'
    BY <1>8 DEF ParkFails, Fault, Return, letters, marks, membership, mail,
      RoutedMeansQueued, Has, Waiting, At
  <2>9. UserTypes' /\ Clock'
    BY <1>8 DEF ParkFails, Fault, Return, marks, membership, mail, Clock,
      Request
  <2> QED
    BY <2>1, <2>2, <2>3, <2>4, <2>5, <2>6, <2>7, <2>8, <2>9
<1>9. ASSUME Tell
      PROVE  IInv'
  <2>1. UserTypes'
    BY <1>9, EntryTypes DEF Tell, Return, marks, membership, Nobody, Current
  <2>2. RouterTypes'
    BY <1>9 DEF Tell, Return, listing
  <2>3. Current'
    BY <1>9 DEF Tell, Return, messages, membership, listing, Current,
      Snapshot, Stored
  <2>4. FanOut'
    BY <1>9 DEF Tell, Return, messages, letters, marks, membership, FanOut,
      Has, Waiting
  <2>5. RoutedMeansQueued'
    BY <1>9 DEF Tell, Return, messages, letters, marks, membership,
      RoutedMeansQueued, Has, Waiting, At
  <2>6. MessageTypes' /\ HistoryTypes' /\ Clock'
          /\ Minted' /\ Listed'
    BY <1>9 DEF Tell, Return, messages, letters, marks, membership, calendar,
      listing, env, Clock, Request, Minted, Listed, Stored
  <2> QED
    BY <2>1, <2>2, <2>3, <2>4, <2>5, <2>6
<1>10. ASSUME TellFails
      PROVE  IInv'
  <2>1. RouterTypes'
    BY <1>10 DEF TellFails, Fault, Return, listing
  <2>2. HistoryTypes'
    BY SMTT(30), <1>10 DEF TellFails, Fault, Return, store, membership, mail
  <2>3. Current'
    BY <1>10 DEF TellFails, Fault, Return, store, messages, membership,
      listing, Current, Snapshot, Stored
  <2>4. FanOut'
    BY <1>10 DEF TellFails, Fault, Return, store, messages, letters, marks,
      membership, mail, FanOut, Has, Waiting
  <2>5. MessageTypes' /\ UserTypes' /\ Clock'
          /\ Minted' /\ Listed' /\ RoutedMeansQueued'
    BY <1>10 DEF TellFails, Fault, Return, store, messages, letters, marks,
      membership, mail, calendar, listing, Clock, Request, Minted, Listed,
      Stored, RoutedMeansQueued, Has, Waiting, At
  <2> QED
    BY <2>1, <2>2, <2>3, <2>4, <2>5
<1>11. ASSUME MakeDirs
      PROVE  IInv'
  <2>1. RouterTypes'
    BY <1>11 DEF MakeDirs, Recipients, listing
  <2>2. Current'
    BY <1>11 DEF MakeDirs, Recipients, store, messages, membership, listing,
      Current, Snapshot, Stored
  <2>3. FanOut'
    BY <1>11 DEF MakeDirs, Recipients, store, messages, letters, marks,
      membership, mail, FanOut, Has, Waiting, Current, Snapshot
  <2>4. MessageTypes' /\ UserTypes' /\ HistoryTypes'
          /\ Clock' /\ Minted' /\ Listed'
          /\ RoutedMeansQueued'
    BY <1>11 DEF MakeDirs, Recipients, store, messages, letters, marks,
      membership, mail, calendar, listing, env, Clock, Request, Minted,
      Listed, Stored, RoutedMeansQueued, Has, Waiting, At
  <2> QED
    BY <2>1, <2>2, <2>3, <2>4
<1>12. ASSUME DirsFail
      PROVE  IInv'
  <2>1. RouterTypes'
    BY <1>12, Raising DEF DirsFail, FinishRaises, listing, locals
  <2>2. HistoryTypes'
    <3>1. stranded' \subseteq stranded \cup {cur} /\ cur \in Mids
      BY <1>12 DEF DirsFail, FinishRaises, Current
    <3>2. crashes' = crashes /\ faults' \in 0..MaxFaults
      BY <1>12 DEF DirsFail, FinishRaises, Fault, env
    <3>3. UNCHANGED <<since, skipped, swept>>
      BY <1>12 DEF DirsFail, FinishRaises, store, membership, mail
    <3> QED
      BY <3>1, <3>2, <3>3
  <2>3. Listed'
    BY <1>12 DEF DirsFail, FinishRaises, Fault, Raise, Return, store,
      messages, marks, listing, Listed, Stored
  <2>4. Current'
    BY <1>12 DEF DirsFail, FinishRaises, Fault, Raise, Return, store,
      messages, membership, listing, locals, Current, Snapshot, Stored
  <2>5. FanOut'
    BY <1>12 DEF DirsFail, FinishRaises, Fault, Raise, Return, store,
      messages, letters, marks, membership, mail, locals, FanOut, Has, Waiting
  <2>6. MessageTypes' /\ UserTypes' /\ Clock'
          /\ Minted' /\ RoutedMeansQueued'
    BY <1>12 DEF DirsFail, FinishRaises, Fault, Raise, Return, store,
      messages, letters, marks, membership, mail, calendar, Clock, Request,
      Minted, RoutedMeansQueued, Has, Waiting, At
  <2> QED
    BY <2>1, <2>2, <2>3, <2>4, <2>5, <2>6
<1>13. ASSUME NEW u \in Users, Link(u)
      PROVE  IInv'
  <2>1. UserTypes'
    BY <1>13, EntryTypes DEF Link, First, marks, membership, Nobody, Current
  <2>2. RouterTypes'
    BY <1>13 DEF Link, First, listing
  <2>3. FanOut'
    BY <1>13 DEF Link, First, messages, letters, marks, membership, FanOut,
      Has, Waiting
  <2>4. RoutedMeansQueued'
    BY <1>13 DEF Link, First, messages, letters, marks, membership,
      RoutedMeansQueued, Has, Waiting, At
  <2>5. MessageTypes' /\ HistoryTypes' /\ Clock'
          /\ Minted' /\ Listed' /\ Current'
    BY <1>13 DEF Link, First, messages, letters, marks, membership, calendar,
      listing, env, Clock, Request, Minted, Listed, Stored, Current, Snapshot
  <2> QED
    BY <2>1, <2>2, <2>3, <2>4, <2>5
<1>14. ASSUME NEW u \in Users, LinkFails(u)
      PROVE  IInv'
  <2>1. RouterTypes'
    BY <1>14 DEF LinkFails, Fault, First, listing
  <2>2. HistoryTypes'
    BY <1>14 DEF LinkFails, Fault, First, store, membership, mail
  <2>3. FanOut'
    BY <1>14 DEF LinkFails, Fault, First, store, messages, letters, marks,
      membership, mail, FanOut, Has, Waiting
  <2>4. MessageTypes' /\ UserTypes' /\ Clock'
          /\ Minted' /\ Listed' /\ Current'
          /\ RoutedMeansQueued'
    BY <1>14 DEF LinkFails, Fault, First, store, messages, letters, marks,
      membership, mail, calendar, listing, Clock, Request, Minted, Listed,
      Stored, Current, Snapshot, RoutedMeansQueued, Has, Waiting, At
  <2> QED
    BY <2>1, <2>2, <2>3, <2>4
<1>15. ASSUME NEW u \in Users, ProvisionFails(u)
      PROVE  IInv'
  <2>1. UserTypes'
    BY <1>15 DEF ProvisionFails, Fault, First, marks, membership, Nobody
  <2>2. RouterTypes'
    BY <1>15 DEF ProvisionFails, Fault, First, listing
  <2>3. HistoryTypes'
    BY SMTT(30), <1>15 DEF ProvisionFails, Fault, First, membership, Current
  <2>4. FanOut'
    BY <1>15 DEF ProvisionFails, Fault, First, messages, letters, marks,
      membership, FanOut, Has, Waiting
  <2>5. RoutedMeansQueued'
    BY <1>15 DEF ProvisionFails, Fault, First, messages, letters, marks,
      membership, RoutedMeansQueued, Has, Waiting, At
  <2>6. MessageTypes' /\ Clock' /\ Minted'
          /\ Listed' /\ Current'
    BY <1>15 DEF ProvisionFails, Fault, First, messages, letters, marks,
      membership, calendar, listing, Clock, Request, Minted, Listed, Stored,
      Current, Snapshot
  <2> QED
    BY <2>1, <2>2, <2>3, <2>4, <2>5, <2>6
<1>16. ASSUME Mark
      PROVE  IInv'
  <2>1. MessageTypes'
    BY <1>16 DEF Mark, Complete, Return, messages, letters, calendar, Places,
      Current
  <2>2. RouterTypes'
    BY <1>16 DEF Mark, Complete, Return, listing
  <2>3. Listed'
    BY <1>16 DEF Mark, Complete, Return, messages, listing, Listed, Stored
  <2>4. Current'
    BY <1>16 DEF Mark, Complete, Return, messages, membership, listing,
      Current, Snapshot, Stored
  <2>5. FanOut'
    BY <1>16 DEF Mark, Complete, Return, messages, letters, membership, mail,
      FanOut, Has, Waiting
  <2>6. RoutedMeansQueued'
    BY <1>16 DEF Mark, Complete, Return, messages, letters, membership, mail,
      RoutedMeansQueued, Has, Waiting, At, FanOut
  <2>7. UserTypes' /\ HistoryTypes' /\ Clock'
          /\ Minted'
    BY <1>16 DEF Mark, Complete, Return, messages, membership, mail, env,
      Clock, Request, Minted
  <2> QED
    BY <2>1, <2>2, <2>3, <2>4, <2>5, <2>6, <2>7
<1>17. ASSUME MarkFails
      PROVE  IInv'
  <2>1. RouterTypes'
    BY <1>17, Raising DEF MarkFails, FinishRaises, listing, locals
  <2>2. HistoryTypes'
    <3>1. stranded' \subseteq stranded \cup {cur} /\ cur \in Mids
      BY <1>17 DEF MarkFails, Complete, FinishRaises, Current
    <3>2. crashes' = crashes /\ faults' \in 0..MaxFaults
      BY <1>17 DEF MarkFails, Complete, FinishRaises, Fault, env
    <3>3. UNCHANGED <<since, skipped, swept>>
      BY <1>17 DEF MarkFails, Complete, FinishRaises, store, membership, mail
    <3> QED
      BY <3>1, <3>2, <3>3
  <2>3. Listed'
    BY <1>17 DEF MarkFails, Complete, FinishRaises, Fault, Raise, Return,
      store, messages, marks, listing, Listed, Stored
  <2>4. Current'
    BY <1>17 DEF MarkFails, Complete, FinishRaises, Fault, Raise, Return,
      store, messages, membership, listing, locals, Current, Snapshot, Stored
  <2>5. FanOut'
    BY <1>17 DEF MarkFails, Complete, FinishRaises, Fault, Raise, Return,
      store, messages, letters, marks, membership, mail, locals, FanOut, Has,
      Waiting
  <2>6. MessageTypes' /\ UserTypes' /\ Clock'
          /\ Minted' /\ RoutedMeansQueued'
    BY <1>17 DEF MarkFails, Complete, FinishRaises, Fault, Raise, Return,
      store, messages, letters, marks, membership, mail, calendar, Clock,
      Request, Minted, RoutedMeansQueued, Has, Waiting, At
  <2> QED
    BY <2>1, <2>2, <2>3, <2>4, <2>5, <2>6
<1>18. ASSUME Postpone
      PROVE  IInv'
  <2>1. RouterTypes'
    BY <1>18 DEF Postpone, Postponed, Return, listing, Current
  <2>2. Listed'
    BY <1>18 DEF Postpone, Postponed, Return, store, messages, marks, listing,
      Listed, Stored, Current
  <2>3. Current'
    BY <1>18 DEF Postpone, Postponed, Return, store, messages, membership,
      listing, Current, Snapshot, Stored
  <2>4. FanOut'
    BY <1>18 DEF Postpone, Postponed, Return, store, messages, letters, marks,
      membership, mail, FanOut, Has, Waiting
  <2>5. MessageTypes' /\ UserTypes' /\ Clock' /\ Minted' /\ RoutedMeansQueued'
    BY <1>18 DEF Postpone, Return, store, messages, letters, marks, membership, mail,
      calendar, Clock, Request, Minted, RoutedMeansQueued, Has, Waiting, At
  <2>6. HistoryTypes'
    <3>1. stranded' \subseteq stranded \cup {cur} /\ cur \in Mids
      BY <1>18 DEF Postpone, Current
    <3>2. UNCHANGED <<crashes, faults, since, skipped, swept>>
      BY <1>18 DEF Postpone, store, membership, mail, env
    <3> QED
      BY <3>1, <3>2
  <2> QED
    BY <2>1, <2>2, <2>3, <2>4, <2>5, <2>6
<1> QED
  BY <1>1, <1>2, <1>3, <1>4, <1>5, <1>6, <1>7, <1>8, <1>9, <1>10, <1>11,
     <1>12, <1>13, <1>14, <1>15, <1>16, <1>17, <1>18 DEF RouterStep, RouterFault

(* IInv is kept by the steps of the janitor, midnight and the crash. *)
LEMMA SystemStep ==
  ASSUME IInv, NextDay \/ Crash \/ \E d \in 1..MaxDay : Retain(d)
  PROVE  IInv'
<1> USE UsersAssumption, MembersAssumption, BoundsAssumption
        DEF IInv, TypeOK, MessageTypes, UserTypes, RouterTypes, HistoryTypes, Mids
<1>1. ASSUME NEW d \in 1..MaxDay, Retain(d)
      PROVE  IInv'
  <2>1. MessageTypes'
    BY <1>1 DEF Retain, letters, marks, Places
  <2>2. Minted'
    BY <1>1 DEF Retain, Minted
  <2>3. Listed'
    BY <1>1 DEF Retain, marks, router, listing, Listed, Stored
  <2>4. Current'
    BY <1>1 DEF Retain, membership, router, listing, locals, Current,
      Snapshot, Stored
  <2>5. FanOut'
    <3>1. \A m \in Mids : place'[m] = "group" => place[m] = "group"
      BY <1>1 DEF Retain
    <3> QED
      BY <1>1, <3>1 DEF Retain, letters, membership, mail, marks, router,
        locals, FanOut, Has, Waiting, Current
  <2>6. RoutedMeansQueued'
    BY <1>1 DEF Retain, letters, marks, membership, mail, RoutedMeansQueued,
      Has, Waiting, At
  <2>7. UserTypes' /\ RouterTypes' /\ HistoryTypes'
          /\ Clock'
    BY <1>1 DEF Retain, marks, membership, mail, router, listing, locals, env,
      Clock, Request
  <2> QED
    BY <2>1, <2>2, <2>3, <2>4, <2>5, <2>6, <2>7
<1>2. ASSUME NextDay
      PROVE  IInv'
  <2>1. MessageTypes'
    BY SMTT(30), <1>2 DEF NextDay, messages, letters, marks, Places
  <2>2. UserTypes' /\ RouterTypes' /\ HistoryTypes'
          /\ Clock' /\ Minted' /\ Listed'
          /\ Current' /\ FanOut' /\ RoutedMeansQueued'
    BY <1>2 DEF NextDay, messages, letters, marks, membership, mail, router,
      listing, locals, env, Clock, Request, Minted, Listed, Stored, Current,
      Snapshot, FanOut, Has, Waiting, RoutedMeansQueued, At
  <2> QED
    BY <2>1, <2>2
<1>3. ASSUME Crash
      PROVE  IInv'
  <2>1. MessageTypes'
    BY <1>3 DEF Crash, Return, Recoverable, NewestTwo, At, letters, marks,
      calendar, Places
  <2>2. UserTypes'
    <3>1. NoRequest \in Request
      BY DEF Request, NoRequest
    <3> QED
      BY <1>3, <3>1 DEF Crash, marks, membership, mail
  <2>3. RouterTypes'
    BY <1>3 DEF Crash, Return, Recoverable, NewestTwo, At
  <2>4. HistoryTypes'
    BY <1>3 DEF Crash, Return, Recoverable, NewestTwo, At, membership, mail
  <2>5. Clock'
    BY <1>3 DEF Crash, Return, Recoverable, NewestTwo, At, membership, Clock,
      Request, NoRequest
  <2>6. Minted'
    BY <1>3 DEF Crash, Return, Recoverable, NewestTwo, At, Minted
  <2>7. Listed'
    BY <1>3 DEF Crash, Return, Recoverable, NewestTwo, At, marks, Listed,
      Stored
  <2>8. Current'
    BY <1>3 DEF Crash, Return, Recoverable, NewestTwo, At, membership,
      Current, Snapshot, Stored
  <2>9. FanOut'
    BY <1>3 DEF Crash, Return, Recoverable, NewestTwo, At, letters, marks,
      membership, mail, FanOut, Has, Waiting
  <2>10. RoutedMeansQueued'
    BY <1>3 DEF Crash, Return, Recoverable, NewestTwo, At, letters, marks,
      membership, mail, RoutedMeansQueued, Has, Waiting
  <2> QED
    BY <2>1, <2>2, <2>3, <2>4, <2>5, <2>6, <2>7, <2>8, <2>9, <2>10
<1> QED
  BY <1>1, <1>2, <1>3

LEMMA InitIInv == Init => IInv
<1> SUFFICES ASSUME Init PROVE IInv
  OBVIOUS
<1> USE UsersAssumption, MembersAssumption, BoundsAssumption DEF Init, Mids
<1>1. TypeOK
  <2>1. MessageTypes
    BY DEF MessageTypes, Places
  <2>2. UserTypes
    BY DEF UserTypes, Request, Nobody, NoRequest
  <2>3. RouterTypes /\ HistoryTypes
    BY DEF RouterTypes, HistoryTypes
  <2> QED
    BY <2>1, <2>2, <2>3 DEF TypeOK
<1>2. Clock /\ Minted
  BY DEF Clock, Minted, NoRequest
<1>3. Listed /\ Current /\ FanOut /\ RoutedMeansQueued
  BY DEF Listed, Current, FanOut, RoutedMeansQueued
<1> QED
  BY <1>1, <1>2, <1>3 DEF IInv

LEMMA StutterStep == IInv /\ UNCHANGED vars => IInv'
BY DEF vars, store, messages, letters, marks, membership, mail, calendar,
       router, listing, locals, env, IInv, TypeOK, MessageTypes, UserTypes,
       RouterTypes, HistoryTypes, Clock, Minted, Listed, Stored, Current,
       Snapshot, FanOut, Has, Waiting, RoutedMeansQueued, At

(* The inductive invariant holds of every reachable state. *)
THEOREM Invariance == Spec => []IInv
<1>1. IInv /\ [Next]_vars => IInv'
  BY ApiStep, RouterLoopStep, SystemStep, StutterStep DEF Next
<1> QED
  BY InitIInv, <1>1, PTL DEF Spec

(* Every variable keeps its type, with message ids within the clock's range. *)
THEOREM TypeCorrect == Spec => []TypeOK
BY Invariance, PTL DEF IInv

(* .routed is written for no message that a recipient has missed. *)
THEOREM RoutedIsQueued == Spec => []RoutedMeansQueued
BY Invariance, PTL DEF IInv

-----------------------------------------------------------------------------
(* Bounces. *)

(* The sender of m was found to be no member, and m is no announcement. *)
Foreign(m) == m \notin system /\ (from[m] \in members => m <= since[from[m]])

(* What BouncedForCause needs besides IInv: the router parks such messages. *)
Caused ==
    faults = 0 => /\ pc = "park" => Foreign(cur)
                  /\ \A m \in At("rejected") : Foreign(m)

(* Whoever is added again gets a marker later than the minted messages. *)
LEMMA ForeignStays ==
    ASSUME IInv, [Next]_vars, NEW m \in Mids, place[m] # "none", Foreign(m)
    PROVE  Foreign(m)'
<1> USE UsersAssumption, BoundsAssumption
        DEF IInv, TypeOK, MessageTypes, UserTypes, HistoryTypes, Mids, Foreign
<1>1. CASE UNCHANGED <<letters, since>> /\ members' \subseteq members
  BY <1>1 DEF letters
<1>2. ASSUME NEW u \in Users, Send(u) \/ AddWrite(u) \/ LeaveAnnounce(u)
      PROVE  Foreign(m)'
  <2>1. ts < MaxTs /\ \E v \in Users, where \in Places \ {"none"} : NewMessage(v, where)
    BY <1>2 DEF Send, AddWrite, LeaveAnnounce, SpoolSystem, Places
  <2>2. m # ts + 1 /\ m <= ts /\ from'[m] = from[m]
    BY <2>1, Minting DEF Minted
  <2>3. system' \subseteq system \cup {ts + 1}
    BY <1>2 DEF Send, AddWrite, LeaveAnnounce, SpoolSystem
  <2>4. CASE AddWrite(u)
    <3>1. /\ members' = members \cup {req[u].who} /\ req[u].who \in Users
          /\ since' = [since EXCEPT ![req[u].who] = ts]
      BY <2>4 DEF AddWrite, Clock
    <3> QED
      BY <2>2, <2>3, <3>1
  <2>5. CASE Send(u) \/ LeaveAnnounce(u)
    BY <2>2, <2>3, <2>5 DEF Send, LeaveAnnounce, membership
  <2> QED
    BY <1>2, <2>4, <2>5
<1>3. CASE Api
  BY <1>1, <1>2, <1>3 DEF Api, Spool, SpoolFails, AddCheck, AddDraw, LeaveUnlink, LeaveSweep,
     Login, Unlink, PeekDrops, DropDangling, ConfirmMessage, ConfirmEvent, store, messages,
     letters, membership
<1>4. CASE RouterStep
  BY <1>1, <1>4 DEF RouterStep, EndOfListing, Resume, GiveUp, Route, Move, Park, Tell, MakeDirs,
     Mark, Postpone, Link, store, messages, membership
<1>5. CASE RouterFault
  BY <1>1, <1>5 DEF RouterFault, MoveFails, ParkFails, TellFails, DirsFail, MarkFails,
     FinishRaises, LinkFails, ProvisionFails, store, messages, membership
<1>6. CASE NextDay \/ Crash \/ (\E d \in 1..MaxDay : Retain(d)) \/ UNCHANGED vars
  BY <1>1, <1>6 DEF NextDay, Crash, Retain, vars, store, messages, membership
<1> QED
  BY <1>3, <1>4, <1>5, <1>6 DEF Next

LEMMA CausedStep == IInv /\ Caused /\ [Next]_vars => Caused'
<1> SUFFICES ASSUME IInv, Caused, [Next]_vars PROVE Caused'
  OBVIOUS
<1> USE BoundsAssumption DEF IInv, TypeOK, MessageTypes, RouterTypes, HistoryTypes, Mids, At
<1>1. \A m \in Mids : place[m] # "none" /\ Foreign(m) => Foreign(m)'
  BY ForeignStays
<1>2. CASE /\ faults' = faults
           /\ pc' = "park" => pc = "park" /\ cur' = cur
           /\ \A m \in Mids : place'[m] = "rejected" => place[m] = "rejected"
  BY <1>1, <1>2 DEF Caused, Current
<1>3. CASE faults' = faults + 1
  BY <1>3 DEF Caused
<1>4. ASSUME NEW u \in Users, Send(u) \/ AddWrite(u) \/ LeaveAnnounce(u)
      PROVE  Caused'
  <2>1. /\ ts < MaxTs
        /\ \E v \in Users, where \in Places \ {"none", "rejected"} : NewMessage(v, where)
    BY <1>4 DEF Send, AddWrite, LeaveAnnounce, SpoolSystem, Places
  <2>2. \A m \in Mids : place'[m] = "rejected" => place[m] = "rejected"
    BY <2>1, Minting
  <2> QED
    BY <1>2, <1>4, <2>2 DEF Send, AddWrite, LeaveAnnounce, env, router, locals
<1>5. CASE Api
  BY SMTT(30), <1>2, <1>3, <1>4, <1>5 DEF Api, Spool, SpoolFails, Fault, AddCheck, AddDraw, LeaveUnlink,
     LeaveSweep, Login, Unlink, PeekDrops, DropDangling, ConfirmMessage, ConfirmEvent, store,
     messages, env, router, locals
<1>6. ASSUME NEW m \in Mids, Route(m)
      PROVE  Caused'
  <2>1. /\ pc' = "park" => from[m] \notin members /\ m \notin system
        /\ cur' = m /\ place[m] = "incoming" /\ place' = place /\ faults' = faults
    BY <1>6 DEF Route, Take, First, MaySend, Listed, store, messages, env
  <2> QED
    BY <1>1, <2>1 DEF Caused, Foreign
<1>7. CASE Park
  <2>1. /\ pc = "park" /\ pc' = "tell" /\ cur \in Mids /\ place[cur] = "incoming"
        /\ place' = [place EXCEPT ![cur] = "rejected"] /\ faults' = faults
    BY <1>7 DEF Park, Current, env
  <2> QED
    BY <1>1, <2>1 DEF Caused
<1>8. CASE EndOfListing \/ (\E m \in Mids : Resume(m) \/ GiveUp(m)) \/ Move \/ Tell
           \/ MakeDirs \/ Mark \/ Postpone \/ \E u \in Users : Link(u)
  BY <1>2, <1>8 DEF EndOfListing, Resume, GiveUp, Move, Tell, MakeDirs, Mark, Postpone, Link,
     Return, store, messages, env, locals
<1>9. CASE DirsFail \/ MarkFails
  <2>1. CASE place[cur] = "group"
    BY <1>3, <1>9, <2>1 DEF DirsFail, MarkFails, FinishRaises, Fault
  <2>2. CASE place[cur] # "group"
    BY <1>2, <1>9, <2>2 DEF DirsFail, MarkFails, Complete, FinishRaises, Raise, Return, Current,
       Stored, store, messages, env
  <2> QED
    BY <2>1, <2>2
<1>10. CASE RouterFault
  BY <1>3, <1>9, <1>10 DEF RouterFault, MoveFails, ParkFails, TellFails, LinkFails,
     ProvisionFails, Fault
<1>11. CASE NextDay \/ Crash \/ (\E d \in 1..MaxDay : Retain(d)) \/ UNCHANGED vars
  BY <1>2, <1>11 DEF NextDay, Crash, Retain, Return, vars, store, messages, env, router, locals
<1> QED
  BY <1>5, <1>6, <1>7, <1>8, <1>10, <1>11 DEF Next, RouterStep

(* Without a failing disk operation a bounced message is a user's, and its
   sender left the group after minting it. *)
THEOREM BouncesHaveACause == Spec => []BouncedForCause
<1>1. Init => Caused
  BY DEF Init, Caused, At
<1>2. Caused => BouncedForCause
  BY DEF Caused, BouncedForCause, Foreign
<1> QED
  BY Invariance, <1>1, <1>2, CausedStep, PTL DEF Spec

-----------------------------------------------------------------------------
(* The refinement. *)

(* What the refinement needs besides IInv: queues, and the notes of losses,
   name stored messages only, and the router works on none that is routed. *)
Traces ==
    \A u \in Users, m \in Mids :
        Waiting(u, m) \/ <<u, m>> \in skipped \cup swept => Stored(m)

Fresh ==
    /\ routed \cap (work \cup unfinished) = {}
    /\ pc \in {"dirs", "fan"} => cur \notin routed
    /\ pc = "fan" => from[cur] \notin todo

LEMMA EntryKinds ==
    \A m, n, v : /\ MsgEntry(m) # FailedEntry(n) /\ MsgEntry(m) # DeliveredEntry(n, v)
                 /\ MsgEntry(m) = MsgEntry(n) => m = n
                 /\ MsgEntry(m).kind = "msg"
BY DEF MsgEntry, FailedEntry, DeliveredEntry

(* A stored message stays stored, and only stored messages come into queues. *)
LEMMA StoredSteps ==
    ASSUME IInv, [Next]_vars
    PROVE  /\ \A m \in Mids : Stored(m) => Stored(m)'
           /\ \A m \in Mids, u \in Users : Waiting(u, m)' => Waiting(u, m) \/ Stored(m)
           /\ \A m \in Mids, u \in Users : <<u, m>> \in (skipped \cup swept)'
                => <<u, m>> \in skipped \cup swept \/ Waiting(u, m) \/ Stored(m)
<1> DEFINE Goal == /\ \A m \in Mids : Stored(m) => Stored(m)'
                   /\ \A m \in Mids, u \in Users : Waiting(u, m)' => Waiting(u, m) \/ Stored(m)
                   /\ \A m \in Mids, u \in Users : <<u, m>> \in (skipped \cup swept)'
                        => <<u, m>> \in skipped \cup swept \/ Waiting(u, m) \/ Stored(m)
<1> SUFFICES Goal
  OBVIOUS
<1> USE UsersAssumption, BoundsAssumption
        DEF IInv, TypeOK, MessageTypes, UserTypes, RouterTypes, Mids
<1>1. CASE UNCHANGED <<queue, skipped, swept>> /\ \A m \in Mids : Stored(m) => Stored(m)'
  BY <1>1 DEF Waiting
<1>2. ASSUME NEW u \in Users,
             Send(u) \/ AddWrite(u) \/ LeaveAnnounce(u)
      PROVE  Goal
  <2>1. ts < MaxTs /\ \E v \in Users, where \in Places \ {"none"} : NewMessage(v, where)
    BY <1>2 DEF Send, AddWrite, LeaveAnnounce, SpoolSystem, Places
  <2>2. \A m \in Mids : Stored(m) => Stored(m)'
    BY <2>1, Minting DEF Stored
  <2> QED
    BY <1>1, <1>2, <2>2 DEF Send, AddWrite, LeaveAnnounce, mail
<1>3. ASSUME NEW m \in Mids, Spool(m) \/ SpoolFails(m)
      PROVE  Goal
  BY <1>1, <1>3 DEF Spool, SpoolFails, mail, Stored
<1>4. ASSUME NEW u \in Users, LeaveSweep(u)
      PROVE  Goal
  <2>1. /\ place' = place /\ skipped' = skipped
        /\ \A v \in Users : queue'[v] \subseteq queue[v]
        /\ swept' = swept \cup {<<u, m>> : m \in {n \in Mids : Waiting(u, n)}}
    BY <1>4 DEF LeaveSweep, messages
  <2> QED
    BY <2>1 DEF Waiting, Stored
<1>5. ASSUME NEW u \in Users, Login(u) \/ LeaveUnlink(u) \/ AddDraw(u)
                              \/ \E v \in Users : AddCheck(u, v)
      PROVE  Goal
  BY <1>1, <1>5 DEF Login, LeaveUnlink, AddDraw, AddCheck, store, messages, mail, Stored
<1>6. ASSUME NEW u \in Users, NEW e, Unlink(u, e)
      PROVE  Goal
  <2>1. /\ place' = place /\ skipped' = skipped /\ swept' = swept
        /\ \A v \in Users : queue'[v] \subseteq queue[v]
    BY <1>6 DEF Unlink, messages
  <2> QED
    BY <2>1 DEF Waiting, Stored
<1>7. ASSUME NEW u \in Users, NEW n \in Mids, ConfirmMessage(u, n)
      PROVE  Goal
  <2>1. /\ place' = place /\ skipped' = skipped /\ swept' = swept
        /\ \A v \in Users : queue'[v] \subseteq queue[v] \cup {DeliveredEntry(n, u)}
    BY <1>7 DEF ConfirmMessage, messages
  <2> QED
    BY <2>1, EntryKinds DEF Waiting, Stored
<1>8. CASE Api
  <2>1. ASSUME NEW u \in Users, NEW m \in Mids, PeekDrops(u, m) \/ DropDangling(u, m)
        PROVE  Goal
    BY <1>6, <2>1 DEF PeekDrops, DropDangling
  <2>2. ASSUME NEW u \in Users, NEW e \in queue[u], ConfirmEvent(u, e)
        PROVE  Goal
    BY <1>6, <2>2 DEF ConfirmEvent
  <2> QED
    BY <1>2, <1>3, <1>4, <1>5, <1>7, <1>8, <2>1, <2>2 DEF Api
<1>9. CASE EndOfListing \/ MakeDirs \/ Mark \/ Postpone \/ TellFails \/ DirsFail \/ MarkFails
  BY <1>1, <1>9 DEF EndOfListing, MakeDirs, Mark, Postpone, TellFails, DirsFail, MarkFails,
     FinishRaises, store, messages, mail, Stored
<1>10. CASE \E m \in Mids : Resume(m) \/ GiveUp(m) \/ Route(m)
  BY <1>1, <1>10 DEF Resume, GiveUp, Route, store, messages, mail, Stored
<1>11. CASE Move \/ MoveFails \/ Park \/ ParkFails
  BY <1>1, <1>11 DEF Move, MoveFails, Park, ParkFails, messages, mail, Stored, Current
<1>12. CASE Tell
  <2>1. /\ place' = place /\ skipped' = skipped /\ swept' = swept
        /\ \A v \in Users : queue'[v] \subseteq queue[v] \cup {FailedEntry(cur)}
    BY <1>12 DEF Tell, messages
  <2>2. \A v \in Users, m \in Mids : Waiting(v, m)' => Waiting(v, m)
    BY <2>1, EntryKinds DEF Waiting
  <2> QED
    BY <2>1, <2>2 DEF Stored
<1>13. ASSUME NEW u \in Users, Link(u)
       PROVE  Goal
  <2>1. /\ place' = place /\ skipped' = skipped /\ swept' = swept /\ Stored(cur)
        /\ \A v \in Users : queue'[v] \subseteq queue[v] \cup {MsgEntry(cur)}
    BY <1>13 DEF Link, messages, Current
  <2> QED
    BY <2>1, EntryKinds DEF Waiting, Stored
<1>14. ASSUME NEW u \in Users, LinkFails(u)
       PROVE  Goal
  BY <1>1, <1>14 DEF LinkFails, store, messages, mail, Stored
<1>15. ASSUME NEW u \in Users, ProvisionFails(u)
       PROVE  Goal
  <2>1. /\ place' = place /\ swept' = swept /\ queue' = queue /\ Stored(cur)
        /\ skipped' = skipped \cup {<<u, cur>>}
    BY <1>15 DEF ProvisionFails, messages, Current
  <2> QED
    BY <2>1 DEF Waiting, Stored
<1>16. CASE NextDay \/ Crash \/ \E d \in 1..MaxDay : Retain(d)
  BY <1>1, <1>16 DEF NextDay, Crash, Retain, messages, mail, Stored
<1>17. CASE UNCHANGED vars
  BY <1>1, <1>17 DEF vars, store, messages, mail, Stored
<1> QED
  BY <1>8, <1>9, <1>10, <1>11, <1>12, <1>13, <1>14, <1>15, <1>16, <1>17
     DEF Next, RouterStep, RouterFault

LEMMA TracesStep == IInv /\ Traces /\ [Next]_vars => Traces'
BY StoredSteps DEF Traces

LEMMA FreshStep == IInv /\ Fresh /\ [Next]_vars => Fresh'
<1> SUFFICES ASSUME IInv, Fresh, [Next]_vars PROVE Fresh'
  OBVIOUS
<1> USE BoundsAssumption DEF IInv, TypeOK, MessageTypes, RouterTypes, Mids, Fresh
<1>1. CASE /\ UNCHANGED <<routed, router>>
           /\ \A m \in Mids : Stored(m) => from'[m] = from[m]
  BY <1>1 DEF router, listing, locals, Current
<1>2. CASE Api \/ NextDay \/ (\E d \in 1..MaxDay : Retain(d)) \/ UNCHANGED vars
  <2>1. ASSUME NEW u \in Users, Send(u) \/ AddWrite(u) \/ LeaveAnnounce(u)
        PROVE  Fresh'
    <3>1. ts < MaxTs /\ \E v \in Users, where \in Places \ {"none"} : NewMessage(v, where)
      BY <2>1 DEF Send, AddWrite, LeaveAnnounce, SpoolSystem, Places
    <3>2. \A m \in Mids : Stored(m) => from'[m] = from[m]
      BY <3>1, Minting DEF Stored
    <3> QED
      BY <1>1, <2>1, <3>2 DEF Send, AddWrite, LeaveAnnounce, marks
  <2> QED
    BY <1>1, <1>2, <2>1 DEF Api, Spool, SpoolFails, AddCheck, AddDraw, LeaveUnlink, LeaveSweep,
       Login, Unlink, PeekDrops, DropDangling, ConfirmMessage, ConfirmEvent, NextDay, Retain,
       store, messages, letters, marks, vars
<1>3. CASE EndOfListing
  BY <1>3 DEF EndOfListing, At, store, marks, locals, Listed, Stored
<1>4. ASSUME NEW m \in Mids, Resume(m) \/ GiveUp(m) \/ Route(m)
      PROVE  Fresh'
  BY <1>4 DEF Resume, GiveUp, Route, Take, First, store, marks, locals
<1>5. CASE Move
  BY <1>5 DEF Move, marks, listing, locals, Current, Listed, Stored
<1>6. CASE MoveFails \/ Park \/ ParkFails \/ Tell \/ TellFails
  BY <1>6 DEF MoveFails, Park, ParkFails, Tell, TellFails, Raise, Return, store, marks, listing,
     locals
<1>7. CASE DirsFail \/ MarkFails
  BY <1>7 DEF DirsFail, MarkFails, FinishRaises, Raise, Return, store, marks, listing, locals
<1>8. CASE MakeDirs \/ \E u \in Users : Link(u) \/ LinkFails(u) \/ ProvisionFails(u)
  BY <1>8 DEF MakeDirs, Recipients, Link, LinkFails, ProvisionFails, store, messages, letters,
     marks, listing
<1>9. CASE Mark
  BY <1>9 DEF Mark, Complete, Return, listing, Current
<1>10. CASE Postpone
  BY <1>10 DEF Postpone, Postponed, Return, store, marks, listing
<1>11. CASE Crash
  BY <1>11 DEF Crash, Return, Recoverable, marks
<1> QED
  BY <1>2, <1>3, <1>4, <1>5, <1>6, <1>7, <1>8, <1>9, <1>10, <1>11
     DEF Next, RouterStep, RouterFault

-----------------------------------------------------------------------------
(* Action properties. *)

(* After the rename into the group a message is only ever archived. *)
THEOREM StoredStays == Spec => StoredStaysStored
<1>1. IInv /\ [Next]_vars => [\A m \in Mids : place[m] = "group"
                                  => place'[m] \in {"group", "archived"}]_vars
  BY StoredSteps DEF Stored
<1> QED
  BY Invariance, <1>1, PTL DEF Spec, StoredStaysStored

(* Whom the drain has still to link has neither the entry nor confirmed it. *)
Untold ==
    /\ \A m \in Mids : ~Stored(m) => delivered[m] = {}
    /\ phase = "drain" /\ pc = "dirs" =>
          delivered[cur] = {} /\ \A u \in Users : ~Waiting(u, cur)
    /\ phase = "drain" /\ pc = "fan" =>
          \A u \in todo : u \notin delivered[cur] /\ ~Waiting(u, cur)

LEMMA UntoldStep == IInv /\ Traces /\ Untold /\ [Next]_vars => Untold'
<1> SUFFICES ASSUME IInv, Traces, Untold, [Next]_vars PROVE Untold'
  OBVIOUS
<1> USE BoundsAssumption
        DEF IInv, TypeOK, MessageTypes, UserTypes, RouterTypes, Mids, Untold
<1>0. \A m \in Mids : Stored(m) => Stored(m)'
  BY StoredSteps
<1>1. CASE /\ UNCHANGED <<phase, pc, cur, todo, delivered>>
           /\ \A u \in Users, m \in Mids : Waiting(u, m)' => Waiting(u, m)
  BY <1>0, <1>1 DEF Current
<1>2. CASE UNCHANGED <<router, delivered, queue>>
  BY <1>1, <1>2 DEF router, listing, locals, Waiting
<1>3. ASSUME NEW u \in Users, LeaveSweep(u) \/ \E e : Unlink(u, e)
      PROVE  Untold'
  <2>1. \A v \in Users : queue'[v] \subseteq queue[v]
    <3>1. CASE LeaveSweep(u)
      BY <3>1 DEF LeaveSweep
    <3>2. ASSUME NEW e, Unlink(u, e) PROVE \A v \in Users : queue'[v] \subseteq queue[v]
      BY <3>2 DEF Unlink
    <3> QED
      BY <1>3, <3>1, <3>2
  <2> QED
    BY <1>1, <1>3, <2>1 DEF LeaveSweep, Unlink, Waiting, marks, router, listing, locals
<1>4. ASSUME NEW u \in Users, NEW m \in Mids, ConfirmMessage(u, m)
      PROVE  Untold'
  <2>1. \A v \in Users : queue'[v] \subseteq queue[v] \cup {DeliveredEntry(m, u)}
    BY <1>4 DEF ConfirmMessage
  <2>2. \A v \in Users, n \in Mids : Waiting(v, n)' => Waiting(v, n)
    BY <2>1, EntryKinds DEF Waiting
  <2>3. /\ \A n \in Mids \ {m} : delivered'[n] = delivered[n]
        /\ delivered'[m] \subseteq delivered[m] \cup {u} /\ Waiting(u, m)
        /\ place[m] # "group" => delivered'[m] = delivered[m]
        /\ UNCHANGED <<place, phase, pc, cur, todo>>
    BY <1>4 DEF ConfirmMessage, Waiting, messages, router, listing, locals
  <2> QED
    BY <2>2, <2>3 DEF Stored, Current
<1>5. CASE Api
  <2>1. ASSUME NEW u \in Users, NEW m \in Mids, PeekDrops(u, m) \/ DropDangling(u, m)
        PROVE  Untold'
    BY <1>3, <2>1 DEF PeekDrops, DropDangling
  <2>2. ASSUME NEW u \in Users, NEW e \in queue[u], ConfirmEvent(u, e)
        PROVE  Untold'
    BY <1>3, <2>2 DEF ConfirmEvent
  <2> QED
    BY <1>2, <1>3, <1>4, <1>5, <2>1, <2>2 DEF Api, Send, Spool, SpoolFails, AddCheck, AddDraw,
       AddWrite, LeaveAnnounce, LeaveUnlink, Login, store, marks, mail
<1>6. CASE pc' \notin {"dirs", "fan"} /\ delivered' = delivered
  BY <1>0, <1>6
<1>7. CASE EndOfListing
  BY <1>6, <1>7 DEF EndOfListing, store, marks, locals
<1>8. ASSUME NEW m \in Mids, Resume(m) \/ GiveUp(m) \/ Route(m)
      PROVE  Untold'
  BY <1>0, <1>8 DEF Resume, GiveUp, Route, Take, store, marks, locals
<1>9. CASE Move
  <2>1. ~Stored(cur) /\ cur \in Mids
    BY <1>9 DEF Move, Current, Stored
  <2> QED
    BY <1>0, <1>9, <2>1 DEF Move, marks, mail, Traces, Waiting, listing, locals
<1>10. CASE Park \/ ParkFails \/ MoveFails \/ Tell \/ TellFails \/ Mark \/ Postpone
  BY <1>6, <1>10 DEF Park, ParkFails, MoveFails, Tell, TellFails, Mark, Postpone, Raise, Return,
     store, marks
<1>11. CASE DirsFail \/ MarkFails
  BY <1>6, <1>11 DEF DirsFail, MarkFails, Complete, FinishRaises, Raise, Return, Current, Stored,
     store, marks
<1>12. CASE MakeDirs
  BY <1>0, <1>12 DEF MakeDirs, Recipients, Waiting, Current, store, marks, mail, listing
<1>13. ASSUME NEW u \in Users, Link(u)
       PROVE  Untold'
  <2>1. /\ todo' = todo \ {u} /\ pc = "fan" /\ cur \in Mids
        /\ UNCHANGED <<delivered, phase, pc, cur, place>>
        /\ \A v \in Users \ {u} : queue'[v] = queue[v]
    BY <1>13 DEF Link, messages, marks, listing, Current
  <2> QED
    BY <2>1 DEF Waiting, Stored
<1>14. ASSUME NEW u \in Users, LinkFails(u) \/ ProvisionFails(u)
       PROVE  Untold'
  <2>1. todo' \subseteq todo /\ UNCHANGED <<delivered, phase, pc, cur, place, queue>>
    BY <1>14 DEF LinkFails, ProvisionFails, store, messages, marks, mail, listing
  <2> QED
    BY <2>1 DEF Waiting, Stored
<1>15. CASE Crash
  BY <1>6, <1>15 DEF Crash, Return, marks
<1>16. CASE NextDay \/ (\E d \in 1..MaxDay : Retain(d)) \/ UNCHANGED vars
  BY <1>2, <1>16 DEF NextDay, Retain, vars, store, marks, mail
<1> QED
  BY <1>5, <1>7, <1>8, <1>9, <1>10, <1>11, <1>12, <1>13, <1>14, <1>15, <1>16
     DEF Next, RouterStep, RouterFault

(* Only the fan-out brings messages into queues, one recipient at a time. *)
LEMMA OnlyLinks ==
    ASSUME IInv, [Next]_vars, NEW m \in Mids, NEW u \in Users, Waiting(u, m)', ~Waiting(u, m)
    PROVE  pc = "fan" /\ m = cur /\ u \in todo
<1> USE BoundsAssumption DEF IInv, TypeOK, UserTypes, RouterTypes
<1>1. ~(\A v \in Users : queue'[v] \subseteq queue[v])
  BY DEF Waiting
<1>2. CASE Link(u)
  <2>1. queue'[u] \subseteq queue[u] \cup {MsgEntry(cur)}
    BY <1>2 DEF Link
  <2> QED
    BY <1>2, <2>1, EntryKinds DEF Link, First, Waiting
<1>3. ASSUME NEW v \in Users \ {u}, Link(v)
      PROVE  FALSE
  BY <1>3 DEF Link, Waiting
<1>4. CASE Tell
  <2>1. queue'[u] \subseteq queue[u] \cup {FailedEntry(cur)}
    BY <1>4 DEF Tell
  <2> QED
    BY <2>1, EntryKinds DEF Waiting
<1>5. ASSUME NEW v \in Users, NEW n \in Mids, ConfirmMessage(v, n)
      PROVE  FALSE
  <2>1. queue'[u] \subseteq queue[u] \cup {DeliveredEntry(n, v)}
    BY <1>5 DEF ConfirmMessage
  <2> QED
    BY <2>1, EntryKinds DEF Waiting
<1>6. ASSUME NEW v \in Users, NEW e, Unlink(v, e)
      PROVE  FALSE
  BY <1>1, <1>6 DEF Unlink
<1>7. CASE Api
  <2>1. ASSUME NEW v \in Users, LeaveSweep(v)
        PROVE  FALSE
    BY <1>1, <2>1 DEF LeaveSweep
  <2>2. ASSUME NEW v \in Users, NEW n \in Mids, PeekDrops(v, n) \/ DropDangling(v, n)
        PROVE  FALSE
    BY <1>6, <2>2 DEF PeekDrops, DropDangling
  <2>3. ASSUME NEW v \in Users, NEW e \in queue[v], ConfirmEvent(v, e)
        PROVE  FALSE
    BY <1>6, <2>3 DEF ConfirmEvent
  <2> QED
    BY <1>1, <1>5, <1>7, <2>1, <2>2, <2>3 DEF Api, Send, Spool, SpoolFails, AddCheck, AddDraw,
       AddWrite, LeaveAnnounce, LeaveUnlink, Login, store, mail
<1>8. queue' # queue
  BY <1>1
<1>9. CASE RouterStep
  BY <1>2, <1>3, <1>4, <1>8, <1>9 DEF RouterStep, EndOfListing, Resume, GiveUp, Route, Move, Park,
     MakeDirs, Mark, Postpone, store, mail
<1>10. CASE RouterFault
  BY <1>8, <1>10 DEF RouterFault, MoveFails, ParkFails, TellFails, DirsFail, MarkFails,
     FinishRaises, LinkFails, ProvisionFails, store, mail
<1>11. CASE NextDay \/ Crash \/ (\E d \in 1..MaxDay : Retain(d)) \/ UNCHANGED vars
  BY <1>8, <1>11 DEF NextDay, Crash, Retain, vars, store, mail
<1> QED
  BY <1>7, <1>9, <1>10, <1>11 DEF Next

(* The drain pushes nobody a message they have confirmed. *)
THEOREM DrainPushesOnce == Spec => NoRepush
<1>1. Init => Traces /\ Untold
  BY DEF Init, Traces, Untold, Waiting
<1>2. IInv /\ Traces /\ Untold /\ [Next]_vars => Traces' /\ Untold'
  BY TracesStep, UntoldStep
<1>3. IInv /\ Untold /\ [Next]_vars => [\A m \in Mids : \A u \in Users :
          Waiting(u, m)' /\ ~Waiting(u, m) /\ u \in delivered[m]
              => phase \in {"retry", "recover"}]_vars
  BY OnlyLinks DEF Untold, IInv, TypeOK, RouterTypes
<1> QED
  BY Invariance, <1>1, <1>2, <1>3, PTL DEF Spec, NoRepush

-----------------------------------------------------------------------------
(* The retries.                                                             *)

(* The router is at m, will come back to it, or has let go of it. *)
Kept(m) ==
    m \in work \cup unfinished \cup stranded \/ (cur = m /\ pc \in {"dirs", "fan"})

LEMMA KeptStep ==
    ASSUME IInv, [Next]_vars, NEW m \in Mids, place'[m] = "group", m \notin routed',
           place[m] = "group" /\ m \notin routed => Kept(m)
    PROVE  Kept(m)'
<1> USE BoundsAssumption DEF IInv, TypeOK, MessageTypes, RouterTypes, Mids
<1>1. CASE /\ place[m] = "group" /\ UNCHANGED <<routed, unfinished, stranded, work>>
           /\ pc \in {"dirs", "fan"} => pc' \in {"dirs", "fan"} /\ cur' = cur
  BY <1>1 DEF Kept
<1>2. CASE UNCHANGED <<router, routed>> /\ place[m] = "group"
  BY <1>1, <1>2 DEF router, listing, locals
<1>3. ASSUME NEW u \in Users, Send(u) \/ AddWrite(u) \/ LeaveAnnounce(u)
      PROVE  Kept(m)'
  <2>1. /\ ts < MaxTs
        /\ \E v \in Users : \E where \in {"tmp", "incoming"} : NewMessage(v, where)
    BY <1>3 DEF Send, AddWrite, LeaveAnnounce, SpoolSystem
  <2>2. place[m] = "group"
    BY <2>1, Minting DEF Places
  <2> QED
    BY <1>2, <1>3, <2>2 DEF Send, AddWrite, LeaveAnnounce, marks
<1>4. CASE Api
  BY <1>2, <1>3, <1>4 DEF Api, Spool, SpoolFails, AddCheck, AddDraw, LeaveUnlink, LeaveSweep,
     Login, Unlink, PeekDrops, DropDangling, ConfirmMessage, ConfirmEvent, store, messages, marks
<1>5. CASE EndOfListing
  BY <1>5 DEF EndOfListing, Kept, store, messages, marks, locals
<1>6. ASSUME NEW n \in Mids, Resume(n) \/ GiveUp(n) \/ Route(n)
      PROVE  Kept(m)'
  BY <1>6 DEF Resume, GiveUp, Route, Take, First, Listed, Kept, store, messages, marks, locals
<1>7. CASE Move
  BY <1>7 DEF Move, Kept, Current, marks, listing, locals
<1>8. CASE Park \/ ParkFails \/ MoveFails \/ Tell \/ TellFails
  BY <1>1, <1>8 DEF Park, ParkFails, MoveFails, Tell, TellFails, Current, store, messages, marks,
     listing
<1>9. CASE MakeDirs \/ \E u \in Users : Link(u) \/ LinkFails(u) \/ ProvisionFails(u)
  BY <1>1, <1>9 DEF MakeDirs, Link, LinkFails, ProvisionFails, store, messages, marks, listing
<1>10. CASE Mark
  BY <1>10 DEF Mark, Kept, messages, listing
<1>11. CASE Postpone
  <2>1. CASE Cardinality(unfinished) < MaxUnfinished
    BY <1>11, <2>1 DEF Postpone, Postponed, Kept, store, messages, marks, listing
  <2>2. CASE ~(Cardinality(unfinished) < MaxUnfinished)
    BY <1>11, <2>2 DEF Postpone, Postponed, Kept, store, messages, marks, listing
  <2> QED
    BY <2>1, <2>2
<1>12. CASE DirsFail \/ MarkFails
  <2>1. m \notin routed /\ place[m] = "group" /\ work' = work
    BY <1>12 DEF DirsFail, MarkFails, FinishRaises, store, messages, marks, listing
  <2>2. CASE place[cur] = "group"
    <3>1. unfinished' = unfinished /\ stranded' = stranded \cup ({cur} \ unfinished)
      BY <1>12, <2>2 DEF DirsFail, MarkFails, FinishRaises
    <3> QED
      BY <2>1, <3>1 DEF Kept
  <2>3. CASE place[cur] # "group"
    <3>1. unfinished' = unfinished \ {cur} /\ stranded' = stranded /\ cur # m
      BY <1>12, <2>1, <2>3 DEF DirsFail, MarkFails, FinishRaises
    <3> QED
      BY <2>1, <3>1 DEF Kept
  <2> QED
    BY <2>2, <2>3
<1>13. CASE Crash
  BY <1>13 DEF Crash, Recoverable, At, Kept, letters, marks
<1>14. CASE NextDay \/ (\E d \in 1..MaxDay : Retain(d)) \/ UNCHANGED vars
  BY <1>2, <1>14 DEF NextDay, Retain, vars, store, messages, marks
<1> QED
  BY <1>4, <1>5, <1>6, <1>7, <1>8, <1>9, <1>10, <1>11, <1>12, <1>13, <1>14
     DEF Next, RouterStep, RouterFault

(* The fan-out of every stored message is taken up again until .routed is
   written, in memory or, after a restart, from the two newest day folders:
   nothing but an exception in _finish, a full _unfinished and a restart after
   two newer days lets go of one. *)
THEOREM NothingIsForgotten == Spec => []NothingForgotten
<1>1. Init => NothingForgotten
  BY DEF Init, NothingForgotten, At
<1>2. IInv /\ NothingForgotten /\ [Next]_vars => NothingForgotten'
  <2> SUFFICES ASSUME IInv, NothingForgotten, [Next]_vars,
                      NEW m \in Mids, place'[m] = "group", m \notin routed'
               PROVE  Kept(m)'
    BY DEF NothingForgotten, At, Kept
  <2>1. place[m] = "group" /\ m \notin routed => Kept(m)
    BY DEF NothingForgotten, At, Kept
  <2> QED
    BY <2>1, KeptStep
<1> QED
  BY Invariance, <1>1, <1>2, PTL DEF Spec

-----------------------------------------------------------------------------
(* The initial states map to the initial state. *)
LEMMA InitMapped == Init => Mailbox!Init /\ Traces /\ Fresh
<1> SUFFICES ASSUME Init PROVE Mailbox!Init /\ Traces /\ Fresh
  OBVIOUS
<1>1. Traces /\ Fresh
  BY DEF Init, Traces, Fresh, Waiting
<1>2. \A m \in Mids : StatusOf(m) = "none" /\ DueTo(m) = {} /\ BoxedFor(m) = {} /\ LostBy(m) = {}
  BY DEF Init, StatusOf, DueTo, BoxedFor, LostBy
<1>3. Leaving = {}
  BY DEF Init, Leaving, NoRequest
<1>4. Status = [m \in Mids |-> "none"] /\ Due = [m \in Mids |-> {}]
      /\ Boxed = [m \in Mids |-> {}] /\ Lost = [m \in Mids |-> {}]
  BY <1>2 DEF Status, Due, Boxed, Lost
<1> QED
  BY <1>1, <1>3, <1>4 DEF Mailbox!Init, Init

-----------------------------------------------------------------------------
(* How the mapped variables follow from those of Delivery. *)
LEMMA SameStatus == ASSUME UNCHANGED <<place, routed>> PROVE Status' = Status
BY DEF Status, StatusOf

LEMMA SameDue == ASSUME UNCHANGED <<place, from, members, since>> PROVE Due' = Due
BY DEF Due, DueTo

LEMMA SameBoxed ==
    ASSUME UNCHANGED place,
           \A m \in Mids, u \in Users : place[m] = "group" => (Waiting(u, m)' <=> Waiting(u, m))
    PROVE  Boxed' = Boxed
<1>1. \A m \in Mids : BoxedFor(m)' = BoxedFor(m)
  BY DEF BoxedFor
<1> QED
  BY <1>1 DEF Boxed

LEMMA SameLost == ASSUME UNCHANGED <<place, skipped, swept>> PROVE Lost' = Lost
BY DEF Lost, LostBy

LEMMA SameLeaving ==
    ASSUME \A u \in Users : req'[u].op = "sweep" <=> req[u].op = "sweep"
    PROVE  Leaving' = Leaving
BY DEF Leaving

(* A step that changes none of what the mapping looks at is a stutter. *)
LEMMA Quiet ==
    ASSUME UNCHANGED <<place, routed, from, members, since, home, delivered, skipped, swept>>,
           \A m \in Mids, u \in Users : place[m] = "group" => (Waiting(u, m)' <=> Waiting(u, m)),
           \A u \in Users : req'[u].op = "sweep" <=> req[u].op = "sweep"
    PROVE  UNCHANGED Mailbox!vars
BY SameStatus, SameDue, SameBoxed, SameLost, SameLeaving
   DEF Mailbox!vars, Mailbox!message, Mailbox!group, Mailbox!boxes

(* The same when the queues and the requests stay as they are. *)
LEMMA QuietStore ==
    ASSUME UNCHANGED <<place, routed, from, members, since, home, delivered, skipped, swept, queue,
                       req>>
    PROVE  UNCHANGED Mailbox!vars
<1>1. \A m \in Mids, u \in Users : Waiting(u, m)' <=> Waiting(u, m)
  BY DEF Waiting
<1> QED
  BY <1>1, Quiet

(* A message changes its place outside of the group, or into it: queues and
   notes of losses do not name it yet. *)
LEMMA MovesOn ==
    ASSUME IInv, Traces, NEW m \in Mids, place[m] \in {"tmp", "incoming"}, NEW where,
           where \in Places \ {"none", "archived"},
           place' = [place EXCEPT ![m] = where],
           UNCHANGED <<routed, from, members, since, home, delivered, queue, skipped, swept, req>>
    PROVE  /\ Status' = [Status EXCEPT ![m] = StatusOf(m)']
           /\ UNCHANGED <<from, Mailbox!group, Due, Mailbox!boxes>>
<1> USE DEF IInv, TypeOK, MessageTypes
<1>1. \A n \in Mids \ {m} : place'[n] = place[n]
  OBVIOUS
<1>2. place'[m] = where /\ ~Stored(m)
  BY DEF Stored
<1>3. \A u \in Users : ~Waiting(u, m) /\ ~Waiting(u, m)' /\ <<u, m>> \notin skipped \cup swept
  BY <1>2 DEF Traces, Waiting
<1>4. Status' = [Status EXCEPT ![m] = StatusOf(m)']
  <2>1. \A n \in Mids \ {m} : StatusOf(n)' = StatusOf(n)
    BY <1>1 DEF StatusOf
  <2> QED
    BY <2>1 DEF Status
<1>5. Due' = Due
  <2>1. \A n \in Mids : DueTo(n)' = DueTo(n)
    BY <1>1, <1>2 DEF DueTo, Places
  <2> QED
    BY <2>1 DEF Due
<1>6. Boxed' = Boxed
  <2>1. \A n \in Mids : BoxedFor(n)' = BoxedFor(n)
    BY <1>1, <1>3 DEF BoxedFor, Waiting
  <2> QED
    BY <2>1 DEF Boxed
<1>7. Lost' = Lost
  <2>1. \A n \in Mids : LostBy(n)' = LostBy(n)
    BY <1>1, <1>3 DEF LostBy
  <2> QED
    BY <2>1 DEF Lost
<1> QED
  BY <1>4, <1>5, <1>6, <1>7, SameLeaving DEF Mailbox!group, Mailbox!boxes

StageOf(where) == IF where = "tmp" THEN "posted" ELSE "accepted"

(* A message is minted: nobody has anything of it yet. *)
LEMMA Mints ==
    ASSUME IInv, ts < MaxTs, NEW by \in Users, NEW where \in {"tmp", "incoming"},
           NewMessage(by, where), routed' = routed
    PROVE  ts + 1 \in Mids /\ Mailbox!New(ts + 1, by, StageOf(where))
<1> USE UsersAssumption, BoundsAssumption DEF IInv, TypeOK, MessageTypes
<1>0. PICK new : new = ts + 1
  OBVIOUS
<1>1. /\ new \in Mids /\ place[new] = "none" /\ place'[new] = where
      /\ \A n \in Mids \ {new} : place'[n] = place[n]
  BY <1>0, Minting DEF Places
<1>2. from' = [from EXCEPT ![new] = by]
  BY <1>0 DEF NewMessage
<1>3. \A n \in Mids \ {new} : StatusOf(n)' = StatusOf(n)
  BY <1>1 DEF StatusOf
<1>4. StatusOf(new) = "none" /\ StatusOf(new)' = StageOf(where)
  BY <1>1 DEF StatusOf, StageOf
<1>5. Status[new] = "none" /\ Status' = [Status EXCEPT ![new] = StageOf(where)]
  BY <1>1, <1>3, <1>4 DEF Status
<1> QED
  BY <1>0, <1>1, <1>2, <1>5 DEF Mailbox!New

LEMMA MintsUnboxed ==
    ASSUME IInv, ts < MaxTs, NEW by \in Users, NEW where \in {"tmp", "incoming"},
           NewMessage(by, where),
           UNCHANGED <<home, delivered, queue, skipped, swept>>,
           \A u \in Users : req'[u].op = "sweep" <=> req[u].op = "sweep"
    PROVE  UNCHANGED <<Leaving, Mailbox!boxes>>
<1> USE UsersAssumption, BoundsAssumption DEF IInv, TypeOK, MessageTypes
<1>1. /\ place[ts + 1] = "none" /\ place'[ts + 1] = where
      /\ \A n \in Mids \ {ts + 1} : place'[n] = place[n]
  BY Minting DEF Places
<1>2. \A n \in Mids : BoxedFor(n)' = BoxedFor(n) /\ LostBy(n)' = LostBy(n)
  BY <1>1 DEF BoxedFor, LostBy, Waiting
<1>3. UNCHANGED <<Boxed, Lost>>
  BY <1>2 DEF Boxed, Lost
<1> QED
  BY <1>3, SameLeaving DEF Mailbox!boxes

(* It is due to the members of this moment; to those whose marker is written
   with it nothing from before is. *)
LEMMA MintsDue ==
    ASSUME IInv, ts < MaxTs, NEW by \in Users, NEW where \in {"tmp", "incoming"},
           NewMessage(by, where),
           NEW Joining \in SUBSET Users, members' = members \cup Joining,
           \A u \in Users : since'[u] = IF u \in Joining THEN ts ELSE since[u]
    PROVE  Due' = [n \in Mids |-> IF n = ts + 1 THEN members' \ {by} ELSE Due[n] \ Joining]
<1> USE UsersAssumption, BoundsAssumption DEF IInv, TypeOK, MessageTypes, UserTypes, HistoryTypes
<1>0. PICK new : new = ts + 1
  OBVIOUS
<1>1. /\ new \in Mids /\ place[new] = "none" /\ place'[new] = where
      /\ \A n \in Mids \ {new} : place'[n] = place[n] /\ from'[n] = from[n]
  BY <1>0, Minting DEF Places
<1>2. from'[new] = by
  BY <1>0, <1>1 DEF NewMessage
<1>3. ASSUME NEW n \in Mids \ {new} PROVE DueTo(n)' = DueTo(n) \ Joining
  <2>1. CASE place[n] = "none"
    BY <1>1, <2>1 DEF DueTo
  <2>2. CASE place[n] # "none"
    <3>1. ~(ts < n)
      BY <1>0, <2>2 DEF Minted, Mids
    <3>2. DueTo(n)' = {u \in members' : since'[u] < n /\ u # from'[n]}
      BY <1>1, <2>2 DEF DueTo
    <3>3. DueTo(n) = {u \in members : since[u] < n /\ u # from[n]}
      BY <2>2 DEF DueTo
    <3> QED
      BY <1>1, <3>1, <3>2, <3>3
  <2> QED
    BY <2>1, <2>2
<1>4. DueTo(new)' = members' \ {by}
  <2>1. \A u \in members' : since'[u] < new
    BY <1>0 DEF Clock
  <2> QED
    BY <1>1, <1>2, <2>1 DEF DueTo
<1> QED
  BY <1>0, <1>1, <1>3, <1>4 DEF Due

(* The queue of one user loses the entry of one stored message. *)
LEMMA Unboxed ==
    ASSUME IInv, NEW u \in Users, NEW m \in Mids, place[m] = "group", Waiting(u, m),
           UNCHANGED <<place, routed, from, members, since, home, skipped, swept, req>>,
           \A n \in Mids, v \in Users :
                Waiting(v, n)' <=> Waiting(v, n) /\ ~(v = u /\ n = m)
    PROVE  /\ u \in Boxed[m]
           /\ Boxed' = [Boxed EXCEPT ![m] = @ \ {u}]
           /\ UNCHANGED <<Mailbox!message, Mailbox!group, Due, home, Lost>>
<1>1. \A n \in Mids : BoxedFor(n)' = IF n = m THEN BoxedFor(n) \ {u} ELSE BoxedFor(n)
  BY DEF BoxedFor
<1>2. Boxed' = [Boxed EXCEPT ![m] = @ \ {u}]
  BY <1>1 DEF Boxed
<1>3. u \in Boxed[m]
  BY DEF Boxed, BoxedFor
<1> QED
  BY <1>2, <1>3, SameStatus, SameDue, SameLost, SameLeaving
     DEF Mailbox!message, Mailbox!group

(* Whoever is no member, or joined after the message, is not due to get it. *)
LEMMA NotDue ==
    ASSUME IInv, NEW u \in Users, NEW m \in Mids, u \notin members \/ m < joined[u]
    PROVE  u \notin Due[m]
<1>1. joined[u] <= since[u] /\ joined[u] \in Nat /\ since[u] \in Nat /\ m \in Nat
  BY BoundsAssumption DEF IInv, Clock, TypeOK, UserTypes, HistoryTypes, Mids
<1>2. u \in members => ~(since[u] < m)
  BY <1>1
<1> QED
  BY <1>2 DEF Due, DueTo

-----------------------------------------------------------------------------
Maps == Mailbox!Next \/ UNCHANGED Mailbox!vars

(* A message of u, or an announcement, is minted and nobody joins with it. *)
LEMMA Posted ==
    ASSUME IInv, ts < MaxTs, NEW u \in Users, NEW where \in {"tmp", "incoming"},
           NewMessage(u, where),
           UNCHANGED <<routed, home, delivered, queue, skipped, swept, members, since>>,
           \A v \in Users : req'[v].op = "sweep" <=> req[v].op = "sweep"
    PROVE  Maps
<1>1. ts + 1 \in Mids /\ Mailbox!New(ts + 1, u, StageOf(where))
  BY Mints
<1>2. UNCHANGED <<Leaving, Mailbox!boxes>>
  BY MintsUnboxed
<1>3. Due' = [Due EXCEPT ![ts + 1] = members \ {u}]
  <2>1. PICK J \in SUBSET Users : J = {}
    OBVIOUS
  <2>2. members' = members \cup J
        /\ \A v \in Users : since'[v] = IF v \in J THEN ts ELSE since[v]
    BY <2>1
  <2>3. Due' = [n \in Mids |-> IF n = ts + 1 THEN members' \ {u} ELSE Due[n] \ J]
    BY <2>2, MintsDue
  <2> QED
    BY <2>1, <2>3 DEF Due
<1>4. Mailbox!Post(ts + 1, u)
  BY <1>1, <1>2, <1>3 DEF Mailbox!Post, Mailbox!group, StageOf
<1> QED
  BY <1>1, <1>4 DEF Maps, Mailbox!Next

(* by writes the marker of w, and the announcement is minted. *)
LEMMA Joined ==
    ASSUME IInv, ts < MaxTs, NEW by \in Users, NEW w \in Users,
           NewMessage(by, "incoming"),
           UNCHANGED <<routed, home, delivered, queue, skipped, swept>>,
           members' = members \cup {w},
           \A v \in Users : since'[v] = IF v = w THEN ts ELSE since[v],
           \A v \in Users : req'[v].op = "sweep" <=> req[v].op = "sweep"
    PROVE  Maps
<1>1. ts + 1 \in Mids /\ Mailbox!New(ts + 1, by, StageOf("incoming"))
  BY Mints
<1>2. UNCHANGED <<Leaving, Mailbox!boxes>>
  BY MintsUnboxed
<1>3. Due' = [n \in Mids |-> IF n = ts + 1 THEN members' \ {by} ELSE Due[n] \ {w}]
  <2>1. PICK J \in SUBSET Users : J = {w}
    OBVIOUS
  <2>2. members' = members \cup J
        /\ \A v \in Users : since'[v] = IF v \in J THEN ts ELSE since[v]
    BY <2>1
  <2>3. Due' = [n \in Mids |-> IF n = ts + 1 THEN members' \ {by} ELSE Due[n] \ J]
    BY <2>2, MintsDue
  <2> QED
    BY <2>1, <2>3
<1>4. Mailbox!Join(w, ts + 1, by)
  BY <1>1, <1>2, <1>3 DEF Mailbox!Join, StageOf
<1> QED
  BY <1>1, <1>4 DEF Maps, Mailbox!Next

(* The minting of messages maps to posts and joins. *)
LEMMA MintMaps ==
    ASSUME IInv, NEW u \in Users, Send(u) \/ LeaveAnnounce(u) \/ AddWrite(u)
    PROVE  Maps
<1>1. CASE Send(u)
  <2>1. /\ ts < MaxTs /\ NewMessage(u, "tmp")
        /\ UNCHANGED <<routed, home, delivered, queue, skipped, swept, members, since>>
    BY <1>1 DEF Send, marks, membership, mail
  <2>2. \A v \in Users : req'[v].op = "sweep" <=> req[v].op = "sweep"
    BY <1>1 DEF Send
  <2> QED
    BY <2>1, <2>2, Posted, SMT
<1>2. CASE LeaveAnnounce(u)
  <2>1. /\ ts < MaxTs /\ NewMessage(u, "incoming")
        /\ UNCHANGED <<routed, home, delivered, queue, skipped, swept, members, since>>
    BY <1>2 DEF LeaveAnnounce, SpoolSystem, marks, membership, mail
  <2>2. \A v \in Users : req'[v].op = "sweep" <=> req[v].op = "sweep"
    BY <1>2 DEF IInv, TypeOK, UserTypes, LeaveAnnounce, NoRequest
  <2> QED
    BY <2>1, <2>2, Posted, SMT
<1>3. CASE AddWrite(u)
  <2>1. PICK w \in Users : w = req[u].who
    BY <1>3 DEF IInv, AddWrite, Clock
  <2>2. /\ ts < MaxTs /\ NewMessage(u, "incoming") /\ members' = members \cup {w}
        /\ UNCHANGED <<routed, home, delivered, queue, skipped, swept>>
    BY <1>3, <2>1 DEF AddWrite, SpoolSystem, marks, mail
  <2>3. \A v \in Users : since'[v] = IF v = w THEN ts ELSE since[v]
    BY <1>3, <2>1 DEF IInv, TypeOK, HistoryTypes, AddWrite
  <2>4. \A v \in Users : req'[v].op = "sweep" <=> req[v].op = "sweep"
    BY <1>3 DEF IInv, TypeOK, UserTypes, AddWrite, NoRequest
  <2> QED
    BY <2>2, <2>3, <2>4, Joined, SMT
<1> QED
  BY <1>1, <1>2, <1>3

(* The steps of requests and clients map to steps of the mailbox. *)
LEMMA ApiMaps ==
    ASSUME IInv, Traces, Api
    PROVE  Maps
<1> USE UsersAssumption, BoundsAssumption
        DEF IInv, TypeOK, MessageTypes, UserTypes, HistoryTypes
<1>1. ASSUME NEW u \in Users, Send(u) \/ LeaveAnnounce(u) \/ AddWrite(u)
      PROVE  Maps
  BY <1>1, MintMaps
<1>2. ASSUME NEW m \in Mids, Spool(m)
      PROVE  Maps
  <2>1. /\ place[m] = "tmp" /\ place' = [place EXCEPT ![m] = "incoming"]
        /\ UNCHANGED <<routed, from, members, since, home, delivered, queue, skipped, swept, req>>
    BY <1>2 DEF Spool, letters, marks, membership, mail
  <2>2. Status[m] = "posted" /\ StatusOf(m)' = "accepted"
    BY <2>1 DEF Status, StatusOf
  <2>3. Mailbox!Accept(m)
    BY <2>1, <2>2, MovesOn DEF Mailbox!Accept, Mailbox!Move, Places
  <2> QED
    BY <2>3 DEF Maps, Mailbox!Next
<1>3. ASSUME NEW m \in Mids, SpoolFails(m)
      PROVE  Maps
  <2>1. /\ place[m] = "tmp" /\ place' = [place EXCEPT ![m] = "gone"]
        /\ UNCHANGED <<routed, from, members, since, home, delivered, queue, skipped, swept, req>>
    BY <1>3 DEF SpoolFails, letters, marks, membership, mail
  <2>2. Status[m] = "posted" /\ StatusOf(m)' = "refused"
    BY <2>1 DEF Status, StatusOf
  <2>3. Mailbox!Abandon(m)
    BY <2>1, <2>2, MovesOn DEF Mailbox!Abandon, Mailbox!Move, Places
  <2> QED
    BY <2>3 DEF Maps, Mailbox!Next
<1>4. ASSUME NEW u \in Users, LeaveUnlink(u)
      PROVE  Maps
  <2>1. /\ members' = members \ {u}
        /\ UNCHANGED <<place, routed, from, since, home, delivered, queue, skipped, swept>>
    BY <1>4 DEF LeaveUnlink, messages, letters, marks, mail
  <2>2. \A v \in Users : req'[v].op = "sweep" <=> v = u \/ req[v].op = "sweep"
    BY <1>4 DEF LeaveUnlink
  <2>3. Leaving' = Leaving \cup {u}
    BY <2>2 DEF Leaving
  <2>4. \A m \in Mids : DueTo(m)' = DueTo(m) \ {u}
    BY <2>1 DEF DueTo
  <2>5. Due' = [m \in Mids |-> Due[m] \ {u}]
    BY <2>4 DEF Due
  <2>6. UNCHANGED <<Status, Boxed, Lost>>
    BY <2>1, SameStatus, SameBoxed, SameLost DEF Waiting
  <2>7. Mailbox!Leave(u)
    BY <2>1, <2>3, <2>5, <2>6 DEF Mailbox!Leave, Mailbox!message, Mailbox!boxes
  <2> QED
    BY <2>7 DEF Maps, Mailbox!Next
<1>5. ASSUME NEW u \in Users, LeaveSweep(u)
      PROVE  Maps
  <2>1. /\ swept' = swept \cup {<<u, m>> : m \in {n \in Mids : Waiting(u, n)}}
        /\ UNCHANGED <<place, routed, from, members, since, home, delivered, skipped>>
    BY <1>5 DEF LeaveSweep, messages, letters, marks, membership
  <2>2. \A m \in Mids, v \in Users : Waiting(v, m)' <=> Waiting(v, m) /\ v # u
    BY <1>5, EntryKinds DEF LeaveSweep, Waiting
  <2>3. u \in Leaving /\ Leaving' = Leaving \ {u}
    BY <1>5 DEF LeaveSweep, Leaving, NoRequest
  <2>4. \A m \in Mids : /\ BoxedFor(m)' = BoxedFor(m) \ {u}
                        /\ LostBy(m)' = LostBy(m) \cup (BoxedFor(m) \cap {u})
    <3> SUFFICES ASSUME NEW m \in Mids
                 PROVE  /\ BoxedFor(m)' = BoxedFor(m) \ {u}
                        /\ LostBy(m)' = LostBy(m) \cup (BoxedFor(m) \cap {u})
      OBVIOUS
    <3>1. BoxedFor(m)' = BoxedFor(m) \ {u}
      BY <2>1, <2>2 DEF BoxedFor
    <3>2. \A v \in Users : <<v, m>> \in (skipped \cup swept)'
                             <=> <<v, m>> \in skipped \cup swept \/ (v = u /\ Waiting(u, m))
      BY <2>1
    <3>3. LostBy(m)' = LostBy(m) \cup (BoxedFor(m) \cap {u})
      BY <2>1, <3>2 DEF BoxedFor, LostBy
    <3> QED
      BY <3>1, <3>3
  <2>5. /\ Boxed' = [m \in Mids |-> Boxed[m] \ {u}]
        /\ Lost' = [m \in Mids |-> Lost[m] \cup (Boxed[m] \cap {u})]
    BY <2>4 DEF Boxed, Lost
  <2>6. Mailbox!Sweep(u)
    BY <2>1, <2>3, <2>5, SameStatus, SameDue DEF Mailbox!Sweep, Mailbox!message
  <2> QED
    BY <2>6 DEF Maps, Mailbox!Next
<1>6. ASSUME NEW u \in Users, Login(u)
      PROVE  Maps
  <2>1. /\ home' = home \cup {u}
        /\ UNCHANGED <<place, routed, from, members, since, delivered, queue, skipped, swept, req>>
    BY <1>6 DEF Login, messages, letters, marks, membership
  <2>2. UNCHANGED <<Status, Due, Boxed, Lost, Leaving>>
    BY <2>1, SameStatus, SameDue, SameBoxed, SameLost, SameLeaving DEF Waiting
  <2>3. Mailbox!Open(u)
    BY <2>1, <2>2 DEF Mailbox!Open, Mailbox!message, Mailbox!group
  <2> QED
    BY <2>3 DEF Maps, Mailbox!Next
<1>7. ASSUME NEW u \in Users, AddDraw(u) \/ \E v \in Users : AddCheck(u, v)
      PROVE  Maps
  <2>1. UNCHANGED <<place, routed, from, members, since, home, delivered, queue, skipped, swept>>
    BY <1>7 DEF AddDraw, AddCheck, store, messages, letters, marks, membership, mail
  <2>2. \A v \in Users : req'[v].op = "sweep" <=> req[v].op = "sweep"
    BY <1>7 DEF AddDraw, AddCheck, NoRequest
  <2> QED
    BY <2>1, <2>2, Quiet DEF Maps, Waiting
<1>8. ASSUME NEW u \in Users, NEW m \in Mids, PeekDrops(u, m)
       PROVE  Maps
  <2>1. /\ place[m] = "group" /\ Waiting(u, m)
        /\ UNCHANGED <<place, routed, from, members, since, home, delivered, skipped, swept, req>>
        /\ queue' = [queue EXCEPT ![u] = @ \ {MsgEntry(m)}]
    BY <1>8 DEF PeekDrops, Unlink, Waiting, messages, letters, marks, membership
  <2>2. \A n \in Mids, v \in Users :
            Waiting(v, n)' <=> Waiting(v, n) /\ ~(v = u /\ n = m)
    BY <2>1, EntryKinds DEF Waiting
  <2>3. u \notin Due[m]
    BY <1>8, NotDue DEF PeekDrops
  <2>4. Mailbox!Drop(u, m)
    BY <2>1, <2>2, <2>3, Unboxed DEF Mailbox!Drop
  <2> QED
    BY <2>4 DEF Maps, Mailbox!Next
<1>9. ASSUME NEW u \in Users, NEW m \in Mids, DropDangling(u, m)
       PROVE  Maps
  <2>1. /\ place[m] # "group"
        /\ UNCHANGED <<place, routed, from, members, since, home, delivered, skipped, swept, req>>
        /\ queue' = [queue EXCEPT ![u] = @ \ {MsgEntry(m)}]
    BY <1>9 DEF DropDangling, Unlink, messages, letters, marks, membership
  <2>2. \A n \in Mids, v \in Users :
            place[n] = "group" => (Waiting(v, n)' <=> Waiting(v, n))
    BY <2>1, EntryKinds DEF Waiting
  <2> QED
    BY <2>1, <2>2, Quiet DEF Maps
<1>10. ASSUME NEW u \in Users, NEW m \in Mids, ConfirmMessage(u, m)
       PROVE  Maps
  <2>1. /\ Waiting(u, m)
        /\ UNCHANGED <<place, routed, from, members, since, home, skipped, swept, req>>
    BY <1>10 DEF ConfirmMessage, Waiting, messages, letters, membership
  <2>2. \A n \in Mids, v \in Users :
            Waiting(v, n)' <=> Waiting(v, n) /\ ~(v = u /\ n = m)
    BY <1>10, EntryKinds DEF ConfirmMessage, Waiting
  <2>3. delivered' = [delivered EXCEPT ![m] =
                         IF place[m] = "group" /\ u \in members /\ u \notin delivered[m]
                           THEN @ \cup {u} ELSE @]
    BY <1>10 DEF ConfirmMessage
  <2>4. CASE place[m] # "group"
    <3>1. delivered' = delivered
      BY <2>3, <2>4
    <3> QED
      BY <2>1, <2>2, <2>4, <3>1, Quiet DEF Maps
  <2>5. CASE place[m] = "group" /\ u \in members /\ u \notin delivered[m]
    <3>1. Mailbox!Take(u, m)
      BY <2>1, <2>2, <2>3, <2>5, Unboxed DEF Mailbox!Take
    <3> QED
      BY <3>1 DEF Maps, Mailbox!Next
  <2>6. CASE place[m] = "group" /\ ~(u \in members /\ u \notin delivered[m])
    <3>1. delivered' = delivered
      BY <2>3, <2>6
    <3>2. u \in Due[m] => u \in delivered[m]
      BY <2>6, NotDue
    <3>3. Mailbox!Drop(u, m)
      BY <2>1, <2>2, <2>6, <3>1, <3>2, Unboxed DEF Mailbox!Drop
    <3> QED
      BY <3>3 DEF Maps, Mailbox!Next
  <2> QED
    BY <2>4, <2>5, <2>6
<1>11. ASSUME NEW u \in Users, NEW e \in queue[u], ConfirmEvent(u, e)
       PROVE  Maps
  <2>1. /\ UNCHANGED <<place, routed, from, members, since, home, delivered, skipped, swept, req>>
        /\ queue' = [queue EXCEPT ![u] = @ \ {e}] /\ e.kind # "msg"
    BY <1>11 DEF ConfirmEvent, Unlink, messages, letters, marks, membership
  <2>2. \A n \in Mids, v \in Users : Waiting(v, n)' <=> Waiting(v, n)
    BY <2>1, EntryKinds DEF Waiting
  <2> QED
    BY <2>1, <2>2, Quiet DEF Maps
<1> QED
  BY <1>1, <1>2, <1>3, <1>4, <1>5, <1>6, <1>7, <1>8, <1>9, <1>10, <1>11 DEF Api

(* The steps of the router map to steps of the mailbox. *)
LEMMA RouterMaps ==
    ASSUME IInv, Traces, Fresh, RouterStep \/ RouterFault
    PROVE  Maps
<1> USE BoundsAssumption DEF IInv, TypeOK, MessageTypes, RouterTypes, HistoryTypes
<1>1. CASE UNCHANGED <<place, routed, from, members, since, home, delivered, skipped, swept, queue,
                       req>>
  BY <1>1, QuietStore DEF Maps
<1>2. CASE EndOfListing \/ (\E m \in Mids : Resume(m) \/ GiveUp(m) \/ Route(m))
           \/ MoveFails \/ TellFails \/ MakeDirs \/ DirsFail \/ MarkFails \/ Postpone
  BY <1>1, <1>2 DEF EndOfListing, Resume, GiveUp, Route, MoveFails, TellFails, MakeDirs, DirsFail,
     MarkFails, FinishRaises, Postpone, store, messages, letters, marks, membership, mail
<1>3. CASE \E u \in Users : LinkFails(u)
  BY <1>1, <1>3 DEF LinkFails, store, messages, letters, marks, membership, mail
<1>4. CASE Tell
  <2>1. /\ UNCHANGED <<place, routed, from, members, since, home, delivered, skipped, swept, req>>
        /\ queue' = [queue EXCEPT ![from[cur]] = @ \cup {FailedEntry(cur)}]
    BY <1>4 DEF Tell, messages, letters, marks, membership
  <2>2. \A n \in Mids, v \in Users : Waiting(v, n)' <=> Waiting(v, n)
    BY <2>1, EntryKinds DEF Waiting, UserTypes
  <2> QED
    BY <2>1, <2>2, Quiet DEF Maps
<1>5. CASE Move
  <2>1. /\ cur \in Mids /\ place[cur] = "incoming" /\ cur \notin routed
        /\ place' = [place EXCEPT ![cur] = "group"]
        /\ UNCHANGED <<routed, from, members, since, home, delivered, queue, skipped, swept, req>>
    BY <1>5 DEF Move, letters, marks, membership, mail, Current, Listed, Stored
  <2>2. PICK m \in Mids : m = cur
    BY <2>1
  <2>3. Status[m] = "accepted" /\ StatusOf(m)' = "stored"
    BY <2>1, <2>2 DEF Status, StatusOf
  <2>4. Mailbox!Store(m)
    BY <2>1, <2>2, <2>3, MovesOn DEF Mailbox!Store, Mailbox!Move, Places
  <2> QED
    BY <2>4 DEF Maps, Mailbox!Next
<1>6. CASE Park \/ ParkFails
  <2>1. PICK where \in {"rejected", "gone"} : place' = [place EXCEPT ![cur] = where]
    BY <1>6 DEF Park, ParkFails
  <2>2. /\ cur \in Mids /\ place[cur] = "incoming"
        /\ UNCHANGED <<routed, from, members, since, home, delivered, queue, skipped, swept, req>>
    BY <1>6 DEF Park, ParkFails, letters, marks, membership, mail, Current
  <2>3. PICK m \in Mids : m = cur
    BY <2>2
  <2>4. Status[m] = "accepted" /\ StatusOf(m)' = "refused"
    BY <2>1, <2>2, <2>3 DEF Status, StatusOf
  <2>5. Mailbox!Refuse(m)
    BY <2>1, <2>2, <2>3, <2>4, MovesOn DEF Mailbox!Refuse, Mailbox!Move, Places
  <2> QED
    BY <2>5 DEF Maps, Mailbox!Next
<1>7. ASSUME NEW u \in Users, Link(u)
      PROVE  Maps
  <2>1. /\ cur \in Mids /\ Stored(cur) /\ cur \notin routed /\ u # from[cur]
        /\ queue' = [queue EXCEPT ![u] = @ \cup {MsgEntry(cur)}]
        /\ home' = home \cup {u}
        /\ UNCHANGED <<place, routed, from, members, since, delivered, skipped, swept, req>>
    BY <1>7 DEF Link, First, messages, letters, marks, membership, Current, Fresh
  <2>2. PICK m \in Mids : m = cur
    BY <2>1
  <2>3. \A n \in Mids, v \in Users : Waiting(v, n)' <=> Waiting(v, n) \/ (v = u /\ n = m)
    BY <2>1, <2>2, EntryKinds DEF Waiting, UserTypes
  <2>4. UNCHANGED <<Status, Due, Lost, Leaving>>
    BY <2>1, SameStatus, SameDue, SameLost, SameLeaving
  <2>5. CASE place[m] = "group"
    <3>1. \A n \in Mids : BoxedFor(n)' = IF n = m THEN BoxedFor(n) \cup {u} ELSE BoxedFor(n)
      BY <2>1, <2>3, <2>5 DEF BoxedFor
    <3>2. Boxed' = [Boxed EXCEPT ![m] = @ \cup {u}]
      BY <3>1 DEF Boxed
    <3>3. Status[m] = "stored"
      BY <2>1, <2>2, <2>5 DEF Status, StatusOf
    <3>4. Mailbox!Push(u, m)
      BY <2>1, <2>2, <2>4, <3>2, <3>3 DEF Mailbox!Push, Mailbox!message, Mailbox!group
    <3> QED
      BY <3>4 DEF Maps, Mailbox!Next
  <2>6. CASE place[m] # "group"
    <3>1. Boxed' = Boxed
      BY <2>1, <2>3, <2>6, SameBoxed
    <3>2. Mailbox!Open(u)
      BY <2>1, <2>4, <3>1 DEF Mailbox!Open, Mailbox!message, Mailbox!group
    <3> QED
      BY <3>2 DEF Maps, Mailbox!Next
  <2> QED
    BY <2>5, <2>6
<1>8. ASSUME NEW u \in Users, ProvisionFails(u)
      PROVE  Maps
  <2>1. /\ cur \in Mids /\ Stored(cur) /\ cur \notin routed /\ u \notin home
        /\ home' \in {home, home \cup {u}}
        /\ skipped' = skipped \cup {<<u, cur>>}
        /\ UNCHANGED <<place, routed, from, members, since, delivered, queue, swept, req>>
    BY <1>8 DEF ProvisionFails, First, messages, letters, marks, membership, Current, Fresh
  <2>2. PICK m \in Mids : m = cur
    BY <2>1
  <2>3. UNCHANGED <<Status, Due, Boxed, Leaving>>
    BY <2>1, SameStatus, SameDue, SameBoxed, SameLeaving DEF Waiting
  <2>4. CASE place[m] = "group"
    <3>1. \A n \in Mids : LostBy(n)' = IF n = m THEN LostBy(n) \cup {u} ELSE LostBy(n)
      BY <2>1, <2>2, <2>4 DEF LostBy
    <3>2. Lost' = [Lost EXCEPT ![m] = @ \cup {u}]
      BY <3>1 DEF Lost
    <3>3. Status[m] = "stored"
      BY <2>1, <2>2, <2>4 DEF Status, StatusOf
    <3>4. Mailbox!Miss(u, m)
      BY <2>1, <2>3, <3>2, <3>3 DEF Mailbox!Miss, Mailbox!message, Mailbox!group
    <3> QED
      BY <3>4 DEF Maps, Mailbox!Next
  <2>5. CASE place[m] # "group"
    <3>1. \A n \in Mids : LostBy(n)' = LostBy(n)
      BY <2>1, <2>2, <2>5 DEF LostBy
    <3>2. Lost' = Lost
      BY <3>1 DEF Lost
    <3>3. Mailbox!Open(u) \/ UNCHANGED Mailbox!vars
      BY <2>1, <2>3, <3>2 DEF Mailbox!Open, Mailbox!vars, Mailbox!message, Mailbox!group,
         Mailbox!boxes
    <3> QED
      BY <3>3 DEF Maps, Mailbox!Next
  <2> QED
    BY <2>4, <2>5
<1>9. CASE Mark
  <2>1. /\ cur \in Mids /\ place[cur] = "group" /\ cur \notin routed
        /\ routed' = routed \cup {cur}
        /\ UNCHANGED <<place, from, members, since, home, delivered, queue, skipped, swept, req>>
    BY <1>9 DEF Mark, Complete, messages, letters, membership, mail, Current, Fresh
  <2>2. PICK m \in Mids : m = cur
    BY <2>1
  <2>3. \A n \in Mids : StatusOf(n)' = IF n = m THEN "settled" ELSE StatusOf(n)
    BY <2>1, <2>2 DEF StatusOf
  <2>4. Status[m] = "stored" /\ Status' = [Status EXCEPT ![m] = "settled"]
    BY <2>1, <2>2, <2>3 DEF Status, StatusOf
  <2>5. UNCHANGED <<Due, Boxed, Lost, Leaving>>
    BY <2>1, SameDue, SameBoxed, SameLost, SameLeaving DEF Waiting
  <2>6. Due[m] \subseteq Boxed[m] \cup delivered[m] \cup Lost[m]
    <3> SUFFICES ASSUME NEW u \in Due[m] PROVE u \in Boxed[m] \cup delivered[m] \cup Lost[m]
      OBVIOUS
    <3>1. u \in members /\ since[u] < m /\ u # from[m]
      BY DEF Due, DueTo
    <3>2. u \in Users /\ Has(u, m)
      BY <1>9, <2>1, <2>2, <3>1 DEF Mark, Complete, FanOut, UserTypes
    <3> QED
      BY <2>1, <2>2, <3>2 DEF Has, Boxed, BoxedFor, Lost, LostBy
  <2>7. Mailbox!Settle(m)
    BY <2>1, <2>4, <2>5, <2>6
       DEF Mailbox!Settle, Mailbox!Move, Mailbox!group, Mailbox!boxes
  <2> QED
    BY <2>7 DEF Maps, Mailbox!Next
<1> QED
  BY <1>2, <1>3, <1>4, <1>5, <1>6, <1>7, <1>8, <1>9 DEF RouterStep, RouterFault

(* So do midnight, retention and the crash. *)
LEMMA SystemMaps ==
    ASSUME IInv, NextDay \/ Crash \/ \E d \in 1..MaxDay : Retain(d)
    PROVE  Maps
<1> USE DEF IInv, TypeOK, MessageTypes
<1>1. CASE NextDay
  BY <1>1, QuietStore DEF NextDay, messages, letters, marks, membership, mail, Maps
<1>2. ASSUME NEW d \in 1..MaxDay, Retain(d)
      PROVE  Maps
  <2>1. PICK S \in SUBSET Mids : S = {m \in Mids : place[m] = "group" /\ sentOn[m] = d}
    OBVIOUS
  <2>2. /\ \A m \in Mids : place'[m] = IF m \in S THEN "archived" ELSE place[m]
        /\ UNCHANGED <<routed, from, members, since, home, delivered, queue, skipped, swept, req>>
    BY <1>2, <2>1 DEF Retain, letters, marks, membership, mail
  <2>3. \A m \in S : Status[m] \in {"stored", "settled"}
    BY <2>1 DEF Status, StatusOf
  <2>4. Status' = [m \in Mids |-> IF m \in S THEN "archived" ELSE Status[m]]
    <3>1. \A m \in Mids : StatusOf(m)' = IF m \in S THEN "archived" ELSE StatusOf(m)
      BY <2>2 DEF StatusOf
    <3> QED
      BY <3>1 DEF Status
  <2>5. Boxed' = [m \in Mids |-> IF m \in S THEN {} ELSE Boxed[m]]
    <3>1. \A m \in Mids : BoxedFor(m)' = IF m \in S THEN {} ELSE BoxedFor(m)
      BY <2>2 DEF BoxedFor, Waiting
    <3> QED
      BY <3>1 DEF Boxed
  <2>6. Lost' = [m \in Mids |-> IF m \in S THEN {} ELSE Lost[m]]
    <3>1. \A m \in Mids : LostBy(m)' = IF m \in S THEN {} ELSE LostBy(m)
      BY <2>2 DEF LostBy
    <3> QED
      BY <3>1 DEF Lost
  <2>7. Due' = Due
    <3>1. \A m \in Mids : DueTo(m)' = DueTo(m)
      BY <2>1, <2>2 DEF DueTo
    <3> QED
      BY <3>1 DEF Due
  <2>8. Mailbox!Archive(S)
    BY <2>2, <2>3, <2>4, <2>5, <2>6, <2>7, SameLeaving DEF Mailbox!Archive, Mailbox!group
  <2> QED
    BY <2>8 DEF Maps, Mailbox!Next
<1>3. CASE Crash
  <2>1. /\ \A m \in Mids : place'[m] = IF place[m] = "tmp" THEN "gone" ELSE place[m]
        /\ req' = [u \in Users |-> NoRequest]
        /\ UNCHANGED <<routed, from, members, since, home, delivered, queue, skipped, swept>>
    BY <1>3 DEF Crash, letters, marks, membership, mail
  <2>2. Status' = [m \in Mids |-> IF Status[m] = "posted" THEN "refused" ELSE Status[m]]
    <3>1. \A m \in Mids :
              StatusOf(m)' = IF StatusOf(m) = "posted" THEN "refused" ELSE StatusOf(m)
      BY <2>1 DEF StatusOf
    <3> QED
      BY <3>1 DEF Status
  <2>3. Leaving' = {}
    BY <2>1 DEF Leaving, NoRequest
  <2>4. Boxed' = Boxed
    <3>1. \A m \in Mids : BoxedFor(m)' = BoxedFor(m)
      BY <2>1 DEF BoxedFor, Waiting
    <3> QED
      BY <3>1 DEF Boxed
  <2>5. Lost' = Lost
    <3>1. \A m \in Mids : LostBy(m)' = LostBy(m)
      BY <2>1 DEF LostBy
    <3> QED
      BY <3>1 DEF Lost
  <2>6. Due' = Due
    <3>1. \A m \in Mids : DueTo(m)' = DueTo(m)
      BY <2>1 DEF DueTo
    <3> QED
      BY <3>1 DEF Due
  <2>7. Mailbox!Restart
    BY <2>1, <2>2, <2>3, <2>4, <2>5, <2>6 DEF Mailbox!Restart, Mailbox!boxes
  <2> QED
    BY <2>7 DEF Maps, Mailbox!Next
<1> QED
  BY <1>1, <1>2, <1>3

-----------------------------------------------------------------------------
(* Every step of the implementation is a step of the mailbox, or none: what
   delivery promises the members of a group holds whatever the router, the
   queues, retention, faults and restarts do. *)
THEOREM Refinement == Spec => ImplementsMailbox
<1> DEFINE Known == IInv /\ Traces /\ Fresh
<1>1. Init => Known /\ Mailbox!Init
  BY InitIInv, InitMapped
<1>2. Known /\ [Next]_vars => Known'
  BY ApiStep, RouterLoopStep, SystemStep, StutterStep, TracesStep, FreshStep DEF Next
<1>3. Known /\ [Next]_vars => [Mailbox!Next]_(Mailbox!vars)
  <2> SUFFICES ASSUME Known, [Next]_vars PROVE Maps
    BY DEF Maps
  <2>1. CASE UNCHANGED vars
    BY <2>1, QuietStore
       DEF vars, store, messages, letters, marks, membership, mail, Maps
  <2> QED
    BY <2>1, ApiMaps, RouterMaps, SystemMaps DEF Next
<1> QED
  BY <1>1, <1>2, <1>3, PTL DEF Spec, ImplementsMailbox, Mailbox!Spec

-----------------------------------------------------------------------------
(* The mailbox keeps its promise: after the router completed the fan-out,   *)
(* only a confirm, a drop of what is not due, the sweep of a leave and      *)
(* retention touch the queues (router.py:35-43, store.py:463-483).          *)
LEMMA PromiseStep ==
    ASSUME IInv, Mailbox!Promise, [Mailbox!Next]_(Mailbox!vars)
    PROVE  Mailbox!Promise'
<1> DEFINE Domains == /\ DOMAIN Status = Mids /\ DOMAIN Due = Mids /\ DOMAIN Boxed = Mids
                      /\ DOMAIN delivered = Mids /\ DOMAIN Lost = Mids
<1>0. Domains
  BY DEF Status, Due, Boxed, Lost, IInv, TypeOK, UserTypes
<1> HIDE DEF Domains
<1>1. ASSUME NEW m \in Mids, NEW u \in Users, Mailbox!Post(m, u)
      PROVE  Mailbox!Promise'
  BY <1>0, <1>1 DEF Mailbox!Promise, Domains, Mailbox!Post, Mailbox!New, Mailbox!boxes
<1>2. ASSUME NEW m \in Mids, NEW u \in Users, NEW by \in Users, Mailbox!Join(u, m, by)
      PROVE  Mailbox!Promise'
  BY <1>0, <1>2 DEF Mailbox!Promise, Domains, Mailbox!Join, Mailbox!New, Mailbox!boxes
<1>3. ASSUME NEW m \in Mids, NEW u \in Users,
             Mailbox!Push(u, m) \/ Mailbox!Take(u, m) \/ Mailbox!Drop(u, m) \/ Mailbox!Miss(u, m)
      PROVE  Mailbox!Promise'
  BY <1>0, <1>3 DEF Mailbox!Promise, Domains, Mailbox!Push, Mailbox!Take, Mailbox!Drop,
                    Mailbox!Miss, Mailbox!message, Mailbox!group
<1>4. ASSUME NEW m \in Mids,
             Mailbox!Accept(m) \/ Mailbox!Abandon(m) \/ Mailbox!Refuse(m) \/ Mailbox!Store(m)
      PROVE  Mailbox!Promise'
  BY <1>0, <1>4 DEF Mailbox!Promise, Domains, Mailbox!Accept, Mailbox!Abandon, Mailbox!Refuse,
                    Mailbox!Store, Mailbox!Move, Mailbox!boxes
<1>5. ASSUME NEW m \in Mids, Mailbox!Settle(m)
      PROVE  Mailbox!Promise'
  BY <1>0, <1>5 DEF Mailbox!Promise, Domains, Mailbox!Settle, Mailbox!Move, Mailbox!boxes
<1>6. ASSUME NEW u \in Users, Mailbox!Leave(u) \/ Mailbox!Open(u) \/ Mailbox!Sweep(u)
      PROVE  Mailbox!Promise'
  BY <1>0, <1>6 DEF Mailbox!Promise, Domains, Mailbox!Leave, Mailbox!Open, Mailbox!Sweep,
                    Mailbox!message, Mailbox!group, Mailbox!boxes
<1>7. ASSUME NEW S \in SUBSET Mids, Mailbox!Archive(S)
      PROVE  Mailbox!Promise'
  BY <1>0, <1>7 DEF Mailbox!Promise, Domains, Mailbox!Archive, Mailbox!group
<1>8. CASE Mailbox!Restart
  BY <1>0, <1>8 DEF Mailbox!Promise, Domains, Mailbox!Restart, Mailbox!boxes
<1>9. CASE UNCHANGED Mailbox!vars
  BY <1>9 DEF Mailbox!Promise, Mailbox!vars, Mailbox!message, Mailbox!group, Mailbox!boxes
<1> QED
  BY <1>1, <1>2, <1>3, <1>4, <1>5, <1>6, <1>7, <1>8, <1>9 DEF Mailbox!Next

(* Whom a settled message is due to has it waiting, has taken it, or lost   *)
(* it for a cause: so the implementation keeps the promise as well.         *)
THEOREM PromiseKept == Spec => []Mailbox!Promise
<1>1. Mailbox!Init => Mailbox!Promise
  BY DEF Mailbox!Init, Mailbox!Promise
<1>2. IInv /\ Mailbox!Promise /\ [Mailbox!Next]_(Mailbox!vars) => Mailbox!Promise'
  BY PromiseStep
<1> QED
  BY <1>1, <1>2, Invariance, Refinement, PTL DEF ImplementsMailbox, Mailbox!Spec
=============================================================================
