------------------------------ MODULE Delivery ------------------------------
(* Delivery of the messages of one group: the API threads that spool messages,
   add members, leave and confirm (api.py, store.py), and the one router
   thread (router.py) that moves every message out of incoming/ into a day
   folder of the group, links it into the queue of each recipient and writes
   .routed.  The process can crash and restart between any two steps, and a
   disk operation of the router can fail.

   A message id is the number the shared clock Store.next_ts gave it: join
   stamps are drawn from the same clock, so ids and stamps compare.          *)
EXTENDS Naturals, FiniteSets

CONSTANTS
    Users,          \* accounts of the roster, ordered as sorted() orders them
    Founders,       \* members of the group from the start
    Homes,          \* accounts whose directory exists already
    MaxTs,          \* bound: stamps the shared clock may draw
    MaxDay,         \* bound: calendar days (UTC dates)
    MaxCrashes,     \* bound: crashes of the process
    MaxFaults,      \* bound: disk operations that fail
    FaultSites,     \* the operations that may fail in this instance
    MaxUnfinished,  \* Router.MAX_UNFINISHED
    RetainDays      \* --retain-days, 0 for off

Sites == {"spool", "move", "park", "tell", "dirs", "link", "provision", "mark"}

ASSUME UsersAssumption == Users \subseteq Nat \ {0} /\ IsFiniteSet(Users)
ASSUME MembersAssumption == Founders \subseteq Users /\ Founders \subseteq Homes
                            /\ Homes \subseteq Users
ASSUME BoundsAssumption == /\ {MaxTs, MaxCrashes, MaxFaults} \subseteq Nat
                           /\ {MaxDay, MaxUnfinished} \subseteq Nat \ {0}
                           /\ RetainDays \in Nat
                           /\ FaultSites \subseteq Sites

Nobody == 0
Mids == 1..MaxTs

(* Slip: the kind is spelled as the API spells it, not as the entry. *)
DeliveredEntryLongName(m, u) == [id |-> m, kind |-> "delivered", by |-> u]

(* Names in users/<u>/queue: <mid>, <mid>~d~<uid> and <mid>~x~server. *)
Entry == [id : Mids, kind : {"msg", "d", "x"}, by : Users \cup {Nobody}]
MsgEntry(m) == [id |-> m, kind |-> "msg", by |-> Nobody]
DeliveredEntry(m, u) == [id |-> m, kind |-> "d", by |-> u]
FailedEntry(m) == [id |-> m, kind |-> "x", by |-> Nobody]

(* What a user's API thread is at in modify_members, for whom, and the stamp it
   has drawn. *)
Request == [op : {"none", "draw", "write", "leave", "sweep"},
            who : Users \cup {Nobody}, stamp : 0..MaxTs]
NoRequest == [op |-> "none", who |-> Nobody, stamp |-> 0]

VARIABLES
    \* ---- on disk
    ts,          \* the shared clock (id_hwm)
    day,         \* today's date
    place,       \* where the directory of a message is
    from,        \* its from file
    sentOn,      \* the date part of its id, which names its day folder
    system,      \* messages with the system marker
    routed,      \* messages with the .routed marker
    delivered,   \* users in its deliveredto folder
    dayDirs,     \* day folders of the group
    members,     \* users in the members folder of the group
    joined,      \* join stamp in the marker of a member
    queue,       \* queue folder of a user
    home,        \* users whose directory exists
    \* ---- in the process
    req,         \* the membership request a user's API thread is running
    unfinished,  \* Router._unfinished
    pc, phase, work, cur, mem, todo, ok,  \* the router thread
    \* ---- environment and history
    crashes, faults,
    since,       \* value of the clock when the marker of a member was written
    skipped,     \* <<u, m>>: queue_add returned without linking m for u
    swept,       \* <<u, m>>: a leave sweep unlinked m from the queue of u
    stranded     \* stored without .routed, and let go of by the process

letters == <<from, sentOn, system>>
messages == <<ts, place, letters>>
marks == <<routed, delivered>>
membership == <<members, joined, since>>
mail == <<queue, home, skipped, swept>>
calendar == <<day, dayDirs>>
store == <<messages, marks, membership, mail, calendar>>
listing == <<phase, work>>
locals == <<cur, mem, todo, ok>>
router == <<unfinished, stranded, pc, listing, locals>>
env == <<crashes, faults>>
vars == <<store, req, router, env>>

Places == {"none", "tmp", "incoming", "group", "rejected", "archived", "gone"}
At(p) == {m \in Mids : place[m] = p}

Waiting(u, m) == MsgEntry(m) \in queue[u]

(* First of a sorted listing. *)
First(x, S) == x \in S /\ \A y \in S : x <= y

(* A disk operation at this site fails: ENOSPC, EDQUOT, EIO. *)
Fault(site) == /\ site \in FaultSites
               /\ faults < MaxFaults
               /\ faults' = faults + 1

Init ==
    /\ ts = 0
    /\ day = 1
    /\ place = [m \in Mids |-> "none"]
    /\ from = [m \in Mids |-> Nobody]
    /\ sentOn = [m \in Mids |-> 0]
    /\ system = {}
    /\ routed = {}
    /\ delivered = [m \in Mids |-> {}]
    /\ dayDirs = {}
    /\ members = Founders
    /\ joined = [u \in Users |-> 0]
    /\ queue = [u \in Users |-> {}]
    /\ home = Homes
    /\ req = [u \in Users |-> NoRequest]
    /\ unfinished = {}
    /\ pc = "next"
    /\ phase = "recover"
    /\ work = {}
    /\ cur = 0
    /\ mem = {}
    /\ todo = {}
    /\ ok = TRUE
    /\ crashes = 0
    /\ faults = 0
    /\ since = [u \in Users |-> 0]
    /\ skipped = {}
    /\ swept = {}
    /\ stranded = {}

-----------------------------------------------------------------------------
(* API threads.                                                              *)

(* next_mid: the clock moves and the message gets its id, sender and date. *)
NewMessage(u, where) ==
    /\ ts' = ts + 1
    /\ place' = [place EXCEPT ![ts + 1] = where]
    /\ from' = [from EXCEPT ![ts + 1] = u]
    /\ sentOn' = [sentOn EXCEPT ![ts + 1] = day]

(* send, up to the minting of the id: a member builds the message in tmp/. *)
Send(u) ==
    /\ ts < MaxTs
    /\ u \in members \cap home
    /\ NewMessage(u, "tmp")
    /\ UNCHANGED <<system, marks, membership, mail, calendar, req, router, env>>

(* The rename of the built directory into incoming/: 200, the message is
   accepted.  Other threads may have minted and spooled later ids before. *)
Spool(m) ==
    /\ place[m] = "tmp"
    /\ place' = [place EXCEPT ![m] = "incoming"]
    /\ UNCHANGED <<ts, letters, marks, membership, mail, calendar, req, router,
                   env>>

(* The rename fails: rmtree of the built directory and 503. *)
SpoolFails(m) ==
    /\ place[m] = "tmp"
    /\ Fault("spool")
    /\ place' = [place EXCEPT ![m] = "gone"]
    /\ UNCHANGED <<ts, letters, marks, membership, mail, calendar, req, router,
                   crashes>>

(* spool_system: an announcement, minted and put in incoming/. *)
SpoolSystem(u) == NewMessage(u, "incoming") /\ system' = system \cup {ts + 1}

(* modify_members, add: u is found to be no member yet ... *)
AddCheck(by, u) ==
    /\ by \in members \cap home
    /\ u \notin members
    /\ req[by] = NoRequest
    /\ req' = [req EXCEPT ![by] = [op |-> "draw", who |-> u, stamp |-> 0]]
    /\ UNCHANGED <<store, router, env>>

(* ... a join stamp is drawn from the clock ... *)
AddDraw(by) ==
    /\ ts < MaxTs
    /\ req[by].op = "draw"
    /\ ts' = ts + 1
    /\ req' = [req EXCEPT ![by] =
                        [op |-> "write", who |-> req[by].who, stamp |-> ts + 1]]
    /\ UNCHANGED <<place, letters, marks, membership, mail, calendar, router,
                   env>>

(* ... and written into the member's marker, which makes u a member (or
   overwrites the marker another request wrote in between), and the join is
   announced. *)
AddWrite(by) ==
    /\ ts < MaxTs
    /\ req[by].op = "write"
    /\ LET u == req[by].who IN
       /\ members' = members \cup {u}
       /\ joined' = [joined EXCEPT ![u] = req[by].stamp]
       /\ since' = [since EXCEPT ![u] = ts]
    /\ req' = [req EXCEPT ![by] = NoRequest]
    /\ SpoolSystem(by)
    /\ UNCHANGED <<marks, mail, calendar, router, env>>

(* modify_members, remove: announce the leave, drop the marker, sweep the
   group's entries out of the leaver's queue. *)
LeaveAnnounce(u) ==
    /\ ts < MaxTs
    /\ u \in members \cap home
    /\ req[u] = NoRequest
    /\ req' = [req EXCEPT ![u] = [op |-> "leave", who |-> u, stamp |-> 0]]
    /\ SpoolSystem(u)
    /\ UNCHANGED <<marks, membership, mail, calendar, router, env>>

LeaveUnlink(u) ==
    /\ req[u].op = "leave"
    /\ members' = members \ {u}
    /\ req' = [req EXCEPT ![u] = [op |-> "sweep", who |-> u, stamp |-> 0]]
    /\ UNCHANGED <<messages, marks, joined, since, mail, calendar, router, env>>

(* gid_of the link's target: rejected/ is in no group, so ~x~ entries stay. *)
LeaveSweep(u) ==
    /\ req[u].op = "sweep"
    /\ LET sweeping == {e \in queue[u] : e.kind # "x"} IN
       /\ queue' = [queue EXCEPT ![u] = @ \ sweeping]
       /\ swept' = swept \cup {<<u, m>> : m \in {n \in Mids : Waiting(u, n)}}
    /\ req' = [req EXCEPT ![u] = NoRequest]
    /\ UNCHANGED <<messages, marks, membership, home, skipped, calendar, router,
                   env>>

(* First login provisions the account's directory. *)
Login(u) ==
    /\ u \notin home
    /\ home' = home \cup {u}
    /\ UNCHANGED <<messages, marks, membership, queue, skipped, swept, calendar,
                   req, router, env>>

Unlink(u, e) ==
    /\ e \in queue[u]
    /\ queue' = [queue EXCEPT ![u] = @ \ {e}]
    /\ UNCHANGED <<messages, marks, membership, home, skipped, swept, calendar,
                   req, router, env>>

(* peek serves no message to a user who is not a member or joined later, and
   drops the entry. *)
PeekDrops(u, m) ==
    /\ place[m] = "group"
    /\ u \notin members \/ m < joined[u]
    /\ Unlink(u, MsgEntry(m))

(* _queue_items drops a message entry whose target retention archived. *)
DropDangling(u, m) ==
    /\ place[m] # "group"
    /\ Unlink(u, MsgEntry(m))

(* confirm of a message entry: a member's first confirm stamps deliveredto and
   queues ~d~ to the sender; the entry goes in every case. *)
ConfirmMessage(u, m) ==
    /\ MsgEntry(m) \in queue[u]
    /\ LET stamps == place[m] = "group" /\ u \in members /\ u \notin delivered[m]
           ticks == stamps /\ from[m] # u /\ m \notin system
       IN /\ delivered' = [delivered EXCEPT ![m] = IF stamps THEN @ \cup {u} ELSE @]
          /\ queue' = [v \in Users |->
                IF v = u THEN queue[u] \ {MsgEntry(m)}
                ELSE IF ticks /\ v = from[m] THEN queue[v] \cup {DeliveredEntry(m, u)}
                ELSE queue[v]]
    /\ UNCHANGED <<messages, routed, membership, home, skipped, swept, calendar,
                   req, router, env>>

(* confirm of an event entry only removes it. *)
ConfirmEvent(u, e) ==
    /\ e.kind # "msg"
    /\ Unlink(u, e)

-----------------------------------------------------------------------------
(* The router thread.  work is what is left of the listing it walks, cur the
   message it is at, mem the members it read for it, todo the recipients it
   has still to link.                                                        *)

(* members() minus the sender: whom _finish visits. *)
Recipients(m) == mem \ {from[m]}

NewestTwo == {d \in dayDirs : Cardinality({e \in dayDirs : e > d}) < 2}

(* Slip: recovery scans the newest day folder only. *)
RecoverableNewest == {m \in At("group") \ routed : \A d \in dayDirs : d <= sentOn[m]}

Recoverable == {m \in At("group") \ routed : sentOn[m] \in NewestTwo}

(* End of a listing.  A drain is _retry_unfinished over a copy of unfinished and
   then incoming/; the wait for a wake, of two seconds at most, comes before. *)
EndOfListing ==
    /\ pc = "next"
    /\ work = {}
    /\ phase' = IF phase = "retry" THEN "drain" ELSE "retry"
    /\ work' = IF phase = "retry" THEN At("incoming") ELSE unfinished
    /\ UNCHANGED <<store, req, unfinished, stranded, pc, locals, env>>

(* Back to the listing: the locals of _route and _finish are gone. *)
Return == pc' = "next" /\ cur' = 0 /\ mem' = {} /\ todo' = {} /\ ok' = TRUE

(* Slip: what was stored is bounced as well. *)
RaiseBounces == pc' = "park" /\ UNCHANGED locals

(* drain's handler: only what is still in incoming/ is bounced. *)
Raise == IF place[cur] = "incoming" THEN pc' = "park" /\ UNCHANGED locals
                                    ELSE Return

(* Slip: the listing names a message again. *)
TakeAgain(m) == pc = "next" /\ First(m, work) /\ UNCHANGED work

Take(m) == pc = "next" /\ First(m, work) /\ work' = work \ {m}

(* _retry_unfinished and _recover: read from and the members, run _finish. *)
Resume(m) ==
    /\ phase \in {"retry", "recover"}
    /\ place[m] = "group"
    /\ Take(m)
    /\ cur' = m
    /\ mem' = members
    /\ pc' = "dirs"
    /\ UNCHANGED <<store, req, unfinished, stranded, phase, todo, ok, env>>

(* ... unless retention archived the message. *)
GiveUp(m) ==
    /\ phase \in {"retry", "recover"}
    /\ place[m] # "group"
    /\ Take(m)
    /\ unfinished' = unfinished \ {m}
    /\ UNCHANGED <<store, req, stranded, pc, phase, locals, env>>

(* Slip: an announcement's sender has to be a member too. *)
MaySendMembersOnly(m) == from[m] \in members

MaySend(m) == from[m] \in members \/ m \in system

(* _route: the members are read; the sender of a user's message must be one. *)
Route(m) ==
    /\ phase = "drain"
    /\ Take(m)
    /\ cur' = m
    /\ mem' = members
    /\ pc' = IF MaySend(m) THEN "move" ELSE "park"
    /\ UNCHANGED <<store, req, unfinished, stranded, phase, todo, ok, env>>

(* The mkdir of the day folder and the rename into it. *)
Move ==
    /\ pc = "move"
    /\ place' = [place EXCEPT ![cur] = "group"]
    /\ dayDirs' = dayDirs \cup {sentOn[cur]}
    /\ pc' = "dirs"
    /\ UNCHANGED <<ts, letters, marks, membership, mail, day, req, unfinished, stranded,
                   listing, locals, env>>

(* One of the two fails. *)
MoveFails ==
    /\ pc = "move"
    /\ Fault("move")
    /\ dayDirs' \in {dayDirs, dayDirs \cup {sentOn[cur]}}
    /\ Raise
    /\ UNCHANGED <<messages, marks, membership, mail, day, req, unfinished, stranded,
                   listing, crashes>>

(* Slip: the bounce ends without the event. *)
ParkQuietly ==
    /\ pc = "park"
    /\ place' = [place EXCEPT ![cur] = "rejected"]
    /\ Return
    /\ UNCHANGED <<ts, letters, marks, membership, mail, calendar, req,
                   unfinished, stranded, listing, env>>

(* _bounce: rename into rejected/ ... *)
Park ==
    /\ pc = "park"
    /\ place' = [place EXCEPT ![cur] = "rejected"]
    /\ pc' = "tell"
    /\ UNCHANGED <<ts, letters, marks, membership, mail, calendar, req,
                   unfinished, stranded, listing, locals, env>>

(* ... which fails: rmtree, and nobody is told ... *)
ParkFails ==
    /\ pc = "park"
    /\ Fault("park")
    /\ place' = [place EXCEPT ![cur] = "gone"]
    /\ Return
    /\ UNCHANGED <<ts, letters, marks, membership, mail, calendar, req,
                   unfinished, stranded, listing, crashes>>

(* ... and the ~x~ event to the sender ... *)
Tell ==
    /\ pc = "tell"
    /\ queue' = [queue EXCEPT ![from[cur]] = @ \cup {FailedEntry(cur)}]
    /\ Return
    /\ UNCHANGED <<messages, marks, membership, home, skipped, swept, calendar,
                   req, unfinished, stranded, listing, env>>

(* ... whose failure is swallowed. *)
TellFails ==
    /\ pc = "tell"
    /\ Fault("tell")
    /\ Return
    /\ UNCHANGED <<store, req, unfinished, stranded, listing, crashes>>

(* _finish makes deliveredto and readby ... *)
MakeDirs ==
    /\ pc = "dirs"
    /\ place[cur] = "group"
    /\ todo' = Recipients(cur)
    /\ ok' = TRUE
    /\ pc' = "fan"
    /\ UNCHANGED <<store, req, unfinished, stranded, listing, cur, mem, env>>

(* ... or an exception leaves it, when the disk fails or the message was
   archived.  drain, _retry_unfinished and _recover go on; unfinished is as it
   was, but for a retry of an archived message: what was not in it is stored
   and nowhere listed. *)
FinishRaises(site) ==
    /\ IF place[cur] = "group" THEN Fault(site) /\ UNCHANGED crashes
                              ELSE UNCHANGED env
    /\ unfinished' = IF place[cur] = "group" THEN unfinished ELSE unfinished \ {cur}
    /\ stranded' = IF place[cur] = "group" THEN stranded \cup ({cur} \ unfinished)
                                          ELSE stranded
    /\ Raise
    /\ UNCHANGED <<store, req, listing>>

DirsFail == pc = "dirs" /\ FinishRaises("dirs")

(* queue_add links the message for one recipient.  Without a directory the
   account is provisioned first. *)
Link(u) ==
    /\ pc = "fan"
    /\ First(u, todo)
    /\ todo' = todo \ {u}
    /\ queue' = [queue EXCEPT ![u] = @ \cup {MsgEntry(cur)}]
    /\ home' = home \cup {u}
    /\ UNCHANGED <<messages, marks, membership, skipped, swept, calendar, req,
                   unfinished, stranded, pc, listing, cur, mem, ok, env>>

(* The symlink fails: _finish notes that the fan-out is not complete. *)
LinkFails(u) ==
    /\ pc = "fan"
    /\ First(u, todo)
    /\ u \in home
    /\ Fault("link")
    /\ todo' = todo \ {u}
    /\ ok' = FALSE
    /\ UNCHANGED <<store, req, unfinished, stranded, pc, listing, cur, mem, crashes>>

(* Provisioning, or the symlink after it, fails: queue_add swallows it. *)
ProvisionFails(u) ==
    /\ pc = "fan"
    /\ First(u, todo)
    /\ u \notin home
    /\ Fault("provision")
    /\ todo' = todo \ {u}
    /\ home' \in {home, home \cup {u}}
    /\ skipped' = skipped \cup {<<u, cur>>}
    /\ UNCHANGED <<messages, marks, membership, queue, swept, calendar, req,
                   unfinished, stranded, pc, listing, cur, mem, ok, crashes>>

(* Slip: .routed is written whether or not a recipient is missing. *)
CompleteAnyhow == pc = "fan" /\ todo = {}

Complete == pc = "fan" /\ todo = {} /\ ok

(* Every recipient is linked: .routed, and no retry is needed any more. *)
Mark ==
    /\ Complete
    /\ place[cur] = "group"
    /\ routed' = routed \cup {cur}
    /\ unfinished' = unfinished \ {cur}
    /\ Return
    /\ UNCHANGED <<messages, delivered, membership, mail, calendar, req,
                   stranded, listing, env>>

MarkFails == Complete /\ FinishRaises("mark")

(* Slip: the incomplete fan-out is left to the next start. *)
PostponedNever == unfinished

(* A recipient is missing: kept for the next drain while there is room, and
   otherwise nowhere listed. *)
Postponed == IF Cardinality(unfinished) < MaxUnfinished
               THEN unfinished \cup {cur} ELSE unfinished

Postpone ==
    /\ pc = "fan" /\ todo = {} /\ ~ok
    /\ unfinished' = Postponed
    /\ stranded' = IF Cardinality(unfinished) < MaxUnfinished THEN stranded
                                          ELSE stranded \cup ({cur} \ unfinished)
    /\ Return
    /\ UNCHANGED <<store, req, listing, env>>

-----------------------------------------------------------------------------
(* The janitor, the calendar and the process.                                *)

(* clean with retain_days: a day folder older than the cutoff is moved. *)
Retain(d) ==
    /\ RetainDays > 0
    /\ d \in dayDirs
    /\ d + RetainDays < day
    /\ place' = [m \in Mids |-> IF place[m] = "group" /\ sentOn[m] = d
                                 THEN "archived" ELSE place[m]]
    /\ dayDirs' = dayDirs \ {d}
    /\ UNCHANGED <<ts, letters, marks, membership, mail, day, req, router, env>>

(* Midnight.  A message is not in tmp/ for a day: its request has ended.  Bound:
   a day on which nothing was sent is not counted. *)
NextDay ==
    /\ day < MaxDay
    /\ \E m \in Mids : sentOn[m] = day
    /\ \A m \in At("tmp") : sentOn[m] = day
    /\ day' = day + 1
    /\ UNCHANGED <<messages, marks, membership, mail, dayDirs, req, router,
                   env>>

(* The process dies and is started again: requests in progress end without an
   answer, the router starts with _recover, over two days of the group. *)
Crash ==
    /\ crashes < MaxCrashes
    /\ crashes' = crashes + 1
    /\ place' = [m \in Mids |-> IF place[m] = "tmp" THEN "gone" ELSE place[m]]
    /\ req' = [u \in Users |-> NoRequest]
    /\ unfinished' = {}
    /\ phase' = "recover"
    /\ work' = Recoverable
    /\ stranded' = {m \in At("group") \ routed : sentOn[m] \notin NewestTwo}
    /\ Return
    /\ UNCHANGED <<ts, letters, marks, membership, mail, calendar, faults>>

RouterStep ==
    \/ EndOfListing
    \/ \E m \in Mids : Resume(m) \/ GiveUp(m) \/ Route(m)
    \/ Move \/ Park \/ Tell
    \/ MakeDirs \/ Mark \/ Postpone
    \/ \E u \in Users : Link(u)

RouterFault ==
    \/ MoveFails \/ ParkFails \/ TellFails \/ DirsFail \/ MarkFails
    \/ \E u \in Users : LinkFails(u) \/ ProvisionFails(u)

Api ==
    \/ \E m \in Mids : Spool(m) \/ SpoolFails(m)
    \/ \E u \in Users :
          \/ Send(u) \/ Login(u)
          \/ AddDraw(u) \/ AddWrite(u)
          \/ LeaveAnnounce(u) \/ LeaveUnlink(u) \/ LeaveSweep(u)
          \/ \E v \in Users : AddCheck(u, v)
          \/ \E m \in Mids :
                PeekDrops(u, m) \/ DropDangling(u, m) \/ ConfirmMessage(u, m)
          \/ \E e \in queue[u] : ConfirmEvent(u, e)

Next ==
    \/ RouterStep \/ RouterFault \/ Api
    \/ \E d \in 1..MaxDay : Retain(d)
    \/ NextDay \/ Crash

Spec == Init /\ [][Next]_vars

(* The router thread runs: its loop wakes at least every two seconds, and an
   archived message is seen as such. *)
Fairness ==
    WF_vars(RouterStep \/ (pc \in {"dirs", "fan"} /\ place[cur] # "group"
                              /\ (DirsFail \/ MarkFails)))

FairSpec == Spec /\ Fairness

-----------------------------------------------------------------------------
(* Properties. *)

MessageTypes ==
    /\ ts \in 0..MaxTs
    /\ day \in 1..MaxDay
    /\ place \in [Mids -> Places]
    /\ from \in [Mids -> Users \cup {Nobody}]
    /\ sentOn \in [Mids -> 0..MaxDay]
    /\ system \subseteq Mids
    /\ routed \subseteq Mids
    /\ dayDirs \subseteq 0..MaxDay

UserTypes ==
    /\ delivered \in [Mids -> SUBSET Users]
    /\ members \subseteq Users
    /\ joined \in [Users -> 0..MaxTs]
    /\ queue \in [Users -> SUBSET Entry]
    /\ home \subseteq Users
    /\ req \in [Users -> Request]

RouterTypes ==
    /\ unfinished \subseteq Mids
    /\ pc \in {"next", "move", "park", "tell", "dirs", "fan"}
    /\ phase \in {"recover", "retry", "drain"}
    /\ work \subseteq Mids
    /\ cur \in 0..MaxTs
    /\ mem \subseteq Users
    /\ todo \subseteq Users
    /\ ok \in BOOLEAN

HistoryTypes ==
    /\ crashes \in 0..MaxCrashes
    /\ faults \in 0..MaxFaults
    /\ since \in [Users -> 0..MaxTs]
    /\ skipped \subseteq Users \X Mids
    /\ swept \subseteq Users \X Mids
    /\ stranded \subseteq Mids

TypeOK == MessageTypes /\ UserTypes /\ RouterTypes /\ HistoryTypes

(* Once .routed is written, no recipient has missed the message: whoever has
   been a member since before it was minted, and is not its sender, has it in
   the queue or has confirmed it - whatever failed, crashed, joined or left on
   the way.  Two ways out are named: queue_add gave up on an account it could
   not provision (skipped), and a leave sweep that ended after the user was
   added again (swept). *)
RoutedMeansQueued ==
    \A m \in routed \cap At("group") : \A u \in members :
        since[u] < m /\ u # from[m]
            => Waiting(u, m) \/ u \in delivered[m] \/ <<u, m>> \in skipped \cup swept

(* A message is bounced for cause: when no disk operation failed, a rejected
   message is a user's message whose sender left the group after minting it;
   if the sender is a member again, the marker was written after the minting. *)
BouncedForCause ==
    faults = 0 => \A m \in At("rejected") :
        m \notin system /\ (from[m] \in members => m <= since[from[m]])

(* A stored message is never bounced or lost: after the rename into the group
   only retention moves it, whatever fails in the fan-out. *)
StoredStaysStored ==
    [][\A m \in Mids : place[m] = "group" => place'[m] \in {"group", "archived"}]_vars

(* A confirmed message is pushed again only by a retry or by the recovery after
   a restart: the drain of incoming/ queues a message for a user at most once. *)
NoRepush ==
    [][\A m \in Mids : \A u \in Users :
         Waiting(u, m)' /\ ~Waiting(u, m) /\ u \in delivered[m]
             => phase \in {"retry", "recover"}]_vars

(* No stored message is forgotten: while .routed is missing, the router is at
   the message, still has it in its listing, or keeps it for the next drain.
   Only three things let go of one (stranded): an exception in _finish, whose
   mkdirs and touch are outside its try, a message more than _unfinished takes,
   and a restart when the group has two newer day folders. *)
NothingForgotten ==
    \A m \in At("group") \ routed :
        \/ m \in work \cup unfinished \cup stranded
        \/ cur = m /\ pc \in {"dirs", "fan"}

(* Every accepted message leaves incoming/, and is rejected or has its fan-out
   completed, unless retention takes it first or it is stranded. *)
AcceptedIsRouted ==
    \A m \in Mids :
        place[m] = "incoming"
            ~> (m \in routed \cup stranded \/ place[m] \in {"rejected", "archived", "gone"})

Settled(m) ==
    \/ place[m] \in {"group", "archived"}
    \/ \E u \in Users : u = from[m] /\ FailedEntry(m) \in queue[u]

(* In a process that does not crash, the sender of an accepted message that is
   not stored is told by ~x~. *)
RejectionIsTold ==
    [](crashes = 0) => \A m \in Mids : place[m] = "incoming" ~> Settled(m)

-----------------------------------------------------------------------------
(* What comments and API.md say, and the code does not keep.                 *)

(* API.md calls recipients of a message the members who had joined by the time
   it was sent, render_msg those whose join stamp is older, and promises ~d~
   from each of them: each has to get every routed message pushed. *)
RecipientsArePushed ==
    \A m \in routed \cap At("group") : \A u \in members :
        joined[u] < m /\ u # from[m] => Waiting(u, m) \/ u \in delivered[m]

(* _retry_unfinished is to re-run the fan-out of every message that was stored
   but not fully queued, without a restart. *)
UnfinishedIsRetried ==
    \A m \in Mids :
        place[m] = "group" ~> (m \in routed \/ place[m] = "archived")
=============================================================================
