-------------------------------- MODULE Polls --------------------------------
(***************************************************************************)
(* Connections and long polls: the accept loop hands a connection slot to  *)
(* a thread per connection, which serves one request after the other; a    *)
(* GET /messages looks at the queue, parks under a cap per user, and then  *)
(* looks at the roster and the queue at every pass until something is      *)
(* there, its deadline passes or the user is revoked.                      *)
(***************************************************************************)
EXTENDS Naturals, FiniteSets

CONSTANTS
    Conns, Users,
    MaxConnections,       \* BoundedHTTPServer.max_connections
    MaxPolls,             \* config.MAX_POLLS_PER_USER
    Nobody,
    MaxTyping, MaxFailedStarts     \* bounds

ASSUME PollsAssumption ==
    /\ IsFiniteSet(Conns) /\ Nobody \notin Users
    /\ MaxConnections \in Nat \ {0} /\ MaxPolls \in Nat \ {0}
    /\ MaxTyping \in Nat /\ MaxFailedStarts \in Nat

VARIABLES
    free,                 \* the permits of _conn_slots
    polls,                \* Api._polls; no key is 0
    conn,                 \* each connection: where its thread is
    queue,                \* whose queue holds entries
    typing,               \* the changes of who is typing, as each user sees it
    unnotified,           \* whom a writer has yet to notify
    allowed,              \* the users the roster lets in
    leaked                \* history: slots that no thread will release

users == <<queue, typing, unnotified, allowed>>
vars == <<free, polls, conn, users, leaked>>

Closed == [at |-> "closed", user |-> Nobody, typing |-> 0, late |-> FALSE, looks |-> 0]
Open == [Closed EXCEPT !.at = "open"]

Init ==
    /\ free = MaxConnections
    /\ polls = [u \in Users |-> 0]
    /\ conn = [c \in Conns |-> Closed]
    /\ queue = {} /\ unnotified = {}
    /\ typing = [u \in Users |-> 0]
    /\ allowed = Users
    /\ leaked = 0

-----------------------------------------------------------------------------
(***************************************************************************)
(* process_request: a slot, then a thread.  If the thread cannot be        *)
(* started, the accept loop closes the connection and goes on.             *)
(***************************************************************************)
Goto(c, at) == conn' = [conn EXCEPT ![c].at = at]

Accept(c) ==
    /\ conn[c].at = "closed" /\ free > 0
    /\ free' = free - 1
    /\ Goto(c, "starting")
    /\ UNCHANGED <<polls, users, leaked>>

StartFails(c) ==
    /\ conn[c].at = "starting" /\ leaked < MaxFailedStarts
    /\ leaked' = leaked + 1
    /\ Goto(c, "closed")
    /\ UNCHANGED <<free, polls, users>>

(* process_request_thread; its finally gives the slot back. *)
Start(c) ==
    /\ conn[c].at = "starting"
    /\ Goto(c, "handshake")
    /\ UNCHANGED <<free, polls, users, leaked>>

Handshake(c) ==
    /\ conn[c].at = "handshake"
    /\ Goto(c, "open")
    /\ UNCHANGED <<free, polls, users, leaked>>

EndsSlip(c) ==
    /\ conn[c].at \in {"handshake", "open"}
    /\ free' = IF conn[c].at = "open" THEN free + 1 ELSE free
    /\ conn' = [conn EXCEPT ![c] = Closed]
    /\ UNCHANGED <<polls, users, leaked>>

Ends(c) ==
    /\ conn[c].at \in {"handshake", "open"}
    /\ free' = free + 1
    /\ conn' = [conn EXCEPT ![c] = Closed]
    /\ UNCHANGED <<polls, users, leaked>>

-----------------------------------------------------------------------------
(***************************************************************************)
(* list_queue.                                                             *)
(***************************************************************************)
Request(c, u, late) ==
    /\ conn[c].at = "open" /\ u \in allowed
    /\ conn' = [conn EXCEPT ![c] = [Open EXCEPT !.at = "look", !.user = u, !.late = late]]
    /\ UNCHANGED <<free, polls, users, leaked>>

(* One look at the queue and at who is typing. *)
Looked(c) == IF conn[c].looks < 2 THEN conn[c].looks + 1 ELSE 2
Due(c) == conn[c].user \in queue \/ conn[c].late

Look(c) ==
    /\ conn[c].at = "look"
    /\ conn' = [conn EXCEPT ![c].at = IF Due(c) THEN "answer" ELSE "cap",
                            ![c].typing = typing[conn[c].user], ![c].looks = Looked(c)]
    /\ UNCHANGED <<free, polls, users, leaked>>

Park(c) ==
    /\ conn[c].at = "cap"
    /\ IF polls[conn[c].user] >= MaxPolls
       THEN Goto(c, "answer") /\ UNCHANGED polls
       ELSE Goto(c, "pass") /\ polls' = [polls EXCEPT ![conn[c].user] = @ + 1]
    /\ UNCHANGED <<free, users, leaked>>

(* A pass begins with a look at the roster. *)
PassSlip(c) ==
    /\ conn[c].at = "pass"
    /\ Goto(c, "check")
    /\ UNCHANGED <<free, polls, users, leaked>>

Pass(c) ==
    /\ conn[c].at = "pass"
    /\ Goto(c, IF conn[c].user \in allowed THEN "check" ELSE "unpark")
    /\ UNCHANGED <<free, polls, users, leaked>>

Check(c) ==
    /\ conn[c].at = "check"
    /\ LET due == Due(c) \/ typing[conn[c].user] # conn[c].typing
       IN  conn' = [conn EXCEPT ![c].at = IF due THEN "unpark" ELSE "wait", ![c].looks = Looked(c)]
    /\ UNCHANGED <<free, polls, users, leaked>>

(* The queue cannot be read. *)
CheckFails(c) ==
    /\ conn[c].at = "check"
    /\ Goto(c, "unpark")
    /\ UNCHANGED <<free, polls, users, leaked>>

(* Condition.wait: woken by a notify, or after a second at most. *)
TimeoutSlip(c) ==
    /\ conn[c].at = "wait" /\ conn[c].late
    /\ Goto(c, "pass")
    /\ UNCHANGED <<free, polls, users, leaked>>

Timeout(c) ==
    /\ conn[c].at = "wait"
    /\ Goto(c, "pass")
    /\ UNCHANGED <<free, polls, users, leaked>>

(* The finally of list_queue. *)
UnparkSlip(c) ==
    /\ conn[c].at = "unpark"
    /\ polls' = [polls EXCEPT ![conn[c].user] = IF conn[c].user \in allowed THEN @ - 1 ELSE @]
    /\ Goto(c, "answer")
    /\ UNCHANGED <<free, users, leaked>>

Unpark(c) ==
    /\ conn[c].at = "unpark"
    /\ polls' = [polls EXCEPT ![conn[c].user] = @ - 1]
    /\ Goto(c, "answer")
    /\ UNCHANGED <<free, users, leaked>>

(* The answer is written, or the client is found gone: the thread goes on *)
(* to the next request, or Ends.                                          *)
Answer(c) ==
    /\ conn[c].at = "answer"
    /\ conn' = [conn EXCEPT ![c] = Open]
    /\ UNCHANGED <<free, polls, users, leaked>>

DeadlinePasses(c) ==
    /\ conn[c].user # Nobody /\ ~conn[c].late
    /\ conn' = [conn EXCEPT ![c].late = TRUE]
    /\ UNCHANGED <<free, polls, users, leaked>>

-----------------------------------------------------------------------------
(***************************************************************************)
(* The others: the router, ticks and changes link an entry and then        *)
(* notify; a typing ping notifies, the end of typing does not; a device    *)
(* confirms; the operator edits the roster.                                *)
(***************************************************************************)
QueueAdd(u) ==
    /\ queue' = queue \cup {u}
    /\ unnotified' = unnotified \cup {u}
    /\ UNCHANGED <<free, polls, conn, typing, allowed, leaked>>

TypingChanges(u, ping) ==
    /\ typing[u] < MaxTyping
    /\ typing' = [typing EXCEPT ![u] = @ + 1]
    /\ unnotified' = IF ping THEN unnotified \cup {u} ELSE unnotified
    /\ UNCHANGED <<free, polls, conn, queue, allowed, leaked>>

Notify(u) ==
    /\ u \in unnotified
    /\ unnotified' = unnotified \ {u}
    /\ conn' = [c \in Conns |-> IF conn[c].at = "wait" /\ conn[c].user = u
                                THEN [conn[c] EXCEPT !.at = "pass"] ELSE conn[c]]
    /\ UNCHANGED <<free, polls, queue, typing, allowed, leaked>>

Confirm(u) ==
    /\ u \in queue
    /\ queue' = queue \ {u}
    /\ UNCHANGED <<free, polls, conn, typing, unnotified, allowed, leaked>>

Revoke(u) ==
    /\ u \in allowed
    /\ allowed' = allowed \ {u}
    /\ conn' = [c \in Conns |-> IF conn[c].user = u THEN [conn[c] EXCEPT !.looks = 0] ELSE conn[c]]
    /\ UNCHANGED <<free, polls, queue, typing, unnotified, leaked>>

Readmit(u) ==
    /\ u \notin allowed
    /\ allowed' = allowed \cup {u}
    /\ UNCHANGED <<free, polls, conn, queue, typing, unnotified, leaked>>

Serve(c) ==
    \/ Start(c) \/ Look(c) \/ Park(c) \/ Pass(c) \/ Check(c) \/ Timeout(c)
    \/ Unpark(c) \/ Answer(c)

Next ==
    \/ \E c \in Conns :
        \/ Accept(c) \/ StartFails(c) \/ Handshake(c) \/ Ends(c)
        \/ \E u \in Users, late \in BOOLEAN : Request(c, u, late)
        \/ Serve(c) \/ CheckFails(c) \/ DeadlinePasses(c)
    \/ \E u \in Users :
        \/ QueueAdd(u) \/ Notify(u) \/ Confirm(u) \/ Revoke(u) \/ Readmit(u)
        \/ \E ping \in BOOLEAN : TypingChanges(u, ping)

(***************************************************************************)
(* A thread runs, and Condition.wait comes back after its second; a        *)
(* deadline, a client and another writer need never come.                  *)
(***************************************************************************)
Fairness == \A c \in Conns : WF_vars(Serve(c))

Spec == Init /\ [][Next]_vars /\ Fairness

-----------------------------------------------------------------------------
Parked(c) == conn[c].at \in {"pass", "check", "wait", "unpark"}
ParkedPolls(u) == {c \in Conns : Parked(c) /\ conn[c].user = u}
Held == {c \in Conns : conn[c].at # "closed"}

TypeOK ==
    /\ free \in 0..MaxConnections
    /\ polls \in [Users -> Nat]
    /\ conn \in [Conns -> [at : {"closed", "starting", "handshake", "open", "look", "cap", "pass",
                                 "check", "wait", "unpark", "answer"},
                           user : Users \cup {Nobody}, typing : Nat, late : BOOLEAN, looks : 0..2]]
    /\ queue \subseteq Users /\ unnotified \subseteq Users /\ allowed \subseteq Users
    /\ typing \in [Users -> Nat] /\ leaked \in Nat

(***************************************************************************)
(* Every slot taken from the semaphore belongs to a connection whose       *)
(* thread gives it back, whichever way the connection ends, and none is    *)
(* given back twice; only a thread that could not be started               *)
(* (server.py:569) keeps its slot for good.                                *)
(***************************************************************************)
SlotsComeBack == free + Cardinality(Held) + leaked = MaxConnections

(***************************************************************************)
(* The count of parked polls of a user is the number of their threads in   *)
(* the loop, and never above the cap, however a poll ends: an answer, a    *)
(* revocation, a queue that cannot be read (api.py:230-262).               *)
(***************************************************************************)
PollsAreCounted ==
    \A u \in Users : polls[u] = Cardinality(ParkedPolls(u)) /\ polls[u] <= MaxPolls

(***************************************************************************)
(* A revoked user's poll looks at the queue once more at most: one that    *)
(* has passed the roster check already (api.py:247).                   *)
(***************************************************************************)
RevokedIsCut ==
    \A c \in Conns : Parked(c) /\ conn[c].user \notin allowed => conn[c].looks <= 1

(***************************************************************************)
(* A notify that comes between a poll's look and its wait is lost; the     *)
(* poll still finds the entry, or the revocation or the deadline, without  *)
(* another notify (api.py:255).                                            *)
(***************************************************************************)
ParkedPollsEnd ==
    \A c \in Conns :
        LET Queued == conn[c].user \in queue
            Revoked == conn[c].user \notin allowed
            Late == conn[c].late
        IN  /\ Parked(c) /\ Queued ~> ~Parked(c) \/ ~Queued
            /\ Parked(c) /\ Revoked ~> ~Parked(c) \/ ~Revoked
            /\ Parked(c) /\ Late ~> ~Parked(c)
=============================================================================
