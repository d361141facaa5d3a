------------------------------ MODULE Sessions ------------------------------
(* Passwords and sessions.  The user file is the whole user database: the server
   and the command line rewrite single lines of it under a lock, operators edit
   it by hand, and every request looks at it through a cache that no lock
   protects.  A session is a marker file; a password change and an admin's reset
   unlink the markers of the account.

   A password is the number of times the account's password has been set.    *)
EXTENDS Naturals, FiniteSets

CONSTANTS
    Users,
    Logins,     \* login requests; an id is also the token it issues
    Changers,   \* authenticated requests, that may change the password
    Resetters,  \* password resets by an admin, in processes of their own
    None,
    Accounts,   \* which account each thread is about, in the cases looked at
    MaxEdits,   \* bound: edits of the file by hand
    MaxCrashes  \* bound: restarts of the server

ASSUME BoundsAssumption == {MaxEdits, MaxCrashes} \subseteq Nat

Server == Logins \cup Changers
Writers == Changers \cup Resetters
Threads == Server \cup Resetters
ASSUME ThreadsAssumption ==
    /\ None \notin Threads
    /\ Logins \cap Changers = {}
    /\ Resetters \cap Server = {}
ASSUME AccountsAssumption == Accounts \subseteq [Threads -> Users]

VARIABLES
    file,      \* the user file: the password of each account, and its flag
    stamp,     \* what stat tells versions of it apart by
    cache,     \* Roster._cache: a stamp and the entries
    holder,    \* who has locked <path>.lock
    pc,        \* where each thread is
    user,      \* the account it is about
    token,     \* the session it uses
    looked,    \* the stamp it got from stat
    view,      \* the entries it has read
    passed,    \* requests that session_user has let through
    sessions,  \* session markers
    todo,      \* markers a sweep has listed and not unlinked yet
    latest,    \* history: how often each password was set
    issued,    \* history: the password a session was issued for
    born,      \* history: the password its account had when it was created
    set,       \* history: the password a writer has set
    banned,    \* history: threads whose account is disabled since they began
    edits, crashes

locals == <<pc, user, token, looked, view, passed, todo>>
roster == <<file, stamp, holder>>
history == <<latest, issued, born, set>>
env == <<edits, crashes>>
vars == <<roster, cache, locals, sessions, history, banned, env>>

Blank == [u \in Users |-> [password |-> 0, disabled |-> FALSE]]

Init ==
    /\ file = Blank
    /\ stamp = 0
    /\ cache = [stamp |-> 0, entries |-> Blank]
    /\ holder = None
    /\ pc = [t \in Threads |-> "idle"]
    /\ user \in Accounts
    /\ token = [t \in Threads |-> None]
    /\ looked = [t \in Threads |-> 0]
    /\ view = [t \in Threads |-> Blank]
    /\ passed = {}
    /\ sessions = {}
    /\ todo = [t \in Threads |-> {}]
    /\ latest = [u \in Users |-> 0]
    /\ issued = [l \in Logins |-> 0]
    /\ born = [l \in Logins |-> 0]
    /\ set = [w \in Writers |-> 0]
    /\ banned = {}
    /\ edits = 0
    /\ crashes = 0

At(t, where) == pc[t] = where
Running(t) == pc[t] \notin {"idle", "issued", "granted", "denied", "changed", "lost"}
Goto(t, where) == pc' = [pc EXCEPT ![t] = where]
Entry(t) == view[t][user[t]]
Sees(t, entries) == view' = [view EXCEPT ![t] = entries]

(* What was read is of no use any more. *)
End(t, how) ==
    /\ Goto(t, how)
    /\ Sees(t, Blank)

-----------------------------------------------------------------------------
(* Every request begins with a look at the roster.                           *)

Begin(t) ==
    /\ At(t, "idle")
    /\ Goto(t, "stat")
    /\ banned' = IF file[user[t]].disabled THEN banned \cup {t} ELSE banned
    /\ UNCHANGED <<roster, cache, looked, view, passed, todo, sessions, history,
                   env>>

LoginBegins(l) ==
    /\ l \in Logins
    /\ Begin(l)
    /\ UNCHANGED <<user, token>>

(* An authenticated request, of a client that has logged in. *)
RequestBegins(c, l) ==
    /\ c \in Changers
    /\ At(l, "issued")
    /\ user[c] = user[l]
    /\ Begin(c)
    /\ token' = [token EXCEPT ![c] = l]
    /\ UNCHANGED user

(* Slip: the stamp goes into the cache as it is when the entries do. *)
StoreLate(t) ==
    /\ At(t, "store")
    /\ cache' = [stamp |-> stamp, entries |-> view[t]]
    /\ looked' = [looked EXCEPT ![t] = 0]
    /\ Goto(t, "use")
    /\ UNCHANGED <<roster, user, token, view, passed, todo, sessions, history,
                   banned, env>>

(* Roster.entries: a stat, ... *)
Stat(t) ==
    /\ At(t, "stat")
    /\ looked' = [looked EXCEPT ![t] = stamp]
    /\ Goto(t, "compare")
    /\ UNCHANGED <<roster, cache, user, token, view, passed, todo, sessions,
                   history, banned, env>>

(* ... that matches the cache, unless the cache is old ... *)
UseCache(t) ==
    /\ At(t, "compare")
    /\ cache.stamp = looked[t]
    /\ Sees(t, cache.entries)
    /\ looked' = [looked EXCEPT ![t] = 0]
    /\ Goto(t, "use")
    /\ UNCHANGED <<roster, cache, user, token, passed, todo, sessions,
                   history, banned, env>>

(* ... or else, and from time to time anyway, the file is read ... *)
Parse(t) ==
    /\ At(t, "compare")
    /\ Sees(t, file)
    /\ Goto(t, "store")
    /\ UNCHANGED <<roster, cache, user, token, looked, passed, todo, sessions,
                   history, banned, env>>

(* ... and cached with the stamp from before it was read. *)
Store(t) ==
    /\ At(t, "store")
    /\ cache' = [stamp |-> looked[t], entries |-> view[t]]
    /\ looked' = [looked EXCEPT ![t] = 0]
    /\ Goto(t, "use")
    /\ UNCHANGED <<roster, user, token, view, passed, todo, sessions, history,
                   banned, env>>

(* A disabled account is turned away. *)
Deny(t) ==
    /\ t \in Server
    /\ At(t, "use")
    /\ Entry(t).disabled
    /\ End(t, "denied")
    /\ UNCHANGED <<roster, cache, user, token, looked, passed, todo, sessions,
                   history, banned, env>>

-----------------------------------------------------------------------------
(* Api.login, Store.session_user, drop_session                               *)

(* The password is the one the entry had when it was read ... *)
Verify(l) ==
    /\ l \in Logins
    /\ At(l, "use")
    /\ ~Entry(l).disabled
    /\ Goto(l, "touch")
    /\ UNCHANGED <<roster, cache, user, token, looked, view, passed, todo,
                   sessions, history, banned, env>>

(* ... and the marker is made after that. *)
NewSession(l) ==
    /\ At(l, "touch")
    /\ sessions' = sessions \cup {l}
    /\ issued' = [issued EXCEPT ![l] = Entry(l).password]
    /\ born' = [born EXCEPT ![l] = latest[user[l]]]
    /\ End(l, "issued")
    /\ UNCHANGED <<roster, cache, user, token, looked, passed, todo, latest,
                   set, banned, env>>

(* The account is on the roster: the marker decides. *)
SessionUser(c) ==
    /\ c \in Changers \ passed
    /\ At(c, "use")
    /\ ~Entry(c).disabled
    /\ IF token[c] \in sessions THEN End(c, "granted") /\ passed' = passed \cup {c}
                               ELSE End(c, "denied") /\ UNCHANGED passed
    /\ UNCHANGED <<roster, cache, user, token, looked, todo, sessions, history,
                   banned, env>>

(* Logout, or thirty days without a request. *)
SessionEnds(l) ==
    /\ l \in sessions
    /\ sessions' = sessions \ {l}
    /\ UNCHANGED <<roster, cache, locals, history, banned, env>>

-----------------------------------------------------------------------------
(* Roster.set_password and the sweeps of change_password and cmd_passwd      *)

(* The request is a password change: the entry is looked up again ... *)
ChangeBegins(c) ==
    /\ At(c, "granted")
    /\ Goto(c, "stat")
    /\ UNCHANGED <<roster, cache, user, token, looked, view, passed, todo,
                   sessions, history, banned, env>>

(* ... and the old password was right when it was read. *)
VerifyOld(c) ==
    /\ c \in passed
    /\ At(c, "use")
    /\ ~Entry(c).disabled
    /\ End(c, "lock")
    /\ UNCHANGED <<roster, cache, user, token, looked, passed, todo, sessions,
                   history, banned, env>>

ResetBegins(k) ==
    /\ k \in Resetters
    /\ At(k, "idle")
    /\ Goto(k, "lock")
    /\ UNCHANGED <<roster, cache, user, token, looked, view, passed, todo,
                   sessions, history, banned, env>>

(* Slip: no one waits for the lock. *)
LockAnyway(w) ==
    /\ At(w, "lock")
    /\ holder' = w
    /\ Goto(w, "read")
    /\ UNCHANGED <<file, stamp, cache, user, token, looked, view, passed, todo,
                   sessions, history, banned, env>>

Lock(w) ==
    /\ At(w, "lock")
    /\ holder = None
    /\ holder' = w
    /\ Goto(w, "read")
    /\ UNCHANGED <<file, stamp, cache, user, token, looked, view, passed, todo,
                   sessions, history, banned, env>>

(* The whole file is read past the cache ... *)
Read(w) ==
    /\ At(w, "read")
    /\ Sees(w, file)
    /\ Goto(w, "replace")
    /\ UNCHANGED <<roster, cache, user, token, looked, passed, todo, sessions,
                   history, banned, env>>

(* ... and replaced with one line changed; its disabled flag is kept. *)
Replace(w) ==
    /\ At(w, "replace")
    /\ LET u == user[w] IN
       /\ file' = [view[w] EXCEPT ![u].password = latest[u] + 1]
       /\ latest' = [latest EXCEPT ![u] = @ + 1]
       /\ set' = [set EXCEPT ![w] = latest[u] + 1]
    /\ stamp' = stamp + 1
    /\ holder' = None
    /\ banned' = {t \in banned : file'[user[t]].disabled}
    /\ End(w, "list")
    /\ UNCHANGED <<cache, user, token, looked, passed, todo, sessions, issued,
                   born, env>>

(* All sessions of the account, except the one that makes the change. *)
List(w) ==
    /\ At(w, "list")
    /\ todo' = [todo EXCEPT ![w] =
                  {l \in sessions \ {token[w]} : user[l] = user[w]}]
    /\ Goto(w, "sweep")
    /\ UNCHANGED <<roster, cache, user, token, looked, passed, view, sessions,
                   history, banned, env>>

(* Slip: a marker that is gone by now ends the sweep. *)
UnlinkStrictly(w, l) ==
    /\ At(w, "sweep")
    /\ l \in todo[w]
    /\ sessions' = sessions \ {l}
    /\ todo' = [todo EXCEPT ![w] = IF l \in sessions THEN @ \ {l} ELSE {}]
    /\ UNCHANGED <<roster, cache, pc, user, token, looked, passed, view,
                   history, banned, env>>

Unlink(w, l) ==
    /\ At(w, "sweep")
    /\ l \in todo[w]
    /\ sessions' = sessions \ {l}
    /\ todo' = [todo EXCEPT ![w] = @ \ {l}]
    /\ UNCHANGED <<roster, cache, pc, user, token, looked, passed, view,
                   history, banned, env>>

Finish(w) ==
    /\ At(w, "sweep")
    /\ todo[w] = {}
    /\ End(w, "changed")
    /\ UNCHANGED <<roster, cache, user, token, looked, passed, todo, sessions,
                   history, banned, env>>

-----------------------------------------------------------------------------
(* An operator disables an account, or enables it again, with a rename. *)
Edit(u) ==
    /\ edits < MaxEdits
    /\ edits' = edits + 1
    /\ file' = [file EXCEPT ![u].disabled = ~@]
    /\ stamp' = stamp + 1
    /\ banned' = {t \in banned : file'[user[t]].disabled}
    /\ UNCHANGED <<holder, cache, locals, sessions, history, crashes>>

(* Requests in progress are lost; a lock goes with its process. *)
Crash ==
    /\ crashes < MaxCrashes
    /\ crashes' = crashes + 1
    /\ pc' = [t \in Threads |->
              IF t \in Server /\ Running(t) THEN "lost" ELSE pc[t]]
    /\ looked' = [t \in Threads |-> 0]
    /\ view' = [t \in Threads |-> IF t \in Server THEN Blank ELSE view[t]]
    /\ todo' = [t \in Threads |-> IF t \in Server THEN {} ELSE todo[t]]
    /\ passed' = {}
    /\ holder' = IF holder \in Server THEN None ELSE holder
    /\ cache' = [stamp |-> stamp, entries |-> file]
    /\ UNCHANGED <<file, stamp, user, token, sessions, history, banned, edits>>

Looking(t) == UseCache(t) \/ Stat(t) \/ Parse(t) \/ Store(t) \/ Deny(t)

Next ==
    \/ \E t \in Server : Looking(t)
    \/ \E l \in Logins :
        \/ LoginBegins(l) \/ Verify(l) \/ NewSession(l) \/ SessionEnds(l)
        \/ \E c \in Changers : RequestBegins(c, l)
        \/ \E w \in Writers : Unlink(w, l)
    \/ \E c \in Changers : SessionUser(c) \/ ChangeBegins(c) \/ VerifyOld(c)
    \/ \E k \in Resetters : ResetBegins(k)
    \/ \E w \in Writers : Lock(w) \/ Read(w) \/ Replace(w) \/ List(w) \/ Finish(w)
    \/ \E u \in Users : Edit(u)
    \/ Crash

Spec == Init /\ [][Next]_vars

-----------------------------------------------------------------------------
Entries == [Users -> [password : Nat, disabled : BOOLEAN]]

TypeOK ==
    /\ file \in Entries /\ stamp \in Nat
    /\ cache \in [stamp : Nat, entries : Entries]
    /\ holder \in Writers \cup {None}
    /\ pc \in [Threads -> {"idle", "stat", "compare", "store", "use", "touch", "lock",
                           "read", "replace", "list", "sweep", "issued", "granted",
                           "denied", "changed", "lost"}]
    /\ user \in [Threads -> Users]
    /\ token \in [Threads -> Logins \cup {None}]
    /\ looked \in [Threads -> Nat]
    /\ view \in [Threads -> Entries]
    /\ sessions \subseteq Logins /\ passed \subseteq Changers
    /\ todo \in [Threads -> SUBSET Logins]
    /\ latest \in [Users -> Nat]
    /\ issued \in [Logins -> Nat] /\ born \in [Logins -> Nat]
    /\ set \in [Writers -> Nat]
    /\ banned \subseteq Server
    /\ edits \in 0..MaxEdits /\ crashes \in 0..MaxCrashes

(* Revocation reaches every request that begins after it, logged in or not, no
   matter what other threads put into the cache meanwhile. *)
RevocationReaches ==
    \A t \in banned : pc[t] \notin {"touch", "lock", "issued", "granted", "changed"}

(* No rewrite of the file undoes another one's: every account has the password
   that was set last. *)
ChangesStick == \A u \in Users : file[u].password = latest[u]

(* When a change or a reset has answered, no session is left that existed when
   the password was replaced, except the one that asked for it. *)
SweepIsComplete ==
    \A w \in Writers, l \in sessions :
        /\ At(w, "changed")
        /\ user[l] = user[w]
        /\ l # token[w]
        => born[l] >= set[w]

-----------------------------------------------------------------------------
(* What the documents say and the code does not keep.                        *)

(* "kills every other session": every session left is of the new password. *)
OtherSessionsEnd ==
    \A w \in Changers, l \in sessions :
        /\ At(w, "changed")
        /\ user[l] = user[w]
        /\ l # token[w]
        => issued[l] >= set[w]
=============================================================================
