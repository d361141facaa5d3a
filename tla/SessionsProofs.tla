---------------------------- MODULE SessionsProofs ----------------------------
(***************************************************************************)
(* Proofs about Sessions, for every set of accounts, login requests,       *)
(* authenticated requests and resets, and any number of edits and restarts.*)
(***************************************************************************)
EXTENDS Sessions, TLAPS

(* Who has read the file with the current stamp has read the current file;  *)
(* so the cache is the file whenever its stamp is.                          *)
Fresh ==
    /\ cache.stamp <= stamp
    /\ cache.stamp = stamp => cache.entries = file
    /\ \A t \in Server :
        /\ looked[t] <= stamp
        /\ At(t, "store") /\ looked[t] = stamp => view[t] = file

(* Whatever a request of a disabled account can still read says disabled:   *)
(* its view, the cache if its stamp matches, and what is put there next.    *)
Held(t) ==
    /\ pc[t] \in {"stat", "compare", "store", "use", "denied", "lost"}
    /\ file[user[t]].disabled
    /\ pc[t] \in {"store", "use"} => Entry(t).disabled
    /\ At(t, "compare") =>
        /\ cache.stamp = looked[t] => cache.entries[user[t]].disabled
        /\ \A x \in Server :
            At(x, "store") /\ looked[x] = looked[t] => view[x][user[t]].disabled

Revoked == \A t \in banned : Held(t)

(* One writer at a time has read the file, and knows every password in it.  *)
Exclusive ==
    /\ ChangesStick
    /\ \A w \in Writers : pc[w] \in {"read", "replace"} => holder = w
    /\ \A w \in Writers : At(w, "replace") => \A u \in Users : view[w][u].password = latest[u]

(* A sweep that has listed the markers has every old one still to unlink.   *)
Swept ==
    /\ \A w \in Writers : set[w] <= latest[user[w]]
    /\ \A w \in Writers, l \in sessions :
        /\ pc[w] = "changed" \/ (pc[w] = "sweep" /\ l \notin todo[w])
        /\ user[l] = user[w] /\ l # token[w]
        => born[l] >= set[w]

IInv == TypeOK /\ Fresh /\ Revoked /\ Exclusive /\ Swept

(* The types. *)
LEMMA TypesStay == TypeOK /\ [Next]_vars => TypeOK'
<1> SUFFICES ASSUME TypeOK, [Next]_vars PROVE TypeOK'
  OBVIOUS
<1>1. ASSUME NEW l \in Logins, LoginBegins(l) PROVE TypeOK'
  BY <1>1 DEF LoginBegins, TypeOK, Begin, Server, Goto, roster, history, env
<1>2. ASSUME NEW c \in Changers, NEW l \in Logins, RequestBegins(c, l) PROVE TypeOK'
  BY <1>2 DEF RequestBegins, TypeOK, Begin, Server, Goto, roster, history, env
<1>3. ASSUME NEW t \in Server, Stat(t) PROVE TypeOK'
  BY <1>3 DEF Stat, TypeOK, Goto, roster, history, env
<1>4. ASSUME NEW t \in Server, UseCache(t) PROVE TypeOK'
  BY <1>4 DEF UseCache, TypeOK, Sees, Goto, roster, history, env
<1>5. ASSUME NEW t \in Server, Parse(t) PROVE TypeOK'
  BY <1>5 DEF Parse, TypeOK, Sees, Goto, roster, history, env
<1>6. ASSUME NEW t \in Server, Store(t) PROVE TypeOK'
  BY <1>6 DEF Store, TypeOK, Goto, roster, history, env, Threads
<1>7. ASSUME NEW t \in Server, Deny(t) PROVE TypeOK'
  BY <1>7 DEF Deny, TypeOK, End, roster, history, env, Entries, Goto, Sees, Blank
<1>8. ASSUME NEW l \in Logins, Verify(l) PROVE TypeOK'
  BY <1>8 DEF Verify, TypeOK, Goto, roster, history, env
<1>9. ASSUME NEW l \in Logins, NewSession(l) PROVE TypeOK'
  BY <1>9 DEF NewSession, TypeOK, Entry, End, roster, env, Entries, Server, Goto, Sees,
    Blank, Threads
<1>10. ASSUME NEW c \in Changers, SessionUser(c) PROVE TypeOK'
  <2>1. PICK how \in {"granted", "denied"} : End(c, how)
    BY <1>10 DEF SessionUser
  <2>2. passed' \subseteq Changers
    BY <1>10 DEF SessionUser, TypeOK
  <2> QED
    BY <1>10, <2>1, <2>2 DEF SessionUser, TypeOK, Entries, End, Goto, Sees, Blank, roster,
      history, env
<1>11. ASSUME NEW l \in Logins, SessionEnds(l) PROVE TypeOK'
  BY <1>11 DEF SessionEnds, TypeOK, roster, locals, history, env
<1>12. ASSUME NEW c \in Changers, ChangeBegins(c) PROVE TypeOK'
  BY <1>12 DEF ChangeBegins, TypeOK, Goto, roster, history, env
<1>13. ASSUME NEW c \in Changers, VerifyOld(c) PROVE TypeOK'
  BY <1>13 DEF VerifyOld, TypeOK, End, roster, history, env, Entries, Goto, Sees, Blank
<1>14. ASSUME NEW k \in Resetters, ResetBegins(k) PROVE TypeOK'
  BY <1>14 DEF ResetBegins, TypeOK, Goto, roster, history, env
<1>15. ASSUME NEW w \in Writers, Lock(w) PROVE TypeOK'
  BY <1>15 DEF Lock, TypeOK, Goto, history, env
<1>16. ASSUME NEW w \in Writers, Read(w) PROVE TypeOK'
  BY <1>16 DEF Read, TypeOK, Sees, Goto, roster, history, env
<1>17. ASSUME NEW w \in Writers, Replace(w) PROVE TypeOK'
  <2> DEFINE u == user[w]
  <2>1. u \in Users /\ view[w] \in Entries /\ latest[u] \in Nat /\ w \in Threads
    BY DEF TypeOK, Server, Writers, Threads
  <2>2. [view[w] EXCEPT ![u].password = latest[u] + 1] \in Entries
    BY <2>1 DEF Entries
  <2>3. file' \in Entries
    BY <1>17, <2>2 DEF Replace
  <2>4. latest' \in [Users -> Nat] /\ set' \in [Writers -> Nat] /\ stamp' \in Nat
    BY <1>17, <2>1 DEF Replace, TypeOK
  <2>5. banned' \subseteq Server /\ holder' = None
    BY <1>17 DEF Replace, TypeOK
  <2>6. End(w, "list") /\ UNCHANGED <<cache, user, token, looked, passed, todo, sessions, issued, born, env>>
    BY <1>17 DEF Replace
  <2>7. pc' \in [Threads -> {"idle", "stat", "compare", "store", "use", "touch", "lock", "read", "replace",
                             "list", "sweep", "issued", "granted", "denied", "changed", "lost"}]
        /\ view' \in [Threads -> Entries]
    BY <2>1, <2>6 DEF TypeOK, End, Goto, Sees, Blank, Entries
  <2> QED
    BY <2>3, <2>4, <2>5, <2>6, <2>7 DEF TypeOK, env
<1>18. ASSUME NEW w \in Writers, List(w) PROVE TypeOK'
  BY <1>18 DEF List, TypeOK, Goto, roster, history, env
<1>19. ASSUME NEW w \in Writers, NEW l \in Logins, Unlink(w, l) PROVE TypeOK'
  BY <1>19 DEF Unlink, TypeOK, roster, history, env
<1>20. ASSUME NEW w \in Writers, Finish(w) PROVE TypeOK'
  BY <1>20 DEF Finish, TypeOK, End, roster, history, env, Entries, Goto, Sees, Blank
<1>21. ASSUME NEW u \in Users, Edit(u) PROVE TypeOK'
  <2>1. [file EXCEPT ![u].disabled = ~@] \in Entries
    <3>1. file \in Entries
      BY DEF TypeOK
    <3>2. (~file[u].disabled) \in BOOLEAN
      OBVIOUS
    <3> QED
      BY <3>1, <3>2 DEF Entries
  <2>2. file' \in Entries
    BY <1>21, <2>1 DEF Edit
  <2>3. stamp' \in Nat /\ edits' \in 0..MaxEdits
    BY <1>21, BoundsAssumption DEF Edit, TypeOK
  <2>4. banned' \subseteq Server /\ UNCHANGED <<holder, cache, locals, sessions, history, crashes>>
    BY <1>21 DEF Edit, TypeOK
  <2> QED
    BY <2>2, <2>3, <2>4 DEF TypeOK, locals, history
<1>22. ASSUME Crash PROVE TypeOK'
  BY <1>22, BoundsAssumption DEF Crash, TypeOK, Blank, history, Entries
<1>23. ASSUME UNCHANGED vars PROVE TypeOK'
  BY <1>23 DEF vars, TypeOK, roster, locals, history, env
<1> QED
  BY <1>1, <1>2, <1>3, <1>4, <1>5, <1>6, <1>7, <1>8, <1>9, <1>10, <1>11, <1>12, <1>13,
    <1>14, <1>15, <1>16, <1>17, <1>18, <1>19, <1>20, <1>21, <1>22, <1>23 DEF Next, Looking

(* The cache and the reads that may go there. *)
LEMMA FreshStays == TypeOK /\ TypeOK' /\ Fresh /\ [Next]_vars => Fresh'
<1> SUFFICES ASSUME TypeOK /\ TypeOK' /\ Fresh, [Next]_vars PROVE Fresh'
  OBVIOUS
<1>1. ASSUME NEW l \in Logins, LoginBegins(l) PROVE Fresh'
  BY <1>1 DEF LoginBegins, TypeOK, Fresh, Begin, At, Goto, roster
<1>2. ASSUME NEW c \in Changers, NEW l \in Logins, RequestBegins(c, l) PROVE Fresh'
  BY <1>2 DEF RequestBegins, TypeOK, Fresh, At, Begin, Goto, roster
<1>3. ASSUME NEW t \in Server, Stat(t) PROVE Fresh'
  BY <1>3 DEF Stat, TypeOK, Fresh, At, Goto, roster
<1>4. ASSUME NEW t \in Server, UseCache(t) PROVE Fresh'
  BY <1>4 DEF UseCache, TypeOK, Fresh, At, Sees, Goto, roster
<1>5. ASSUME NEW t \in Server, Parse(t) PROVE Fresh'
  BY <1>5 DEF Parse, TypeOK, Fresh, At, Sees, Goto, roster
<1>6. ASSUME NEW t \in Server, Store(t) PROVE Fresh'
  BY <1>6 DEF Store, TypeOK, Fresh, At, Goto, roster
<1>7. ASSUME NEW t \in Server, Deny(t) PROVE Fresh'
  BY <1>7 DEF Deny, TypeOK, Fresh, At, End, roster, Goto, Sees
<1>8. ASSUME NEW l \in Logins, Verify(l) PROVE Fresh'
  BY <1>8 DEF Verify, TypeOK, Fresh, At, Goto, roster
<1>9. ASSUME NEW l \in Logins, NewSession(l) PROVE Fresh'
  BY <1>9 DEF NewSession, TypeOK, Fresh, At, End, roster, Goto, Sees
<1>10. ASSUME NEW c \in Changers, SessionUser(c) PROVE Fresh'
  <2>1. PICK how \in {"granted", "denied"} : End(c, how)
    BY <1>10 DEF SessionUser
  <2> QED
    BY <1>10, <2>1 DEF SessionUser, TypeOK, Fresh, End, Goto, Sees, At, roster
<1>11. ASSUME NEW l \in Logins, SessionEnds(l) PROVE Fresh'
  BY <1>11 DEF SessionEnds, TypeOK, Fresh, roster, locals, At
<1>12. ASSUME NEW c \in Changers, ChangeBegins(c) PROVE Fresh'
  BY <1>12 DEF ChangeBegins, TypeOK, Fresh, At, Goto, roster
<1>13. ASSUME NEW c \in Changers, VerifyOld(c) PROVE Fresh'
  BY <1>13 DEF VerifyOld, TypeOK, Fresh, At, End, roster, Goto, Sees
<1>14. ASSUME NEW k \in Resetters, ResetBegins(k) PROVE Fresh'
  BY <1>14 DEF ResetBegins, TypeOK, Fresh, At, Goto, roster
<1>15. ASSUME NEW w \in Writers, Lock(w) PROVE Fresh'
  BY <1>15 DEF Lock, TypeOK, Fresh, At, Goto
<1>16. ASSUME NEW w \in Writers, Read(w) PROVE Fresh'
  BY <1>16 DEF Read, TypeOK, Fresh, At, Sees, Goto, roster
<1>17. ASSUME NEW w \in Writers, Replace(w) PROVE Fresh'
  <2>1. stamp' = stamp + 1 /\ cache' = cache /\ looked' = looked
    BY <1>17 DEF Replace
  <2>2. stamp \in Nat /\ cache.stamp \in Nat /\ cache.stamp <= stamp
    BY DEF TypeOK, Fresh
  <2>3. cache'.stamp < stamp'
    BY <2>1, <2>2
  <2>4. \A t \in Server : looked'[t] < stamp'
    BY <2>1, <2>2 DEF TypeOK, Fresh, Threads
  <2> QED
    BY <2>3, <2>4, <2>1, <2>2 DEF Fresh, TypeOK, Threads
<1>18. ASSUME NEW w \in Writers, List(w) PROVE Fresh'
  BY <1>18 DEF List, TypeOK, Fresh, At, Goto, roster
<1>19. ASSUME NEW w \in Writers, NEW l \in Logins, Unlink(w, l) PROVE Fresh'
  BY <1>19 DEF Unlink, TypeOK, Fresh, At, roster
<1>20. ASSUME NEW w \in Writers, Finish(w) PROVE Fresh'
  BY <1>20 DEF Finish, TypeOK, Fresh, At, End, roster, Goto, Sees
<1>21. ASSUME NEW u \in Users, Edit(u) PROVE Fresh'
  <2>1. stamp' = stamp + 1 /\ cache' = cache /\ looked' = looked
    BY <1>21 DEF Edit, locals
  <2>2. stamp \in Nat /\ cache.stamp \in Nat /\ cache.stamp <= stamp
    BY DEF TypeOK, Fresh
  <2>3. cache'.stamp < stamp'
    BY <2>1, <2>2
  <2>4. \A t \in Server : looked'[t] < stamp'
    BY <2>1, <2>2 DEF TypeOK, Fresh, Threads
  <2> QED
    BY <2>3, <2>4, <2>1, <2>2 DEF Fresh, TypeOK, Threads
<1>22. ASSUME Crash PROVE Fresh'
  BY <1>22 DEF Crash, TypeOK, Fresh, Running, At, Threads
<1>23. ASSUME UNCHANGED vars PROVE Fresh'
  BY <1>23 DEF vars, TypeOK, Fresh, roster, locals, At
<1> QED
  BY <1>1, <1>2, <1>3, <1>4, <1>5, <1>6, <1>7, <1>8, <1>9, <1>10, <1>11, <1>12, <1>13,
    <1>14, <1>15, <1>16, <1>17, <1>18, <1>19, <1>20, <1>21, <1>22, <1>23 DEF Next, Looking

(* Requests of disabled accounts. *)
LEMMA RevokedStays == TypeOK /\ TypeOK' /\ Fresh /\ Revoked /\ [Next]_vars => Revoked'
<1> SUFFICES ASSUME TypeOK /\ TypeOK' /\ Fresh /\ Revoked, [Next]_vars PROVE Revoked'
  OBVIOUS
<1>1. ASSUME NEW l \in Logins, LoginBegins(l) PROVE Revoked'
  BY <1>1 DEF LoginBegins, TypeOK, Fresh, Revoked, Begin, At, Held, Goto, roster, Entry
<1>2. ASSUME NEW c \in Changers, NEW l \in Logins, RequestBegins(c, l) PROVE Revoked'
  BY <1>2 DEF RequestBegins, TypeOK, Fresh, Revoked, At, Begin, Held, Goto, roster, Entry
<1>3. ASSUME NEW t \in Server, Stat(t) PROVE Revoked'
  BY <1>3 DEF Stat, TypeOK, Fresh, Revoked, At, Goto, roster, Held, Entry
<1>4. ASSUME NEW t \in Server, UseCache(t) PROVE Revoked'
  BY <1>4 DEF UseCache, TypeOK, Fresh, Revoked, At, Sees, Goto, roster, Held, Entry
<1>5. ASSUME NEW t \in Server, Parse(t) PROVE Revoked'
  BY <1>5 DEF Parse, TypeOK, Fresh, Revoked, At, Sees, Goto, roster, Held, Entry
<1>6. ASSUME NEW t \in Server, Store(t) PROVE Revoked'
  BY <1>6 DEF Store, TypeOK, Fresh, Revoked, At, Goto, roster, Held, Entry
<1>7. ASSUME NEW t \in Server, Deny(t) PROVE Revoked'
  BY <1>7 DEF Deny, TypeOK, Fresh, Revoked, At, Entry, End, roster, Held, Goto, Sees
<1>8. ASSUME NEW l \in Logins, Verify(l) PROVE Revoked'
  BY <1>8 DEF Verify, TypeOK, Fresh, Revoked, At, Entry, Goto, roster, Held
<1>9. ASSUME NEW l \in Logins, NewSession(l) PROVE Revoked'
  BY <1>9 DEF NewSession, TypeOK, Fresh, Revoked, At, Entry, End, roster, Held, Goto, Sees
<1>10. ASSUME NEW c \in Changers, SessionUser(c) PROVE Revoked'
  <2>1. PICK how \in {"granted", "denied"} : End(c, how)
    BY <1>10 DEF SessionUser
  <2> QED
    BY <1>10, <2>1 DEF SessionUser, TypeOK, Revoked, Held, End, Goto, Sees, At, Entry,
      roster
<1>11. ASSUME NEW l \in Logins, SessionEnds(l) PROVE Revoked'
  BY <1>11 DEF SessionEnds, TypeOK, Fresh, Revoked, roster, locals, At, Held, Entry
<1>12. ASSUME NEW c \in Changers, ChangeBegins(c) PROVE Revoked'
  BY <1>12 DEF ChangeBegins, TypeOK, Fresh, Revoked, At, Goto, roster, Held, Entry
<1>13. ASSUME NEW c \in Changers, VerifyOld(c) PROVE Revoked'
  BY <1>13 DEF VerifyOld, TypeOK, Fresh, Revoked, At, Entry, End, roster, Held, Goto, Sees
<1>14. ASSUME NEW k \in Resetters, ResetBegins(k) PROVE Revoked'
  BY <1>14 DEF ResetBegins, TypeOK, Fresh, Revoked, At, Goto, roster, Held, Entry
<1>15. ASSUME NEW w \in Writers, Lock(w) PROVE Revoked'
  BY <1>15 DEF Lock, TypeOK, Fresh, Revoked, At, Goto, Held, Entry
<1>16. ASSUME NEW w \in Writers, Read(w) PROVE Revoked'
  BY <1>16 DEF Read, TypeOK, Fresh, Revoked, At, Sees, Goto, roster, Held, Entry
<1>17. ASSUME NEW w \in Writers, Replace(w) PROVE Revoked'
  BY <1>17 DEF Replace, TypeOK, Fresh, Revoked, At, End, Held, Goto, Sees, Entry
<1>18. ASSUME NEW w \in Writers, List(w) PROVE Revoked'
  BY <1>18 DEF List, TypeOK, Fresh, Revoked, At, Goto, roster, Held, Entry
<1>19. ASSUME NEW w \in Writers, NEW l \in Logins, Unlink(w, l) PROVE Revoked'
  BY <1>19 DEF Unlink, TypeOK, Fresh, Revoked, At, roster, Held, Entry
<1>20. ASSUME NEW w \in Writers, Finish(w) PROVE Revoked'
  BY <1>20 DEF Finish, TypeOK, Fresh, Revoked, At, End, roster, Held, Goto, Sees, Entry
<1>21. ASSUME NEW u \in Users, Edit(u) PROVE Revoked'
  BY <1>21 DEF Edit, TypeOK, Fresh, Revoked, locals, At, Held, Entry
<1>22. ASSUME Crash PROVE Revoked'
  BY <1>22 DEF Crash, TypeOK, Fresh, Revoked, Running, At, Held, Threads
<1>23. ASSUME UNCHANGED vars PROVE Revoked'
  BY <1>23 DEF vars, TypeOK, Fresh, Revoked, roster, locals, At, Held, Entry
<1> QED
  BY <1>1, <1>2, <1>3, <1>4, <1>5, <1>6, <1>7, <1>8, <1>9, <1>10, <1>11, <1>12, <1>13,
    <1>14, <1>15, <1>16, <1>17, <1>18, <1>19, <1>20, <1>21, <1>22, <1>23 DEF Next, Looking

(* The lock, and the passwords it protects. *)
LEMMA ExclusiveStays == TypeOK /\ TypeOK' /\ Exclusive /\ [Next]_vars => Exclusive'
<1> SUFFICES ASSUME TypeOK /\ TypeOK' /\ Exclusive, [Next]_vars PROVE Exclusive'
  OBVIOUS
<1>1. ASSUME NEW l \in Logins, LoginBegins(l) PROVE Exclusive'
  BY <1>1 DEF LoginBegins, TypeOK, Exclusive, Begin, ChangesStick, At, Goto, roster, history
<1>2. ASSUME NEW c \in Changers, NEW l \in Logins, RequestBegins(c, l) PROVE Exclusive'
  BY <1>2 DEF RequestBegins, TypeOK, Exclusive, At, Begin, ChangesStick, Goto, roster,
    history
<1>3. ASSUME NEW t \in Server, Stat(t) PROVE Exclusive'
  BY <1>3 DEF Stat, TypeOK, Exclusive, At, Goto, roster, history, ChangesStick
<1>4. ASSUME NEW t \in Server, UseCache(t) PROVE Exclusive'
  BY <1>4 DEF UseCache, TypeOK, Exclusive, At, Sees, Goto, roster, history, ChangesStick
<1>5. ASSUME NEW t \in Server, Parse(t) PROVE Exclusive'
  BY <1>5 DEF Parse, TypeOK, Exclusive, At, Sees, Goto, roster, history, ChangesStick
<1>6. ASSUME NEW t \in Server, Store(t) PROVE Exclusive'
  BY <1>6 DEF Store, TypeOK, Exclusive, At, Goto, roster, history, ChangesStick
<1>7. ASSUME NEW t \in Server, Deny(t) PROVE Exclusive'
  BY <1>7 DEF Deny, TypeOK, Exclusive, At, End, roster, history, ChangesStick, Goto, Sees
<1>8. ASSUME NEW l \in Logins, Verify(l) PROVE Exclusive'
  BY <1>8 DEF Verify, TypeOK, Exclusive, At, Goto, roster, history, ChangesStick
<1>9. ASSUME NEW l \in Logins, NewSession(l) PROVE Exclusive'
  BY <1>9 DEF NewSession, TypeOK, Exclusive, At, End, roster, ChangesStick, Goto, Sees
<1>10. ASSUME NEW c \in Changers, SessionUser(c) PROVE Exclusive'
  <2>1. PICK how \in {"granted", "denied"} : End(c, how)
    BY <1>10 DEF SessionUser
  <2> QED
    BY <1>10, <2>1 DEF SessionUser, TypeOK, Exclusive, ChangesStick, End, Goto, Sees, At,
      roster, history
<1>11. ASSUME NEW l \in Logins, SessionEnds(l) PROVE Exclusive'
  BY <1>11 DEF SessionEnds, TypeOK, Exclusive, roster, locals, history, ChangesStick, At
<1>12. ASSUME NEW c \in Changers, ChangeBegins(c) PROVE Exclusive'
  BY <1>12 DEF ChangeBegins, TypeOK, Exclusive, At, Goto, roster, history, ChangesStick
<1>13. ASSUME NEW c \in Changers, VerifyOld(c) PROVE Exclusive'
  BY <1>13 DEF VerifyOld, TypeOK, Exclusive, At, End, roster, history, ChangesStick, Goto,
    Sees
<1>14. ASSUME NEW k \in Resetters, ResetBegins(k) PROVE Exclusive'
  BY <1>14 DEF ResetBegins, TypeOK, Exclusive, At, Goto, roster, history, ChangesStick
<1>15. ASSUME NEW w \in Writers, Lock(w) PROVE Exclusive'
  BY <1>15, ThreadsAssumption DEF Lock, TypeOK, Exclusive, At, Goto, history, Writers,
    Server, ChangesStick, Threads
<1>16. ASSUME NEW w \in Writers, Read(w) PROVE Exclusive'
  BY <1>16 DEF Read, TypeOK, Exclusive, At, Sees, Goto, roster, history, ChangesStick
<1>17. ASSUME NEW w \in Writers, Replace(w) PROVE Exclusive'
  BY <1>17 DEF Replace, TypeOK, Exclusive, At, End, Entries, ChangesStick, Goto
<1>18. ASSUME NEW w \in Writers, List(w) PROVE Exclusive'
  BY <1>18 DEF List, TypeOK, Exclusive, At, Goto, roster, history, ChangesStick
<1>19. ASSUME NEW w \in Writers, NEW l \in Logins, Unlink(w, l) PROVE Exclusive'
  BY <1>19 DEF Unlink, TypeOK, Exclusive, At, roster, history, ChangesStick
<1>20. ASSUME NEW w \in Writers, Finish(w) PROVE Exclusive'
  BY <1>20 DEF Finish, TypeOK, Exclusive, At, End, roster, history, ChangesStick, Goto, Sees
<1>21. ASSUME NEW u \in Users, Edit(u) PROVE Exclusive'
  BY <1>21 DEF Edit, TypeOK, Exclusive, locals, history, ChangesStick, At
<1>22. ASSUME Crash PROVE Exclusive'
  BY <1>22 DEF Crash, TypeOK, Exclusive, Server, Running, history, Writers, ChangesStick, At, Threads
<1>23. ASSUME UNCHANGED vars PROVE Exclusive'
  BY <1>23 DEF vars, TypeOK, Exclusive, roster, locals, history, ChangesStick, At
<1> QED
  BY <1>1, <1>2, <1>3, <1>4, <1>5, <1>6, <1>7, <1>8, <1>9, <1>10, <1>11, <1>12, <1>13,
    <1>14, <1>15, <1>16, <1>17, <1>18, <1>19, <1>20, <1>21, <1>22, <1>23 DEF Next, Looking

(* The sweeps. *)
LEMMA SweptStays == TypeOK /\ TypeOK' /\ Swept /\ [Next]_vars => Swept'
<1> SUFFICES ASSUME TypeOK /\ TypeOK' /\ Swept, [Next]_vars PROVE Swept'
  OBVIOUS
<1>1. ASSUME NEW l \in Logins, LoginBegins(l) PROVE Swept'
  BY <1>1 DEF LoginBegins, TypeOK, Swept, Begin, Goto, history
<1>2. ASSUME NEW c \in Changers, NEW l \in Logins, RequestBegins(c, l) PROVE Swept'
  BY <1>2 DEF RequestBegins, TypeOK, Swept, Begin, Goto, history
<1>3. ASSUME NEW t \in Server, Stat(t) PROVE Swept'
  BY <1>3 DEF Stat, TypeOK, Swept, Goto, history
<1>4. ASSUME NEW t \in Server, UseCache(t) PROVE Swept'
  BY <1>4 DEF UseCache, TypeOK, Swept, Goto, history
<1>5. ASSUME NEW t \in Server, Parse(t) PROVE Swept'
  BY <1>5 DEF Parse, TypeOK, Swept, Goto, history
<1>6. ASSUME NEW t \in Server, Store(t) PROVE Swept'
  BY <1>6 DEF Store, TypeOK, Swept, Goto, history
<1>7. ASSUME NEW t \in Server, Deny(t) PROVE Swept'
  BY <1>7 DEF Deny, TypeOK, Swept, End, history, Goto
<1>8. ASSUME NEW l \in Logins, Verify(l) PROVE Swept'
  BY <1>8 DEF Verify, TypeOK, Swept, Goto, history
<1>9. ASSUME NEW l \in Logins, NewSession(l) PROVE Swept'
  BY <1>9 DEF NewSession, TypeOK, Swept, End, Goto
<1>10. ASSUME NEW c \in Changers, SessionUser(c) PROVE Swept'
  BY <1>10 DEF SessionUser, TypeOK, Swept, End, history, Writers, Server, Goto, Threads
<1>11. ASSUME NEW l \in Logins, SessionEnds(l) PROVE Swept'
  BY <1>11 DEF SessionEnds, TypeOK, Swept, locals, history
<1>12. ASSUME NEW c \in Changers, ChangeBegins(c) PROVE Swept'
  BY <1>12 DEF ChangeBegins, TypeOK, Swept, Goto, history
<1>13. ASSUME NEW c \in Changers, VerifyOld(c) PROVE Swept'
  BY <1>13 DEF VerifyOld, TypeOK, Swept, End, history, Goto
<1>14. ASSUME NEW k \in Resetters, ResetBegins(k) PROVE Swept'
  BY <1>14 DEF ResetBegins, TypeOK, Swept, Goto, history
<1>15. ASSUME NEW w \in Writers, Lock(w) PROVE Swept'
  BY <1>15 DEF Lock, TypeOK, Swept, Goto, history
<1>16. ASSUME NEW w \in Writers, Read(w) PROVE Swept'
  BY <1>16 DEF Read, TypeOK, Swept, Goto, history
<1>17. ASSUME NEW w \in Writers, Replace(w) PROVE Swept'
  BY <1>17 DEF Replace, TypeOK, Swept, End, Goto
<1>18. ASSUME NEW w \in Writers, List(w) PROVE Swept'
  BY <1>18 DEF List, TypeOK, Swept, Goto, history
<1>19. ASSUME NEW w \in Writers, NEW l \in Logins, Unlink(w, l) PROVE Swept'
  BY <1>19 DEF Unlink, TypeOK, Swept, history
<1>20. ASSUME NEW w \in Writers, Finish(w) PROVE Swept'
  BY <1>20 DEF Finish, TypeOK, Swept, At, End, history, Goto
<1>21. ASSUME NEW u \in Users, Edit(u) PROVE Swept'
  BY <1>21 DEF Edit, TypeOK, Swept, locals, history
<1>22. ASSUME Crash PROVE Swept'
  BY <1>22 DEF Crash, TypeOK, Swept, Server, Running, history, Writers, Threads
<1>23. ASSUME UNCHANGED vars PROVE Swept'
  BY <1>23 DEF vars, TypeOK, Swept, locals, history
<1> QED
  BY <1>1, <1>2, <1>3, <1>4, <1>5, <1>6, <1>7, <1>8, <1>9, <1>10, <1>11, <1>12, <1>13,
    <1>14, <1>15, <1>16, <1>17, <1>18, <1>19, <1>20, <1>21, <1>22, <1>23 DEF Next, Looking

-----------------------------------------------------------------------------
LEMMA InitHolds == Init => IInv
<1> SUFFICES ASSUME Init PROVE IInv
  OBVIOUS
<1>1. TypeOK
  BY BoundsAssumption, AccountsAssumption DEF Init, TypeOK, Blank, Entries
<1>2. Fresh /\ Revoked
  BY DEF Init, Fresh, Revoked, Threads
<1>3. Exclusive
  BY DEF Init, Exclusive, ChangesStick, Blank, Server, Writers, Threads
<1>4. Swept
  BY <1>1 DEF Init, Swept, TypeOK, Server, Writers, Threads
<1> QED
  BY <1>1, <1>2, <1>3, <1>4 DEF IInv

(* The inductive invariant: what the cache can say of a disabled account,   *)
(* who may write the file, and which markers are still to be unlinked.      *)
THEOREM Invariance == Spec => []IInv
<1>1. IInv /\ [Next]_vars => IInv'
  BY TypesStay, FreshStays, RevokedStays, ExclusiveStays, SweptStays DEF IInv
<1> QED
  BY <1>1, InitHolds, PTL DEF Spec

(* The state stays within its type, whatever the threads interleave.        *)
THEOREM TypeCorrect == Spec => []TypeOK
<1>1. IInv => TypeOK
  BY DEF IInv
<1> QED
  BY <1>1, Invariance, PTL

(* A request that begins after an account is disabled gets neither a        *)
(* session nor in, although the roster's cache is not locked                *)
(* (Roster.entries): it is stored with the stamp from before the file was   *)
(* read, so that no old entries ever pass for the current ones.             *)
THEOREM RevocationIsFinal == Spec => []RevocationReaches
<1>1. IInv => RevocationReaches
  BY DEF IInv, Revoked, Held, RevocationReaches
<1> QED
  BY <1>1, Invariance, PTL

(* No rewrite of the user file undoes another: what is written back was     *)
(* read under the lock, past the cache (Roster.set_password).               *)
THEOREM NoChangeIsLost == Spec => []ChangesStick
<1>1. IInv => ChangesStick
  BY DEF IInv, Exclusive
<1> QED
  BY <1>1, Invariance, PTL

(* A sweep that is through has unlinked every marker that was there when    *)
(* the password was replaced, except its own.                               *)
THEOREM SweepsAreComplete == Spec => []SweepIsComplete
<1>1. IInv => SweepIsComplete
  BY DEF IInv, Swept, SweepIsComplete, At
<1> QED
  BY <1>1, Invariance, PTL
=============================================================================
