------------------------------ MODULE RateLimiter ------------------------------
(***************************************************************************)
(* ratelimit.py: one sliding-window limiter, shared by the request threads *)
(* and swept by the janitor.  A check reads the clock BEFORE it takes the  *)
(* lock, so readings enter the lists in an order that need not be the      *)
(* order in which they were taken.                                         *)
(*                                                                         *)
(* An admitted check is a number, its place in log; the list the limiter   *)
(* keeps for a key is the set of those of its admissions it still knows,   *)
(* and the last element v[-1] of the list is the largest of them.          *)
(*                                                                         *)
(* LimitsProofs extends this module and Polls, hence the prefix of the     *)
(* names that every specification has.                                     *)
(***************************************************************************)
EXTENDS Integers, FiniteSets, Sequences

CONSTANTS
    Keys,           \* the keys checks are made for: "<ip>/<user>", a user, ...
    Threads,        \* request threads
    Limit, Window,  \* RateLimiter.limit, RateLimiter.window
    MaxKeys,        \* RateLimiter.max_keys
    EvictInterval,  \* RateLimiter.EVICT_INTERVAL
    MaxClock,       \* bound on the clock
    MaxChecks       \* bound on the checks admitted

ASSUME LimiterAssumption ==
    /\ Limit \in Nat \ {0}
    /\ Window \in Nat \ {0}
    /\ MaxKeys \in Nat
    /\ EvictInterval \in Nat
    /\ MaxClock \in Nat
    /\ MaxChecks \in Nat

VARIABLES
    clock,          \* time.monotonic()
    hits,           \* _hits: the keys of the table, and the admissions known of each
    lastEvict,      \* _last_evict
    asks,           \* the key a thread is in check() for, or {} (a set of at most one)
    read,           \* what the thread, or the janitor, has read from the clock
    sweeping,       \* the janitor is in sweep()
    log,            \* history: the admitted checks; late: older than the last eviction
    seen,           \* history: the newest reading that pruned, or entered, a key's list
    overtaken       \* history: keys that admitted a check older than seen

limiterVars == <<clock, hits, lastEvict, asks, read, sweeping, log, seen, overtaken>>

Janitor == "janitor"

Last(is) == {i \in is : \A j \in is : j <= i}      \* v[-1]

(***************************************************************************)
(* The keys whose window has passed, by their last hit.                    *)
(***************************************************************************)
ExpiredSlip(table, now) == {k \in DOMAIN table : \E i \in table[k] : now - log[i].at >= Window}
Expired(table, now) == {k \in DOMAIN table : \E i \in Last(table[k]) : now - log[i].at >= Window}

Drop(table, ks) == [k \in DOMAIN table \ ks |-> table[k]]
NewerOf(a, b) == IF a >= b THEN a ELSE b

LimiterInit ==
    /\ clock = 0
    /\ hits = [k \in {} |-> {}]
    /\ lastEvict = 0
    /\ asks = [t \in Threads |-> {}]
    /\ read = [x \in Threads \cup {Janitor} |-> 0]
    /\ sweeping = FALSE
    /\ log = <<>>
    /\ seen = [k \in Keys |-> 0]
    /\ overtaken = {}

Tick ==
    /\ clock < MaxClock
    /\ clock' = clock + 1
    /\ UNCHANGED <<hits, lastEvict, asks, read, sweeping, log, seen, overtaken>>

(***************************************************************************)
(* check(key): the clock is read outside of the lock.                      *)
(***************************************************************************)
Begin(t, k) ==
    /\ asks[t] = {}
    /\ asks' = [asks EXCEPT ![t] = {k}]
    /\ read' = [read EXCEPT ![t] = clock]
    /\ UNCHANGED <<clock, hits, lastEvict, sweeping, log, seen, overtaken>>

(***************************************************************************)
(* A check is over; the reading, a local variable, is gone with it.        *)
(***************************************************************************)
Done(t) == asks' = [asks EXCEPT ![t] = {}] /\ read' = [read EXCEPT ![t] = 0]

Full(table) == Cardinality(DOMAIN table) >= MaxKeys
Newcomer(t) == \A k \in asks[t] : k \notin DOMAIN hits /\ Full(hits)
MayEvict(t) == Newcomer(t) /\ read[t] - lastEvict >= EvictInterval

(***************************************************************************)
(* The table after the eviction that a full one may be due, and the keys   *)
(* that go.                                                                *)
(***************************************************************************)
Evicted(t) == IF MayEvict(t) THEN Expired(hits, read[t]) ELSE {}
EvictSlip(t) == lastEvict' = IF Newcomer(t) THEN read[t] ELSE lastEvict
Evict(t) == lastEvict' = IF MayEvict(t) THEN read[t] ELSE lastEvict

Turned(ks, now) == [k \in Keys |-> IF k \in ks THEN NewerOf(seen[k], now) ELSE seen[k]]

(***************************************************************************)
(* Still full: the newcomer is refused.                                    *)
(***************************************************************************)
RefuseFull(t) ==
    /\ asks[t] # {}
    /\ Newcomer(t)
    /\ Full(Drop(hits, Evicted(t)))
    /\ Evict(t)
    /\ hits' = Drop(hits, Evicted(t))
    /\ seen' = Turned(Evicted(t), read[t])
    /\ Done(t)
    /\ UNCHANGED <<clock, sweeping, log, overtaken>>

(***************************************************************************)
(* What is left of the key's list at this reading.                         *)
(***************************************************************************)
KeptSlip(t, k) == IF k \in DOMAIN hits THEN {i \in hits[k] : read[t] - log[i].at < Window - 1} ELSE {}
Kept(t, k) == IF k \in DOMAIN hits THEN {i \in hits[k] : read[t] - log[i].at < Window} ELSE {}

RefuseLimit(t) ==
    \E k \in asks[t] :
        /\ k \in DOMAIN hits
        /\ Cardinality(Kept(t, k)) >= Limit
        /\ hits' = [hits EXCEPT ![k] = Kept(t, k)]
        /\ seen' = Turned({k}, read[t])
        /\ Done(t)
            /\ UNCHANGED <<clock, lastEvict, sweeping, log, overtaken>>

Admits(t, k) ==
    LET table == Drop(hits, Evicted(t))
        n == Len(log) + 1
    IN  /\ Cardinality(Kept(t, k)) < Limit
        /\ Evict(t)
        /\ hits' = [x \in DOMAIN table \cup {k} |-> IF x = k THEN Kept(t, k) \cup {n} ELSE table[x]]
        /\ log' = Append(log, [key |-> k, at |-> read[t], late |-> read[t] < lastEvict])
        /\ seen' = Turned(Evicted(t) \cup {k}, read[t])
        /\ overtaken' = IF read[t] < seen[k] THEN overtaken \cup {k} ELSE overtaken
        /\ Done(t)
            /\ UNCHANGED <<clock, sweeping>>

AdmitSlip(t) == \E k \in asks[t] : Len(log) < MaxChecks /\ Admits(t, k)
Admit(t) ==
    \E k \in asks[t] :
        /\ Len(log) < MaxChecks
        /\ ~(Newcomer(t) /\ Full(Drop(hits, Evicted(t))))
        /\ Admits(t, k)

(***************************************************************************)
(* sweep(): the janitor drops the keys whose window has passed.            *)
(***************************************************************************)
SweepBegins ==
    /\ ~sweeping
    /\ sweeping' = TRUE
    /\ read' = [read EXCEPT ![Janitor] = clock]
    /\ UNCHANGED <<clock, hits, lastEvict, asks, log, seen, overtaken>>

Sweep ==
    /\ sweeping
    /\ sweeping' = FALSE
    /\ read' = [read EXCEPT ![Janitor] = 0]
    /\ hits' = Drop(hits, Expired(hits, read[Janitor]))
    /\ seen' = Turned(Expired(hits, read[Janitor]), read[Janitor])
    /\ UNCHANGED <<clock, lastEvict, asks, log, overtaken>>

LimiterCheck(t) == RefuseFull(t) \/ RefuseLimit(t) \/ Admit(t)

LimiterNext ==
    \/ Tick
    \/ \E t \in Threads : (\E k \in Keys : Begin(t, k)) \/ LimiterCheck(t)
    \/ SweepBegins
    \/ Sweep

LimiterSpec == LimiterInit /\ [][LimiterNext]_limiterVars

-----------------------------------------------------------------------------
(***************************************************************************)
(* The type of the state: the table knows admissions of the key only, and  *)
(* never keeps a key without one.                                          *)
(***************************************************************************)
LimiterTypeOK ==
    /\ clock \in 0..MaxClock
    /\ lastEvict \in 0..MaxClock
    /\ asks \in [Threads -> SUBSET Keys]
    /\ read \in [Threads \cup {Janitor} -> 0..MaxClock]
    /\ sweeping \in BOOLEAN
    /\ log \in Seq([key : Keys, at : 0..MaxClock, late : BOOLEAN])
    /\ seen \in [Keys -> 0..MaxClock]
    /\ overtaken \in SUBSET Keys
    /\ DOMAIN hits \in SUBSET Keys
    /\ \A k \in DOMAIN hits : hits[k] # {} /\ hits[k] \subseteq {i \in 1..Len(log) : log[i].key = k}

(***************************************************************************)
(* The admissions of the same key in the window that ends with admission i.*)
(***************************************************************************)
InWindow(i) == {j \in 1..i : log[j].key = log[i].key /\ log[j].at > log[i].at - Window}

(***************************************************************************)
(* A key gets Limit admissions per window, evictions and sweeps in between *)
(* notwithstanding (ratelimit.py:44, :54, :64): a table that forgets a key *)
(* forgets nothing that counts.  The exception is a key one of whose       *)
(* checks was overtaken between its clock reading and the lock.            *)
(***************************************************************************)
WindowHolds ==
    \A i \in 1..Len(log) :
        log[i].key \in overtaken \/ Cardinality(InWindow(i)) <= Limit

(***************************************************************************)
(* The documented bound (ratelimit.py:47-50): no sequence of new keys grows*)
(* the table beyond max_keys.                                              *)
(***************************************************************************)
TableBounded == Cardinality(DOMAIN hits) <= MaxKeys

(***************************************************************************)
(* A 429 has a cause.  For the limit: Limit checks of this key were        *)
(* admitted within the window.  For a full table: every key in it was      *)
(* admitted within a window and one EVICT_INTERVAL, so an idle key shuts   *)
(* nobody out for longer than that interval (ratelimit.py:15-21).  The     *)
(* exceptions are keys whose last check was overtaken by another check or  *)
(* by the last eviction.                                                   *)
(***************************************************************************)
Recent(k, now, age) == {i \in 1..Len(log) : log[i].key = k /\ now - log[i].at < age}
InTime(k) == k \notin overtaken /\ \A i \in Last(hits[k]) : ~log[i].late
RefusedForCause ==
    [][\A t \in Threads :
        /\ RefuseLimit(t) =>
             \E k \in asks[t] : Cardinality(Recent(k, read[t], Window)) >= Limit
        /\ RefuseFull(t) =>
             \A k \in DOMAIN hits' :
                InTime(k) => Recent(k, read[t], Window + EvictInterval) # {}]_limiterVars
=============================================================================
