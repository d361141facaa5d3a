----------------------------- MODULE LimitsProofs -----------------------------
(* Proofs about what bounds the load of a server: RateLimiter, for every set of
   keys and threads, every limit, window, table size and eviction interval, and
   Polls, for every number of connections, users, slots and polls per user.   *)
EXTENDS RateLimiter, Polls, FiniteSetTheorems, SequenceTheorems, TLAPS

-----------------------------------------------------------------------------
(* RateLimiter                                                               *)

(* A thread checks one key at a time. *)
OneKey == \A t \in Threads : \A k, l \in asks[t] : k = l

(* The table is finite and within its bound. *)
Bounded == IsFiniteSet(DOMAIN hits) /\ TableBounded

(* The admissions of a key that no check of it was overtaken on are in the
   order of their stamps ... *)
Ordered ==
    \A k \in Keys \ overtaken : \A i \in 1..Len(log) :
        log[i].key = k =>
            /\ log[i].at <= seen[k]
            /\ \A j \in i..Len(log) : log[j].key = k => log[i].at <= log[j].at

(* ... and those that count at the newest reading are all in the table. *)
Remembered ==
    \A k \in Keys \ overtaken : \A i \in 1..Len(log) :
        log[i].key = k /\ seen[k] - log[i].at < Window =>
            k \in DOMAIN hits /\ i \in hits[k]

LimiterInv == LimiterTypeOK /\ OneKey /\ Bounded /\ Ordered /\ Remembered /\ WindowHolds

-----------------------------------------------------------------------------
(* An entry of the log has a key and a stamp. *)
LEMMA LogType ==
    ASSUME LimiterTypeOK, NEW i \in 1..Len(log)
    PROVE  log[i].key \in Keys /\ log[i].at \in 0..MaxClock
<1>1. log \in Seq([key : Keys, at : 0..MaxClock, late : BOOLEAN])
  BY DEF LimiterTypeOK
<1>2. log[i] \in [key : Keys, at : 0..MaxClock, late : BOOLEAN]
  BY <1>1, ElementOfSeq
<1> QED
  BY <1>2

(* What a dropped key forgets no longer counts at the reading it is dropped at,
   nor at any later one. *)
LEMMA ExpiredIsOver ==
    ASSUME LimiterInv, NEW now \in 0..MaxClock, NEW k \in Expired(hits, now), k \notin overtaken,
           NEW i \in 1..Len(log), log[i].key = k
    PROVE  NewerOf(seen[k], now) - log[i].at >= Window
<1>1. k \in DOMAIN hits /\ k \in Keys
  BY DEF Expired, LimiterInv, LimiterTypeOK
<1>2. PICK l \in hits[k] : now - log[l].at >= Window /\ \A j \in hits[k] : j <= l
  BY DEF Expired, Last
<1>3. l \in 1..Len(log) /\ log[l].key = k /\ i \in Nat /\ l \in Nat
  BY <1>1 DEF LimiterInv, LimiterTypeOK
<1>4. log[i].at \in Nat /\ log[l].at \in Nat /\ seen[k] \in Nat /\ now \in Nat
  <2>1. log[i].at \in 0..MaxClock /\ log[l].at \in 0..MaxClock
    BY <1>3, LogType DEF LimiterInv
  <2>2. seen[k] \in 0..MaxClock
    BY <1>1 DEF LimiterInv, LimiterTypeOK
  <2> QED
    BY <2>1, <2>2, LimiterAssumption
<1>5. CASE i \in hits[k]
  <2>1. log[i].at <= log[l].at
    BY <1>1, <1>2, <1>3, <1>5 DEF LimiterInv, Ordered
  <2> QED
    BY <1>2, <1>4, <2>1, LimiterAssumption DEF NewerOf
<1>6. CASE i \notin hits[k]
  <2>1. ~(seen[k] - log[i].at < Window)
    BY <1>1, <1>6 DEF LimiterInv, Remembered
  <2> QED
    BY <1>4, <2>1, LimiterAssumption DEF NewerOf
<1> QED
  BY <1>5, <1>6

(* Dropping expired keys keeps the rest of the invariant. *)
LEMMA DropKeeps ==
    ASSUME LimiterInv, NEW now \in 0..MaxClock, NEW ks \in SUBSET Expired(hits, now),
           hits' = Drop(hits, ks), seen' = Turned(ks, now),
           UNCHANGED <<clock, log, overtaken>>
    PROVE  /\ Bounded' /\ Ordered' /\ Remembered' /\ WindowHolds'
           /\ seen' \in [Keys -> 0..MaxClock]
           /\ DOMAIN hits' \in SUBSET Keys
           /\ \A k \in DOMAIN hits' :
                hits'[k] # {} /\ hits'[k] \subseteq {i \in 1..Len(log) : log[i].key = k}
<1> USE LimiterAssumption
<1>1. DOMAIN hits' = DOMAIN hits \ ks /\ \A k \in DOMAIN hits' : hits'[k] = hits[k]
  BY DEF Drop
<1>2. \A k \in Keys : seen[k] \in 0..MaxClock /\ seen'[k] \in 0..MaxClock /\ seen[k] <= seen'[k]
                      /\ seen'[k] = IF k \in ks THEN NewerOf(seen[k], now) ELSE seen[k]
  BY DEF Turned, NewerOf, LimiterInv, LimiterTypeOK
<1>3. Bounded'
  <2>1. IsFiniteSet(DOMAIN hits') /\ Cardinality(DOMAIN hits') <= Cardinality(DOMAIN hits)
    BY <1>1, FS_Subset DEF LimiterInv, Bounded
  <2>2. Cardinality(DOMAIN hits) \in Nat /\ Cardinality(DOMAIN hits') \in Nat
    BY <2>1, FS_CardinalityType DEF LimiterInv, Bounded
  <2> QED
    BY <2>1, <2>2 DEF LimiterInv, Bounded, TableBounded
<1>4. Ordered'
  <2> SUFFICES ASSUME NEW k \in Keys \ overtaken, NEW i \in 1..Len(log), log[i].key = k
               PROVE  log[i].at <= seen'[k]
                      /\ \A j \in i..Len(log) : log[j].key = k => log[i].at <= log[j].at
    BY DEF Ordered
  <2>1. log[i].at <= seen[k] /\ \A j \in i..Len(log) : log[j].key = k => log[i].at <= log[j].at
    BY DEF LimiterInv, Ordered
  <2>2. log[i].at \in 0..MaxClock
    BY LogType DEF LimiterInv
  <2> QED
    BY <1>2, <2>1, <2>2
<1>5. Remembered'
  <2> SUFFICES ASSUME NEW k \in Keys \ overtaken, NEW i \in 1..Len(log), log[i].key = k,
                      seen'[k] - log[i].at < Window
               PROVE  k \in DOMAIN hits' /\ i \in hits'[k]
    BY DEF Remembered
  <2>1. log[i].at \in 0..MaxClock
    BY LogType DEF LimiterInv
  <2>2. k \notin ks
    <3> SUFFICES ASSUME k \in ks PROVE FALSE
      OBVIOUS
    <3>1. NewerOf(seen[k], now) - log[i].at >= Window
      BY ExpiredIsOver
    <3>2. seen'[k] - log[i].at >= Window
      BY <1>2, <3>1
    <3> QED
      BY <1>2, <2>1, <3>2
  <2>3. k \in DOMAIN hits /\ i \in hits[k]
    BY <1>2, <2>2 DEF LimiterInv, Remembered
  <2> QED
    BY <1>1, <2>2, <2>3
<1>6. WindowHolds'
  BY DEF LimiterInv, WindowHolds, InWindow
<1>7. seen' \in [Keys -> 0..MaxClock]
  BY <1>2 DEF Turned
<1>8. DOMAIN hits' \in SUBSET Keys
      /\ \A k \in DOMAIN hits' :
            hits'[k] # {} /\ hits'[k] \subseteq {i \in 1..Len(log) : log[i].key = k}
  BY <1>1 DEF LimiterInv, LimiterTypeOK
<1> QED
  BY <1>3, <1>4, <1>5, <1>6, <1>7, <1>8

(* A step that leaves the table and the log alone. *)
LEMMA IdleKeeps ==
    ASSUME LimiterInv, LimiterTypeOK', OneKey', UNCHANGED <<hits, log, seen, overtaken>>
    PROVE  LimiterInv'
BY DEF LimiterInv, Bounded, TableBounded, Ordered, Remembered, WindowHolds, InWindow

(* What Kept keeps. *)
LEMMA KeptFinite ==
    ASSUME LimiterInv, NEW t \in Threads, NEW k \in Keys
    PROVE  /\ Kept(t, k) \subseteq {i \in 1..Len(log) : log[i].key = k}
           /\ IsFiniteSet(Kept(t, k))
           /\ Cardinality(Kept(t, k)) \in Nat
<1>1. Kept(t, k) \subseteq {i \in 1..Len(log) : log[i].key = k}
  BY DEF Kept, LimiterInv, LimiterTypeOK
<1>2. Len(log) \in Nat
  BY DEF LimiterInv, LimiterTypeOK
<1>3. IsFiniteSet(1..Len(log))
  BY <1>2, FS_Interval
<1>4. Kept(t, k) \in SUBSET (1..Len(log))
  BY <1>1
<1>5. IsFiniteSet(Kept(t, k))
  BY <1>3, <1>4, FS_Subset
<1> QED
  BY <1>1, <1>5, FS_CardinalityType

(* A check that is over leaves one key per thread, and no reading. *)
LEMMA DoneType ==
    ASSUME LimiterInv, NEW t \in Threads, Done(t)
    PROVE  /\ asks' \in [Threads -> SUBSET Keys]
           /\ read' \in [Threads \cup {Janitor} -> 0..MaxClock]
           /\ OneKey'
BY LimiterAssumption DEF LimiterInv, LimiterTypeOK, Done, OneKey

LEMMA RefuseFullStep == ASSUME LimiterInv, NEW t \in Threads, RefuseFull(t) PROVE LimiterInv'
<1>1. read[t] \in 0..MaxClock
  BY DEF LimiterInv, LimiterTypeOK
<1>2. Evicted(t) \in SUBSET Expired(hits, read[t])
  BY DEF Evicted
<1>3. /\ Bounded' /\ Ordered' /\ Remembered' /\ WindowHolds'
      /\ seen' \in [Keys -> 0..MaxClock]
      /\ DOMAIN hits' \in SUBSET Keys
      /\ \A k \in DOMAIN hits' :
            hits'[k] # {} /\ hits'[k] \subseteq {i \in 1..Len(log) : log[i].key = k}
  BY <1>1, <1>2, DropKeeps DEF RefuseFull
<1>4. lastEvict' \in 0..MaxClock
  BY <1>1 DEF RefuseFull, Evict, LimiterInv, LimiterTypeOK
<1>5. LimiterTypeOK'
  BY <1>3, <1>4, DoneType DEF RefuseFull, LimiterInv, LimiterTypeOK
<1> QED
  BY <1>3, <1>5, DoneType DEF RefuseFull, LimiterInv

LEMMA SweepStep == ASSUME LimiterInv, Sweep PROVE LimiterInv'
<1> USE LimiterAssumption
<1>1. read[Janitor] \in 0..MaxClock
  BY DEF LimiterInv, LimiterTypeOK
<1>2. /\ Bounded' /\ Ordered' /\ Remembered' /\ WindowHolds'
      /\ seen' \in [Keys -> 0..MaxClock]
      /\ DOMAIN hits' \in SUBSET Keys
      /\ \A k \in DOMAIN hits' :
            hits'[k] # {} /\ hits'[k] \subseteq {i \in 1..Len(log) : log[i].key = k}
  BY <1>1, DropKeeps DEF Sweep
<1>3. LimiterTypeOK'
  <2>1. read' \in [Threads \cup {Janitor} -> 0..MaxClock]
    BY DEF Sweep, LimiterInv, LimiterTypeOK
  <2>2. clock' = clock /\ lastEvict' = lastEvict /\ asks' = asks /\ log' = log
        /\ overtaken' = overtaken /\ sweeping' = FALSE
    BY DEF Sweep
  <2> QED
    BY <1>2, <2>1, <2>2 DEF LimiterInv, LimiterTypeOK
<1> QED
  BY <1>2, <1>3 DEF Sweep, LimiterInv, OneKey

LEMMA RefuseLimitStep == ASSUME LimiterInv, NEW t \in Threads, RefuseLimit(t) PROVE LimiterInv'
<1> USE LimiterAssumption
<1>0. PICK k \in asks[t] :
        /\ k \in DOMAIN hits
        /\ Cardinality(Kept(t, k)) >= Limit
        /\ hits' = [hits EXCEPT ![k] = Kept(t, k)]
        /\ seen' = Turned({k}, read[t])
        /\ Done(t)
        /\ UNCHANGED <<clock, lastEvict, sweeping, log, overtaken>>
  BY DEF RefuseLimit
<1>1. k \in Keys /\ read[t] \in 0..MaxClock
  BY <1>0 DEF LimiterInv, LimiterTypeOK
<1>2. \A x \in Keys : seen[x] \in 0..MaxClock /\ seen'[x] \in 0..MaxClock /\ seen[x] <= seen'[x]
                      /\ seen'[x] = IF x = k THEN NewerOf(seen[k], read[t]) ELSE seen[x]
  BY SMTT(30), <1>0, <1>1 DEF Turned, NewerOf, LimiterInv, LimiterTypeOK
<1>3. Kept(t, k) # {}
  BY <1>0, <1>1, KeptFinite, FS_EmptySet
<1>4. LimiterTypeOK'
  <2>1. seen' \in [Keys -> 0..MaxClock]
    BY <1>0, <1>2 DEF Turned
  <2>2. DOMAIN hits' = DOMAIN hits
        /\ \A x \in DOMAIN hits' : hits'[x] = IF x = k THEN Kept(t, k) ELSE hits[x]
    BY <1>0
  <2>3. \A x \in DOMAIN hits' :
            hits'[x] # {} /\ hits'[x] \subseteq {i \in 1..Len(log) : log[i].key = x}
    <3>1. Kept(t, k) \subseteq {i \in 1..Len(log) : log[i].key = k}
      BY <1>1, KeptFinite
    <3>2. \A x \in DOMAIN hits :
            hits[x] # {} /\ hits[x] \subseteq {i \in 1..Len(log) : log[i].key = x}
      BY DEF LimiterInv, LimiterTypeOK
    <3> QED
      BY <1>3, <2>2, <3>1, <3>2
  <2> QED
    BY <1>0, <2>1, <2>2, <2>3, DoneType DEF LimiterInv, LimiterTypeOK
<1>5. Bounded'
  BY <1>0 DEF LimiterInv, Bounded, TableBounded
<1>6. Ordered'
  <2> SUFFICES ASSUME NEW x \in Keys \ overtaken, NEW i \in 1..Len(log), log[i].key = x
               PROVE  log[i].at <= seen'[x]
                      /\ \A j \in i..Len(log) : log[j].key = x => log[i].at <= log[j].at
    BY <1>0 DEF Ordered
  <2>1. log[i].at <= seen[x] /\ \A j \in i..Len(log) : log[j].key = x => log[i].at <= log[j].at
    BY DEF LimiterInv, Ordered
  <2>2. log[i].at \in 0..MaxClock
    BY LogType DEF LimiterInv
  <2> QED
    BY <1>2, <2>1, <2>2
<1>7. Remembered'
  <2> SUFFICES ASSUME NEW x \in Keys \ overtaken, NEW i \in 1..Len(log), log[i].key = x,
                      seen'[x] - log[i].at < Window
               PROVE  x \in DOMAIN hits' /\ i \in hits'[x]
    BY <1>0 DEF Remembered
  <2>1. log[i].at \in 0..MaxClock
    BY LogType DEF LimiterInv
  <2>2. x \in DOMAIN hits /\ i \in hits[x]
    BY <1>2, <2>1 DEF LimiterInv, Remembered
  <2>3. x = k => read[t] - log[i].at < Window
    BY <1>1, <1>2, <2>1 DEF NewerOf
  <2> QED
    BY <1>0, <2>2, <2>3 DEF Kept
<1>8. WindowHolds'
  BY <1>0 DEF LimiterInv, WindowHolds, InWindow
<1> QED
  BY <1>0, <1>4, <1>5, <1>6, <1>7, <1>8, DoneType DEF LimiterInv

(* The admission of a check: what it drops is over, what it keeps counts, and
   if its reading is the newest of its key, what it keeps is all that counts. *)
LEMMA AdmitStep == ASSUME LimiterInv, NEW t \in Threads, Admit(t) PROVE LimiterInv'
<1> USE LimiterAssumption
<1> DEFINE n == Len(log) + 1
           table == Drop(hits, Evicted(t))
<1>1. PICK k \in asks[t] : Len(log) < MaxChecks /\ ~(Newcomer(t) /\ Full(table)) /\ Admits(t, k)
  BY DEF Admit
<1>2. k \in Keys /\ read[t] \in 0..MaxClock /\ Len(log) \in Nat /\ lastEvict \in 0..MaxClock
  BY DEF LimiterInv, LimiterTypeOK
<1>3. log \in Seq([key : Keys, at : 0..MaxClock, late : BOOLEAN])
  BY DEF LimiterInv, LimiterTypeOK
<1>4. [key |-> k, at |-> read[t], late |-> read[t] < lastEvict]
        \in [key : Keys, at : 0..MaxClock, late : BOOLEAN]
  BY <1>2
<1>5. /\ log' \in Seq([key : Keys, at : 0..MaxClock, late : BOOLEAN])
      /\ Len(log') = n /\ \A i \in 1..Len(log) : log'[i] = log[i]
      /\ log'[n].key = k /\ log'[n].at = read[t]
  BY <1>1, <1>3, <1>4, AppendProperties DEF Admits
<1>6. /\ Cardinality(Kept(t, k)) < Limit
      /\ hits' = [x \in DOMAIN table \cup {k} |-> IF x = k THEN Kept(t, k) \cup {n} ELSE table[x]]
      /\ seen' = Turned(Evicted(t) \cup {k}, read[t])
      /\ overtaken' = IF read[t] < seen[k] THEN overtaken \cup {k} ELSE overtaken
      /\ Done(t) /\ Evict(t) /\ UNCHANGED <<clock, sweeping>>
  BY <1>1 DEF Admits
<1>7. Evicted(t) \in SUBSET Expired(hits, read[t])
  BY DEF Evicted
<1>8. DOMAIN table = DOMAIN hits \ Evicted(t) /\ \A x \in DOMAIN table : table[x] = hits[x]
  BY DEF Drop
<1>9. \A x \in Keys : /\ seen[x] \in 0..MaxClock /\ seen'[x] \in 0..MaxClock /\ seen[x] <= seen'[x]
                      /\ seen'[x] = IF x \in Evicted(t) \cup {k} THEN NewerOf(seen[x], read[t])
                                                              ELSE seen[x]
  BY <1>2, <1>6 DEF Turned, NewerOf, LimiterInv, LimiterTypeOK
<1>10. LimiterTypeOK'
  <2>1. \A x \in DOMAIN hits' :
            hits'[x] # {} /\ hits'[x] \subseteq {i \in 1..Len(log') : log'[i].key = x}
    <3> SUFFICES ASSUME NEW x \in DOMAIN hits'
                 PROVE  hits'[x] # {} /\ hits'[x] \subseteq {i \in 1..Len(log') : log'[i].key = x}
      OBVIOUS
    <3>1. CASE x = k
      <4>1. Kept(t, k) \subseteq {i \in 1..Len(log) : log[i].key = k}
        BY <1>2, KeptFinite
      <4>2. hits'[x] = Kept(t, k) \cup {n}
        BY <1>6, <3>1
      <4> QED
        BY <1>2, <1>5, <3>1, <4>1, <4>2
    <3>2. CASE x # k
      <4>1. x \in DOMAIN hits /\ hits'[x] = hits[x]
        BY <1>6, <1>8, <3>2
      <4>2. hits[x] # {} /\ hits[x] \subseteq {i \in 1..Len(log) : log[i].key = x}
        BY <4>1 DEF LimiterInv, LimiterTypeOK
      <4>3. \A i \in 1..Len(log) : i \in 1..Len(log') /\ log'[i] = log[i]
        BY <1>2, <1>5
      <4> QED
        BY <4>1, <4>2, <4>3
    <3> QED
      BY <3>1, <3>2
  <2>2. DOMAIN hits' \in SUBSET Keys
    BY <1>2, <1>6, <1>8 DEF LimiterInv, LimiterTypeOK
  <2>3. seen' \in [Keys -> 0..MaxClock]
    BY <1>6, <1>9 DEF Turned
  <2>4. lastEvict' \in 0..MaxClock
    BY <1>2, <1>6 DEF Evict
  <2>5. overtaken' \in SUBSET Keys
    BY <1>2, <1>6 DEF LimiterInv, LimiterTypeOK
  <2> QED
    BY <1>5, <1>6, <2>1, <2>2, <2>3, <2>4, <2>5, DoneType DEF LimiterInv, LimiterTypeOK
<1>11. Bounded'
  <2>1. DOMAIN table \in SUBSET DOMAIN hits /\ IsFiniteSet(DOMAIN hits)
    BY <1>8 DEF LimiterInv, Bounded
  <2>2. IsFiniteSet(DOMAIN table) /\ Cardinality(DOMAIN table) <= Cardinality(DOMAIN hits)
    BY <2>1, FS_Subset
  <2>3. Cardinality(DOMAIN table) \in Nat /\ Cardinality(DOMAIN hits) \in Nat
    BY <2>1, <2>2, FS_CardinalityType
  <2>4. Cardinality(DOMAIN hits) <= MaxKeys
    BY DEF LimiterInv, Bounded, TableBounded
  <2>5. DOMAIN hits' = DOMAIN table \cup {k}
    BY <1>6
  <2>6. IsFiniteSet(DOMAIN hits')
        /\ Cardinality(DOMAIN hits') = IF k \in DOMAIN table THEN Cardinality(DOMAIN table)
                                                            ELSE Cardinality(DOMAIN table) + 1
    BY <2>2, <2>5, FS_AddElement
  <2>7. CASE k \in DOMAIN table
    BY <2>2, <2>3, <2>4, <2>6, <2>7 DEF Bounded, TableBounded
  <2>8. CASE k \notin DOMAIN table
    <3>1. CASE Full(hits)
      <4>1. k \notin DOMAIN hits
        <5>1. \A l \in asks[t] : l = k
          BY DEF LimiterInv, OneKey
        <5>2. k \in DOMAIN hits => ~Newcomer(t)
          BY DEF Newcomer
        <5> QED
          BY <1>8, <2>8, <5>2 DEF Evicted, MayEvict
      <4>2. Newcomer(t)
        BY <3>1, <4>1 DEF Newcomer, LimiterInv, OneKey
      <4>3. ~Full(table)
        BY <1>1, <4>2
      <4> QED
        BY <2>3, <2>6, <2>8, <4>3 DEF Bounded, TableBounded, Full
    <3>2. CASE ~Full(hits)
      BY <2>2, <2>3, <2>6, <2>8, <3>2 DEF Bounded, TableBounded, Full
    <3> QED
      BY <3>1, <3>2
  <2> QED
    BY <2>7, <2>8
<1>12. Ordered'
  <2> SUFFICES ASSUME NEW x \in Keys \ overtaken', NEW i \in 1..n, log'[i].key = x
               PROVE  log'[i].at <= seen'[x]
                      /\ \A j \in i..n : log'[j].key = x => log'[i].at <= log'[j].at
    BY <1>5 DEF Ordered
  <2>1. x \notin overtaken /\ (x = k => seen[k] <= read[t])
    BY <1>2, <1>6, <1>9
  <2>2. CASE i = n
    BY <1>2, <1>5, <1>9, <2>2 DEF NewerOf
  <2>3. CASE i # n
    <3>1. i \in 1..Len(log) /\ log'[i] = log[i]
      BY <1>2, <1>5, <2>3
    <3>2. log[i].at <= seen[x] /\ \A j \in i..Len(log) : log[j].key = x => log[i].at <= log[j].at
      BY <2>1, <3>1 DEF LimiterInv, Ordered
    <3>3. log[i].at \in 0..MaxClock
      BY <3>1, LogType DEF LimiterInv
    <3>4. log[i].at <= seen'[x]
      BY <1>9, <3>2, <3>3
    <3>5. ASSUME NEW j \in i..n, log'[j].key = x PROVE log[i].at <= log'[j].at
      <4>1. CASE j = n
        BY SMTT(30), <1>2, <1>5, <1>9, <2>1, <3>2, <3>3, <3>5, <4>1
      <4>2. CASE j # n
        <5>1. j \in i..Len(log) /\ j \in 1..Len(log)
          BY <1>2, <4>2
        <5> QED
          BY <1>5, <3>2, <3>5, <5>1
      <4> QED
        BY <4>1, <4>2
    <3> QED
      BY <3>1, <3>4, <3>5
  <2> QED
    BY <2>2, <2>3
<1>13. Remembered'
  <2> SUFFICES ASSUME NEW x \in Keys \ overtaken', NEW i \in 1..n, log'[i].key = x,
                      seen'[x] - log'[i].at < Window
               PROVE  x \in DOMAIN hits' /\ i \in hits'[x]
    BY <1>5 DEF Remembered
  <2>1. x \notin overtaken
    BY <1>6
  <2>2. CASE i = n
    BY <1>5, <1>6, <2>2
  <2>3. CASE i # n
    <3>1. i \in 1..Len(log) /\ log'[i] = log[i] /\ log[i].key = x
      BY <1>2, <1>5, <2>3
    <3>2. log[i].at \in 0..MaxClock
      BY <3>1, LogType DEF LimiterInv
    <3>3. x \in DOMAIN hits /\ i \in hits[x]
      BY <1>9, <2>1, <3>1, <3>2 DEF LimiterInv, Remembered
    <3>4. CASE x = k
      <4>1. read[t] - log[i].at < Window
        BY <1>2, <1>9, <3>1, <3>2, <3>4 DEF NewerOf
      <4> QED
        BY <1>6, <3>3, <3>4, <4>1 DEF Kept
    <3>5. CASE x # k
      <4>1. x \notin Evicted(t)
        <5> SUFFICES ASSUME x \in Evicted(t) PROVE FALSE
          OBVIOUS
        <5>1. NewerOf(seen[x], read[t]) - log[i].at >= Window
          BY <1>2, <1>7, <2>1, <3>1, ExpiredIsOver
        <5>2. seen'[x] - log[i].at >= Window
          BY <1>9, <5>1
        <5> QED
          BY <1>9, <3>1, <3>2, <5>2
      <4> QED
        BY <1>6, <1>8, <3>3, <3>5, <4>1
    <3> QED
      BY <3>4, <3>5
  <2> QED
    BY <2>2, <2>3
<1>14. WindowHolds'
  <2> SUFFICES ASSUME NEW i \in 1..n, log'[i].key \notin overtaken'
               PROVE  Cardinality(InWindow(i)') <= Limit
    BY <1>5 DEF WindowHolds
  <2>1. CASE i = n
    <3>1. k \notin overtaken /\ seen[k] <= read[t]
      BY <1>2, <1>5, <1>6, <1>9, <2>1
    <3>2. InWindow(i)' \in SUBSET (Kept(t, k) \cup {n})
      <4> SUFFICES ASSUME NEW j \in 1..n, j # n, log'[j].key = k, log'[j].at > read[t] - Window
                   PROVE  j \in Kept(t, k)
        BY <1>5, <2>1 DEF InWindow
      <4>1. j \in 1..Len(log) /\ log[j].key = k /\ log[j].at > read[t] - Window
        <5>1. j \in 1..Len(log)
          BY <1>2, <1>5
        <5>2. log'[j] = log[j]
          BY <1>5, <5>1
        <5> QED
          BY <5>1, <5>2
      <4>2. log[j].at \in 0..MaxClock
        BY <4>1, LogType DEF LimiterInv
      <4>3. read[t] - log[j].at < Window /\ seen[k] - log[j].at < Window
        BY SMTT(30), <1>2, <1>9, <3>1, <4>1, <4>2
      <4> QED
        BY <1>2, <3>1, <4>1, <4>3 DEF Kept, LimiterInv, Remembered
    <3>3. IsFiniteSet(Kept(t, k)) /\ Cardinality(Kept(t, k)) \in Nat
      BY <1>2, KeptFinite
    <3>4. IsFiniteSet(Kept(t, k) \cup {n})
          /\ Cardinality(Kept(t, k) \cup {n}) <= Cardinality(Kept(t, k)) + 1
      <4>1. IsFiniteSet(Kept(t, k) \cup {n})
            /\ Cardinality(Kept(t, k) \cup {n}) =
                 IF n \in Kept(t, k) THEN Cardinality(Kept(t, k)) ELSE Cardinality(Kept(t, k)) + 1
        BY <3>3, FS_AddElement
      <4> QED
        BY <3>3, <4>1
    <3>5. Cardinality(InWindow(i)') <= Cardinality(Kept(t, k) \cup {n})
          /\ IsFiniteSet(InWindow(i)')
      BY <3>2, <3>4, FS_Subset
    <3>6. Cardinality(InWindow(i)') \in Nat /\ Cardinality(Kept(t, k) \cup {n}) \in Nat
      BY <3>4, <3>5, FS_CardinalityType
    <3> QED
      BY <1>6, <3>3, <3>4, <3>5, <3>6
  <2>2. CASE i # n
    <3>1. i \in 1..Len(log) /\ log'[i] = log[i]
      BY <1>2, <1>5, <2>2
    <3>2. InWindow(i)' = InWindow(i)
      <4>1. \A j \in 1..i : log'[j] = log[j]
        BY <1>2, <1>5, <3>1
      <4> QED
        BY <3>1, <4>1 DEF InWindow
    <3>3. log[i].key \notin overtaken
      BY <1>6, <3>1
    <3> QED
      BY <3>1, <3>2, <3>3 DEF LimiterInv, WindowHolds
  <2> QED
    BY <2>1, <2>2
<1> QED
  BY <1>6, <1>10, <1>11, <1>12, <1>13, <1>14, DoneType DEF LimiterInv

-----------------------------------------------------------------------------
(* Every reachable state satisfies the invariant. *)
THEOREM LimiterInvariance == LimiterSpec => []LimiterInv
<1> USE LimiterAssumption
<1>1. LimiterInit => LimiterInv
  <2> SUFFICES ASSUME LimiterInit PROVE LimiterInv
    OBVIOUS
  <2>1. DOMAIN hits = {} /\ Len(log) = 0
    BY DEF LimiterInit
  <2>2. IsFiniteSet(DOMAIN hits) /\ Cardinality(DOMAIN hits) = 0
    BY <2>1, FS_EmptySet
  <2>3. log \in Seq([key : Keys, at : 0..MaxClock, late : BOOLEAN])
    BY DEF LimiterInit
  <2>4. LimiterTypeOK
    <3>1. asks \in [Threads -> SUBSET Keys] /\ seen \in [Keys -> 0..MaxClock]
          /\ read \in [Threads \cup {Janitor} -> 0..MaxClock]
      BY DEF LimiterInit
    <3>2. clock \in 0..MaxClock /\ lastEvict \in 0..MaxClock /\ sweeping \in BOOLEAN
          /\ overtaken \in SUBSET Keys
      <4>1. 0 \in 0..MaxClock
        OBVIOUS
      <4> QED
        BY <4>1 DEF LimiterInit
    <3> QED
      BY <2>1, <2>3, <3>1, <3>2 DEF LimiterTypeOK
  <2>5. Bounded
    BY <2>2 DEF Bounded, TableBounded
  <2> QED
    BY <2>1, <2>4, <2>5 DEF LimiterInit, LimiterInv, OneKey, Ordered, Remembered, WindowHolds
<1>2. LimiterInv /\ [LimiterNext]_limiterVars => LimiterInv'
  <2> SUFFICES ASSUME LimiterInv, [LimiterNext]_limiterVars PROVE LimiterInv'
    OBVIOUS
  <2>1. CASE Tick
    BY SMTT(30), <2>1, IdleKeeps DEF Tick, LimiterInv, LimiterTypeOK, OneKey
  <2>2. ASSUME NEW t \in Threads, NEW k \in Keys, Begin(t, k) PROVE LimiterInv'
    <3>1. UNCHANGED <<hits, log, seen, overtaken>> /\ clock' \in 0..MaxClock
      BY <2>2 DEF Begin, LimiterInv, LimiterTypeOK
    <3>2. LimiterTypeOK' /\ OneKey'
      BY SMTT(30), <2>2 DEF Begin, LimiterInv, LimiterTypeOK, OneKey
    <3> QED
      BY <3>1, <3>2, IdleKeeps
  <2>3. ASSUME NEW t \in Threads, LimiterCheck(t) PROVE LimiterInv'
    BY <2>3, RefuseFullStep, RefuseLimitStep, AdmitStep DEF LimiterCheck
  <2>4. CASE SweepBegins
    BY <2>4, IdleKeeps DEF SweepBegins, LimiterInv, LimiterTypeOK, OneKey
  <2>5. CASE Sweep
    BY <2>5, SweepStep
  <2>6. CASE UNCHANGED limiterVars
    BY <2>6, IdleKeeps DEF limiterVars, LimiterInv, LimiterTypeOK, OneKey
  <2> QED
    BY <2>1, <2>2, <2>3, <2>4, <2>5, <2>6 DEF LimiterNext
<1> QED
  BY <1>1, <1>2, PTL DEF LimiterSpec

(* A key gets Limit admissions per window, whatever evictions and sweeps of the
   table come in between, unless one of its checks was overtaken. *)
THEOREM LimitHolds == LimiterSpec => []WindowHolds
BY LimiterInvariance, PTL DEF LimiterInv

(* The table of a limiter never outgrows max_keys. *)
THEOREM MemoryBounded == LimiterSpec => []TableBounded
<1>1. LimiterInv => TableBounded
  BY DEF LimiterInv, Bounded
<1> QED
  BY <1>1, LimiterInvariance, PTL
-----------------------------------------------------------------------------
(* The newest admission of a key that no check was overtaken on: unless it was
   older than the last eviction from the start, it lay in that one's window. *)
Survivors ==
    \A k \in DOMAIN hits : k \notin overtaken =>
        \E l \in Last(hits[k]) : log[l].late \/ lastEvict - log[l].at < Window

(* What an eviction leaves counts at the reading it was made at. *)
LEMMA LeftIsRecent ==
    ASSUME LimiterInv, NEW now \in 0..MaxClock, NEW k \in DOMAIN hits \ Expired(hits, now),
           NEW l \in Last(hits[k])
    PROVE  now - log[l].at < Window
<1>1. l \in 1..Len(log)
  BY DEF Last, LimiterInv, LimiterTypeOK
<1>2. log[l].at \in 0..MaxClock
  BY <1>1, LogType DEF LimiterInv
<1>3. ~(now - log[l].at >= Window)
  BY DEF Expired
<1> QED
  BY <1>2, <1>3, LimiterAssumption

(* A check that is refused drops what no longer counts, but not the newest
   admission as long as any of them counts. *)
LEMMA NewestIsKept ==
    ASSUME LimiterInv, NEW t \in Threads, NEW k \in DOMAIN hits, k \notin overtaken,
           NEW l \in Last(hits[k]), Kept(t, k) # {}
    PROVE  l \in Last(Kept(t, k))
<1> USE LimiterAssumption
<1>1. PICK i \in hits[k] : read[t] - log[i].at < Window
  BY DEF Kept
<1>2. /\ k \in Keys /\ read[t] \in 0..MaxClock /\ Len(log) \in Nat
      /\ i \in 1..Len(log) /\ log[i].key = k
      /\ l \in 1..Len(log) /\ log[l].key = k /\ i <= l /\ l \in hits[k]
  BY DEF Last, LimiterInv, LimiterTypeOK
<1>3. log[i].at \in 0..MaxClock /\ log[l].at \in 0..MaxClock
  BY <1>2, LogType DEF LimiterInv
<1>4. log[i].at <= log[l].at
  BY <1>2 DEF LimiterInv, Ordered
<1>5. l \in Kept(t, k) /\ Kept(t, k) \subseteq hits[k]
  BY <1>1, <1>2, <1>3, <1>4 DEF Kept
<1> QED
  BY <1>5 DEF Last

LEMMA SurvivorsStep == LimiterInv /\ Survivors /\ [LimiterNext]_limiterVars => Survivors'
<1> SUFFICES ASSUME LimiterInv, Survivors, [LimiterNext]_limiterVars PROVE Survivors'
  OBVIOUS
<1> USE LimiterAssumption
<1>1. CASE UNCHANGED <<hits, log, lastEvict, overtaken>>
  BY <1>1 DEF Survivors
<1>2. ASSUME NEW ks, hits' = Drop(hits, ks), UNCHANGED <<log, lastEvict, overtaken>>
      PROVE  Survivors'
  BY <1>2 DEF Drop, Survivors
<1>3. ASSUME NEW t \in Threads, RefuseFull(t)
      PROVE  Survivors'
  <2>0. read[t] \in 0..MaxClock
    BY DEF LimiterInv, LimiterTypeOK
  <2>1. CASE MayEvict(t)
    <3>1. /\ hits' = Drop(hits, Expired(hits, read[t])) /\ lastEvict' = read[t]
          /\ UNCHANGED <<log, overtaken>>
      BY <1>3, <2>1 DEF RefuseFull, Evicted, Evict
    <3>2. ASSUME NEW k \in DOMAIN hits', k \notin overtaken
          PROVE  \E l \in Last(hits'[k]) : lastEvict' - log[l].at < Window
      <4>1. k \in DOMAIN hits \ Expired(hits, read[t]) /\ hits'[k] = hits[k]
        BY <3>1 DEF Drop
      <4>2. PICK l \in Last(hits[k]) : TRUE
        BY <3>2, <4>1 DEF Survivors
      <4> QED
        BY <2>0, <3>1, <4>1, <4>2, LeftIsRecent
    <3> QED
      BY <3>1, <3>2 DEF Survivors
  <2>2. CASE ~MayEvict(t)
    BY <1>2, <1>3, <2>2 DEF RefuseFull, Evicted, Evict
  <2> QED
    BY <2>1, <2>2
<1>4. ASSUME NEW t \in Threads, RefuseLimit(t)
      PROVE  Survivors'
  <2>1. PICK k \in asks[t] :
          /\ k \in DOMAIN hits /\ Cardinality(Kept(t, k)) >= Limit
          /\ hits' = [hits EXCEPT ![k] = Kept(t, k)]
          /\ UNCHANGED <<lastEvict, log, overtaken>>
    BY <1>4 DEF RefuseLimit
  <2>2. Kept(t, k) # {}
    BY <2>1, FS_EmptySet
  <2>3. ASSUME NEW x \in DOMAIN hits, x \notin overtaken
        PROVE  \E l \in Last(hits'[x]) : log[l].late \/ lastEvict - log[l].at < Window
    <3>1. PICK l \in Last(hits[x]) : log[l].late \/ lastEvict - log[l].at < Window
      BY <2>3 DEF Survivors
    <3>2. l \in Last(hits'[x])
      BY <2>1, <2>2, <2>3, NewestIsKept
    <3> QED
      BY <3>1, <3>2
  <2> QED
    BY <2>1, <2>3 DEF Survivors
<1>5. ASSUME NEW t \in Threads, Admit(t)
      PROVE  Survivors'
  <2> DEFINE n == Len(log) + 1
             table == Drop(hits, Evicted(t))
             entry(k) == [key |-> k, at |-> read[t], late |-> read[t] < lastEvict]
  <2>1. PICK k \in asks[t] :
          /\ Evict(t) /\ log' = Append(log, entry(k)) /\ overtaken \subseteq overtaken'
          /\ hits' = [x \in DOMAIN table \cup {k} |->
                          IF x = k THEN Kept(t, k) \cup {n} ELSE table[x]]
    BY <1>5 DEF Admit, Admits
  <2>2. /\ k \in Keys /\ read[t] \in 0..MaxClock /\ lastEvict \in 0..MaxClock
        /\ Len(log) \in Nat /\ log \in Seq([key : Keys, at : 0..MaxClock, late : BOOLEAN])
    BY DEF LimiterInv, LimiterTypeOK
  <2>3. entry(k) \in [key : Keys, at : 0..MaxClock, late : BOOLEAN]
    BY <2>2
  <2>4. log'[n] = entry(k) /\ \A i \in 1..Len(log) : log'[i] = log[i]
    BY <2>1, <2>2, <2>3, AppendProperties
  <2>5. lastEvict' = IF MayEvict(t) THEN read[t] ELSE lastEvict
    BY <2>1 DEF Evict
  <2>6. n \in Last(hits'[k])
    <3>1. Kept(t, k) \subseteq 1..Len(log)
      BY <2>2, KeptFinite
    <3>2. hits'[k] = Kept(t, k) \cup {n}
      BY <2>1
    <3> QED
      BY <2>2, <3>1, <3>2 DEF Last
  <2>7. log'[n].late \/ lastEvict' - log'[n].at < Window
    <3>1. log'[n].at = read[t] /\ log'[n].late = (read[t] < lastEvict)
      BY <2>4
    <3>2. CASE read[t] < lastEvict
      BY <3>1, <3>2
    <3>3. CASE ~(read[t] < lastEvict)
      <4>1. lastEvict' - read[t] <= 0
        BY <2>2, <2>5, <3>3
      <4> QED
        BY <2>2, <2>5, <3>1, <4>1
    <3> QED
      BY <3>2, <3>3
  <2>8. ASSUME NEW x \in DOMAIN hits', x # k, x \notin overtaken'
        PROVE  \E l \in Last(hits'[x]) : log'[l].late \/ lastEvict' - log'[l].at < Window
    <3>1. x \in DOMAIN hits \ Evicted(t) /\ hits'[x] = hits[x] /\ x \notin overtaken
      BY <2>1, <2>8 DEF Drop
    <3>2. PICK l \in Last(hits[x]) : log[l].late \/ lastEvict - log[l].at < Window
      BY <3>1 DEF Survivors
    <3>3. log'[l] = log[l]
      BY <2>4, <3>1 DEF Last, LimiterInv, LimiterTypeOK
    <3>4. MayEvict(t) => read[t] - log[l].at < Window
      BY <2>2, <3>1, LeftIsRecent DEF Evicted
    <3> QED
      BY <2>5, <3>1, <3>2, <3>3, <3>4
  <2> QED
    BY <2>6, <2>7, <2>8 DEF Survivors
<1>6. CASE Tick \/ SweepBegins \/ UNCHANGED limiterVars \/ \E t \in Threads, k \in Keys : Begin(t, k)
  BY <1>1, <1>6 DEF Tick, SweepBegins, Begin, limiterVars
<1>7. CASE Sweep
  BY <1>2, <1>7 DEF Sweep
<1> QED
  BY <1>3, <1>4, <1>5, <1>6, <1>7 DEF LimiterNext, LimiterCheck

(* A 429 has a cause: as many admissions of the key as the limit allows count,
   or every key of the full table was admitted within a window and an eviction
   interval, checks that were overtaken apart. *)
THEOREM RefusalsHaveACause == LimiterSpec => RefusedForCause
<1> USE LimiterAssumption
<1>1. LimiterInit => Survivors
  BY DEF LimiterInit, Survivors
<1>2. ASSUME LimiterInv, NEW t \in Threads, RefuseLimit(t)
      PROVE  \E k \in asks[t] : Cardinality(Recent(k, read[t], Window)) >= Limit
  <2>1. PICK k \in asks[t] : k \in DOMAIN hits /\ Cardinality(Kept(t, k)) >= Limit
    BY <1>2 DEF RefuseLimit
  <2>2. k \in Keys /\ Len(log) \in Nat
    BY <1>2, <2>1 DEF LimiterInv, LimiterTypeOK
  <2>3. Kept(t, k) \subseteq Recent(k, read[t], Window)
    BY <1>2, <2>2 DEF Kept, Recent, LimiterInv, LimiterTypeOK
  <2>4. IsFiniteSet(1..Len(log)) /\ Recent(k, read[t], Window) \subseteq 1..Len(log)
    BY <2>2, FS_Interval DEF Recent
  <2>5. IsFiniteSet(Recent(k, read[t], Window))
    BY <2>4, FS_Subset
  <2>6. Cardinality(Kept(t, k)) <= Cardinality(Recent(k, read[t], Window))
        /\ IsFiniteSet(Kept(t, k))
    BY <2>3, <2>5, FS_Subset
  <2>7. Cardinality(Kept(t, k)) \in Nat /\ Cardinality(Recent(k, read[t], Window)) \in Nat
    BY <2>5, <2>6, FS_CardinalityType
  <2> QED
    BY <2>1, <2>6, <2>7
<1>3. ASSUME LimiterInv, Survivors, NEW t \in Threads, RefuseFull(t), NEW k \in DOMAIN hits', InTime(k)
      PROVE  Recent(k, read[t], Window + EvictInterval) # {}
  <2>1. k \in DOMAIN hits \ Evicted(t) /\ k \notin overtaken /\ read[t] \in 0..MaxClock
        /\ lastEvict \in 0..MaxClock
    BY <1>3 DEF RefuseFull, Drop, InTime, LimiterInv, LimiterTypeOK
  <2>2. PICK l \in Last(hits[k]) : log[l].late \/ lastEvict - log[l].at < Window
    BY <1>3, <2>1 DEF Survivors
  <2>3. ~log[l].late
    BY <1>3 DEF InTime
  <2>4. l \in 1..Len(log) /\ log[l].key = k
    BY <1>3, <2>1, <2>2 DEF Last, LimiterInv, LimiterTypeOK
  <2>5. log[l].at \in 0..MaxClock
    BY <1>3, <2>4, LogType DEF LimiterInv
  <2>6. CASE MayEvict(t)
    <3>1. read[t] - log[l].at < Window
      BY <1>3, <2>1, <2>2, <2>6, LeftIsRecent DEF Evicted
    <3> QED
      BY <2>1, <2>4, <2>5, <3>1 DEF Recent
  <2>7. CASE ~MayEvict(t)
    <3>1. read[t] - lastEvict < EvictInterval
      BY <1>3, <2>1, <2>7 DEF RefuseFull, MayEvict
    <3> QED
      BY <2>1, <2>2, <2>3, <2>4, <2>5, <3>1 DEF Recent
  <2> QED
    BY <2>6, <2>7
<1>4. LimiterInv /\ Survivors /\ [LimiterNext]_limiterVars =>
        [\A t \in Threads :
            /\ RefuseLimit(t) =>
                 \E k \in asks[t] : Cardinality(Recent(k, read[t], Window)) >= Limit
            /\ RefuseFull(t) =>
                 \A k \in DOMAIN hits' :
                    InTime(k) => Recent(k, read[t], Window + EvictInterval) # {}]_limiterVars
  BY <1>2, <1>3
<1> QED
  BY LimiterInvariance, SurvivorsStep, <1>1, <1>4, PTL DEF LimiterSpec, RefusedForCause

-----------------------------------------------------------------------------
(* Polls                                                                    *)

Conn == [at : {"closed", "starting", "handshake", "open", "look", "cap", "pass", "check", "wait",
               "unpark", "answer"},
         user : Users \cup {Nobody}, typing : Nat, late : BOOLEAN, looks : 0..2]

(* TypeOK without the bound of the semaphore, which the slots account for. *)
Types ==
    /\ free \in Nat
    /\ polls \in [Users -> Nat]
    /\ conn \in [Conns -> Conn]
    /\ queue \subseteq Users /\ unnotified \subseteq Users /\ allowed \subseteq Users
    /\ typing \in [Users -> Nat] /\ leaked \in Nat

(* Who polls is a user. *)
Polling == {"look", "cap", "pass", "check", "wait", "unpark", "answer"}
Named == \A c \in Conns : conn[c].at \in Polling => conn[c].user \in Users

(* The poll of a revoked user has looked at the queue once at most since,   *)
(* and not at all if a look is what comes next.                             *)
Cut == \A c \in Conns : conn[c].user \notin allowed =>
    /\ conn[c].looks <= 1
    /\ conn[c].at \in {"look", "check"} => conn[c].looks = 0

IInv == Types /\ Named /\ Cut /\ SlotsComeBack /\ PollsAreCounted

(* A poll that is parked is counted. *)
LEMMA ConnsFinite == IsFiniteSet(Held) /\ \A u \in Users : IsFiniteSet(ParkedPolls(u))
  BY PollsAssumption, FS_Subset DEF Held, ParkedPolls

LEMMA ParkedIsCounted ==
    ASSUME Types, PollsAreCounted, NEW c \in Conns, Parked(c), conn[c].user \in Users
    PROVE  polls[conn[c].user] - 1 \in Nat
<1>1. c \in ParkedPolls(conn[c].user)
  BY DEF ParkedPolls
<1>2. Cardinality(ParkedPolls(conn[c].user)) # 0
  BY <1>1, ConnsFinite, FS_EmptySet
<1> QED
  BY <1>2 DEF Types, PollsAreCounted

(* The types. *)
LEMMA TypesStay == Types /\ Named /\ PollsAreCounted /\ [Next]_vars => Types'
<1> SUFFICES ASSUME Types /\ Named /\ PollsAreCounted, [Next]_vars PROVE Types'
  OBVIOUS
<1>1. ASSUME NEW c \in Conns, Accept(c) PROVE Types'
  BY <1>1 DEF Accept, Goto, users, Types, Conn
<1>2. ASSUME NEW c \in Conns, StartFails(c) PROVE Types'
  BY <1>2 DEF StartFails, Goto, users, Types, Conn
<1>3. ASSUME NEW c \in Conns, Start(c) PROVE Types'
  BY <1>3 DEF Start, Goto, users, Types, Conn
<1>4. ASSUME NEW c \in Conns, Handshake(c) PROVE Types'
  BY <1>4 DEF Handshake, Goto, users, Types, Conn
<1>5. ASSUME NEW c \in Conns, Ends(c) PROVE Types'
  BY <1>5 DEF Ends, Closed, users, Types, Conn
<1>6. ASSUME NEW c \in Conns, NEW u \in Users, NEW late \in BOOLEAN, Request(c, u, late) PROVE Types'
  <2>1. Closed \in Conn
    BY DEF Closed, Conn
  <2>2. Open \in Conn
    BY <2>1 DEF Open, Conn
  <2> QED
    BY <1>6, <2>2 DEF Request, users, Types, Conn
<1>7. ASSUME NEW c \in Conns, Look(c) PROVE Types'
  <2>1. Looked(c) \in 0..2 /\ conn[c] \in Conn /\ conn[c].user \in Users
    BY <1>7 DEF Look, Looked, Types, Conn, Named, Polling
  <2>2. typing[conn[c].user] \in Nat
    BY <2>1 DEF Types
  <2>3. PICK at \in {"answer", "cap"} :
          conn' = [conn EXCEPT ![c] = [conn[c] EXCEPT !.at = at, !.typing = typing[conn[c].user],
                                                      !.looks = Looked(c)]]
    BY <1>7, <2>1 DEF Look, Types, Conn
  <2>4. [conn[c] EXCEPT !.at = at, !.typing = typing[conn[c].user], !.looks = Looked(c)] \in Conn
    BY <2>1, <2>2 DEF Conn
  <2>5. conn' \in [Conns -> Conn]
    BY <2>3, <2>4 DEF Types
  <2>6. UNCHANGED <<free, polls, queue, unnotified, allowed, typing, leaked>>
    BY <1>7 DEF Look, users
  <2> QED
    BY <2>5, <2>6 DEF Types
<1>8. ASSUME NEW c \in Conns, Park(c) PROVE Types'
  BY <1>8 DEF Park, Goto, users, Types, Conn, Named, Polling
<1>9. ASSUME NEW c \in Conns, Pass(c) PROVE Types'
  BY <1>9 DEF Pass, Goto, users, Types, Conn
<1>10. ASSUME NEW c \in Conns, Check(c) PROVE Types'
  <2>1. Looked(c) \in 0..2 /\ conn[c] \in Conn
    BY DEF Looked, Types, Conn
  <2>2. PICK at \in {"unpark", "wait"} :
          conn' = [conn EXCEPT ![c] = [conn[c] EXCEPT !.at = at, !.looks = Looked(c)]]
    BY <1>10, <2>1 DEF Check, Types, Conn
  <2>3. [conn[c] EXCEPT !.at = at, !.looks = Looked(c)] \in Conn
    BY <2>1 DEF Conn
  <2>4. conn' \in [Conns -> Conn]
    BY <2>2, <2>3 DEF Types
  <2>5. UNCHANGED <<free, polls, queue, unnotified, allowed, typing, leaked>>
    BY <1>10 DEF Check, users
  <2> QED
    BY <2>4, <2>5 DEF Types
<1>11. ASSUME NEW c \in Conns, CheckFails(c) PROVE Types'
  BY <1>11 DEF CheckFails, Goto, users, Types, Conn
<1>12. ASSUME NEW c \in Conns, Timeout(c) PROVE Types'
  BY <1>12 DEF Timeout, Goto, users, Types, Conn
<1>13. ASSUME NEW c \in Conns, Unpark(c) PROVE Types'
  <2>1. conn[c].user \in Users /\ polls[conn[c].user] - 1 \in Nat
    BY <1>13, ParkedIsCounted DEF Unpark, Named, Polling, Parked
  <2> QED
    BY <1>13, <2>1 DEF Unpark, Goto, users, Types, Conn
<1>14. ASSUME NEW c \in Conns, Answer(c) PROVE Types'
  <2>1. Closed \in Conn
    BY DEF Closed, Conn
  <2>2. Open \in Conn
    BY <2>1 DEF Open, Conn
  <2> QED
    BY <1>14, <2>2 DEF Answer, users, Types, Conn
<1>15. ASSUME NEW c \in Conns, DeadlinePasses(c) PROVE Types'
  BY <1>15 DEF DeadlinePasses, users, Types, Conn
<1>16. ASSUME NEW u \in Users, QueueAdd(u) PROVE Types'
  BY <1>16 DEF QueueAdd, Types, Conn
<1>17. ASSUME NEW u \in Users, Notify(u) PROVE Types'
  BY <1>17 DEF Notify, Types, Conn
<1>18. ASSUME NEW u \in Users, Confirm(u) PROVE Types'
  BY <1>18 DEF Confirm, Types, Conn
<1>19. ASSUME NEW u \in Users, Revoke(u) PROVE Types'
  BY <1>19 DEF Revoke, Types, Conn
<1>20. ASSUME NEW u \in Users, Readmit(u) PROVE Types'
  BY <1>20 DEF Readmit, Types, Conn
<1>21. ASSUME NEW u \in Users, NEW ping \in BOOLEAN, TypingChanges(u, ping) PROVE Types'
  BY <1>21 DEF TypingChanges, Types, Conn
<1>22. ASSUME UNCHANGED vars PROVE Types'
  BY <1>22 DEF vars, users, Types, Conn
<1> QED
  BY <1>1, <1>2, <1>3, <1>4, <1>5, <1>6, <1>7, <1>8, <1>9, <1>10, <1>11, <1>12, <1>13,
    <1>14, <1>15, <1>16, <1>17, <1>18, <1>19, <1>20, <1>21, <1>22 DEF Next, Serve

(* Who polls. *)
LEMMA NamedStays == Types /\ Named /\ [Next]_vars => Named'
<1> SUFFICES ASSUME Types /\ Named, [Next]_vars PROVE Named'
  OBVIOUS
<1>1. ASSUME NEW c \in Conns, Accept(c) PROVE Named'
  BY <1>1 DEF Accept, Goto, Types, Named, Polling
<1>2. ASSUME NEW c \in Conns, StartFails(c) PROVE Named'
  BY <1>2 DEF StartFails, Goto, Types, Named, Polling
<1>3. ASSUME NEW c \in Conns, Start(c) PROVE Named'
  BY <1>3 DEF Start, Goto, Types, Named, Polling
<1>4. ASSUME NEW c \in Conns, Handshake(c) PROVE Named'
  BY <1>4 DEF Handshake, Goto, Types, Named, Polling
<1>5. ASSUME NEW c \in Conns, Ends(c) PROVE Named'
  BY <1>5 DEF Ends, Closed, Types, Named, Polling
<1>6. ASSUME NEW c \in Conns, NEW u \in Users, NEW late \in BOOLEAN, Request(c, u, late) PROVE Named'
  BY <1>6 DEF Request, Open, Closed, Types, Named, Polling
<1>7. ASSUME NEW c \in Conns, Look(c) PROVE Named'
  BY <1>7 DEF Look, Due, Looked, Types, Named, Polling
<1>8. ASSUME NEW c \in Conns, Park(c) PROVE Named'
  <2>1. PICK at \in {"answer", "pass"} : Goto(c, at) /\ conn[c].at = "cap"
    BY <1>8 DEF Park
  <2> QED
    BY <1>8, <2>1 DEF Park, Goto, Types, Conn, Named, Polling
<1>9. ASSUME NEW c \in Conns, Pass(c) PROVE Named'
  BY <1>9 DEF Pass, Goto, Types, Named, Polling
<1>10. ASSUME NEW c \in Conns, Check(c) PROVE Named'
  BY <1>10 DEF Check, Due, Looked, Types, Named, Polling
<1>11. ASSUME NEW c \in Conns, CheckFails(c) PROVE Named'
  BY <1>11 DEF CheckFails, Goto, Types, Named, Polling
<1>12. ASSUME NEW c \in Conns, Timeout(c) PROVE Named'
  BY <1>12 DEF Timeout, Goto, Types, Named, Polling
<1>13. ASSUME NEW c \in Conns, Unpark(c) PROVE Named'
  BY <1>13 DEF Unpark, Goto, Types, Named, Polling
<1>14. ASSUME NEW c \in Conns, Answer(c) PROVE Named'
  BY <1>14 DEF Answer, Open, Closed, Types, Named, Polling
<1>15. ASSUME NEW c \in Conns, DeadlinePasses(c) PROVE Named'
  BY <1>15 DEF DeadlinePasses, Types, Named, Polling
<1>16. ASSUME NEW u \in Users, QueueAdd(u) PROVE Named'
  BY <1>16 DEF QueueAdd, Types, Named, Polling
<1>17. ASSUME NEW u \in Users, Notify(u) PROVE Named'
  BY <1>17 DEF Notify, Types, Named, Polling
<1>18. ASSUME NEW u \in Users, Confirm(u) PROVE Named'
  BY <1>18 DEF Confirm, Types, Named, Polling
<1>19. ASSUME NEW u \in Users, Revoke(u) PROVE Named'
  BY <1>19 DEF Revoke, Types, Named, Polling
<1>20. ASSUME NEW u \in Users, Readmit(u) PROVE Named'
  BY <1>20 DEF Readmit, Types, Named, Polling
<1>21. ASSUME NEW u \in Users, NEW ping \in BOOLEAN, TypingChanges(u, ping) PROVE Named'
  BY <1>21 DEF TypingChanges, Types, Named, Polling
<1>22. ASSUME UNCHANGED vars PROVE Named'
  BY <1>22 DEF vars, Types, Named, Polling
<1> QED
  BY <1>1, <1>2, <1>3, <1>4, <1>5, <1>6, <1>7, <1>8, <1>9, <1>10, <1>11, <1>12, <1>13,
    <1>14, <1>15, <1>16, <1>17, <1>18, <1>19, <1>20, <1>21, <1>22 DEF Next, Serve

(* How often a revoked user's poll looks. *)
LEMMA CutStays == Types /\ Cut /\ [Next]_vars => Cut'
<1> SUFFICES ASSUME Types /\ Cut, [Next]_vars PROVE Cut'
  OBVIOUS
<1>1. ASSUME NEW c \in Conns, Accept(c) PROVE Cut'
  BY <1>1 DEF Accept, Goto, users, Types, Cut
<1>2. ASSUME NEW c \in Conns, StartFails(c) PROVE Cut'
  BY <1>2 DEF StartFails, Goto, users, Types, Cut
<1>3. ASSUME NEW c \in Conns, Start(c) PROVE Cut'
  BY <1>3 DEF Start, Goto, users, Types, Cut
<1>4. ASSUME NEW c \in Conns, Handshake(c) PROVE Cut'
  BY <1>4 DEF Handshake, Goto, users, Types, Cut
<1>5. ASSUME NEW c \in Conns, Ends(c) PROVE Cut'
  BY <1>5 DEF Ends, Closed, users, Types, Cut
<1>6. ASSUME NEW c \in Conns, NEW u \in Users, NEW late \in BOOLEAN, Request(c, u, late) PROVE Cut'
  BY <1>6 DEF Request, Open, users, Closed, Types, Cut
<1>7. ASSUME NEW c \in Conns, Look(c) PROVE Cut'
  BY <1>7 DEF Look, Due, Looked, users, Types, Cut
<1>8. ASSUME NEW c \in Conns, Park(c) PROVE Cut'
  <2>1. PICK at \in {"answer", "pass"} : Goto(c, at) /\ conn[c].at = "cap"
    BY <1>8 DEF Park
  <2> QED
    BY <1>8, <2>1 DEF Park, Goto, Types, Conn, Cut, users
<1>9. ASSUME NEW c \in Conns, Pass(c) PROVE Cut'
  BY <1>9 DEF Pass, Goto, users, Types, Cut
<1>10. ASSUME NEW c \in Conns, Check(c) PROVE Cut'
  BY <1>10 DEF Check, Due, Looked, users, Types, Cut
<1>11. ASSUME NEW c \in Conns, CheckFails(c) PROVE Cut'
  BY <1>11 DEF CheckFails, Goto, users, Types, Cut
<1>12. ASSUME NEW c \in Conns, Timeout(c) PROVE Cut'
  BY <1>12 DEF Timeout, Goto, users, Types, Cut
<1>13. ASSUME NEW c \in Conns, Unpark(c) PROVE Cut'
  BY <1>13 DEF Unpark, Goto, users, Types, Cut
<1>14. ASSUME NEW c \in Conns, Answer(c) PROVE Cut'
  BY <1>14 DEF Answer, Open, users, Closed, Types, Cut
<1>15. ASSUME NEW c \in Conns, DeadlinePasses(c) PROVE Cut'
  BY <1>15 DEF DeadlinePasses, users, Types, Cut
<1>16. ASSUME NEW u \in Users, QueueAdd(u) PROVE Cut'
  BY <1>16 DEF QueueAdd, Types, Cut
<1>17. ASSUME NEW u \in Users, Notify(u) PROVE Cut'
  BY <1>17 DEF Notify, Types, Cut
<1>18. ASSUME NEW u \in Users, Confirm(u) PROVE Cut'
  BY <1>18 DEF Confirm, Types, Cut
<1>19. ASSUME NEW u \in Users, Revoke(u) PROVE Cut'
  BY <1>19 DEF Revoke, Types, Cut
<1>20. ASSUME NEW u \in Users, Readmit(u) PROVE Cut'
  BY <1>20 DEF Readmit, Types, Cut
<1>21. ASSUME NEW u \in Users, NEW ping \in BOOLEAN, TypingChanges(u, ping) PROVE Cut'
  BY <1>21 DEF TypingChanges, Types, Cut
<1>22. ASSUME UNCHANGED vars PROVE Cut'
  BY <1>22 DEF vars, users, Types, Cut
<1> QED
  BY <1>1, <1>2, <1>3, <1>4, <1>5, <1>6, <1>7, <1>8, <1>9, <1>10, <1>11, <1>12, <1>13,
    <1>14, <1>15, <1>16, <1>17, <1>18, <1>19, <1>20, <1>21, <1>22 DEF Next, Serve

(* Slots and counts. *)
LEMMA Steady ==
    ASSUME SlotsComeBack, PollsAreCounted, UNCHANGED <<free, polls, leaked>>,
           \A c \in Conns :
               /\ conn'[c].at = "closed" <=> conn[c].at = "closed"
               /\ Parked(c)' <=> Parked(c)
               /\ Parked(c) => conn'[c].user = conn[c].user
    PROVE  SlotsComeBack' /\ PollsAreCounted'
<1>1. Held' = Held
  BY DEF Held
<1>2. \A u \in Users : ParkedPolls(u)' = ParkedPolls(u)
  BY DEF ParkedPolls
<1> QED
  BY <1>1, <1>2 DEF SlotsComeBack, PollsAreCounted

(* A connection comes or goes, parked before and after. *)
LEMMA SameParked ==
    ASSUME PollsAreCounted, UNCHANGED polls,
           NEW c \in Conns, ~Parked(c), ~Parked(c)',
           \A d \in Conns \ {c} : conn'[d] = conn[d]
    PROVE  PollsAreCounted'
<1>1. \A u \in Users : ParkedPolls(u)' = ParkedPolls(u)
  BY DEF ParkedPolls, Parked
<1> QED
  BY <1>1 DEF PollsAreCounted

LEMMA HeldFreed ==
    ASSUME NEW c \in Conns, conn[c].at # "closed", conn'[c].at = "closed",
           \A d \in Conns \ {c} : conn'[d] = conn[d]
    PROVE  Cardinality(Held') = Cardinality(Held) - 1
<1>1. Held' = Held \ {c} /\ c \in Held
  BY DEF Held
<1> QED
  BY <1>1, ConnsFinite, FS_RemoveElement

LEMMA AcceptSettles ==
    ASSUME Types, SlotsComeBack, PollsAreCounted, NEW c \in Conns, Accept(c)
    PROVE  SlotsComeBack' /\ PollsAreCounted'
<1>1. /\ conn[c].at = "closed" /\ conn'[c].at = "starting" /\ free' = free - 1
      /\ polls' = polls /\ leaked' = leaked
      /\ \A d \in Conns \ {c} : conn'[d] = conn[d]
  BY DEF Accept, Goto, Types, Conn
<1>2. Held' = Held \cup {c} /\ c \notin Held
  BY <1>1 DEF Held
<1>3. Cardinality(Held') = Cardinality(Held) + 1 /\ Cardinality(Held) \in Nat
  BY <1>2, ConnsFinite, FS_AddElement, FS_CardinalityType
<1>4. PollsAreCounted'
  BY <1>1, SameParked DEF Parked
<1> QED
  BY <1>1, <1>3, <1>4 DEF SlotsComeBack, Types

LEMMA CloseSettles ==
    ASSUME Types, SlotsComeBack, PollsAreCounted, NEW c \in Conns, StartFails(c) \/ Ends(c)
    PROVE  SlotsComeBack' /\ PollsAreCounted'
<1>1. /\ conn[c].at \in {"starting", "handshake", "open"} /\ conn'[c].at = "closed"
      /\ polls' = polls /\ free' + leaked' = free + leaked + 1
      /\ \A d \in Conns \ {c} : conn'[d] = conn[d]
  BY DEF StartFails, Ends, Goto, Closed, Types, Conn
<1>2. Cardinality(Held') = Cardinality(Held) - 1 /\ Cardinality(Held) \in Nat
  BY <1>1, HeldFreed, ConnsFinite, FS_CardinalityType
<1>3. free' \in Nat /\ leaked' \in Nat
  BY DEF StartFails, Ends, Types
<1>4. PollsAreCounted'
  BY <1>1, SameParked DEF Parked
<1>5. free \in Nat /\ leaked \in Nat
  BY DEF Types
<1>6. free' + Cardinality(Held') + leaked' = free + Cardinality(Held) + leaked
  <2>1. PICK before \in Nat : before = Cardinality(Held) /\ Cardinality(Held') = before - 1
    BY <1>2
  <2>2. PICK f \in Nat, l \in Nat : f = free /\ l = leaked
    BY <1>5
  <2>3. PICK g \in Nat, k \in Nat : g = free' /\ k = leaked'
    BY <1>3
  <2>4. g + k = f + l + 1
    BY <1>1, <2>2, <2>3
  <2>5. g + (before - 1) + k = f + before + l
    BY <2>4
  <2> QED
    BY <2>1, <2>2, <2>3, <2>5
<1>7. SlotsComeBack'
  BY <1>6 DEF SlotsComeBack
<1> QED
  BY <1>4, <1>7

LEMMA ParkSettles ==
    ASSUME Types, Named, SlotsComeBack, PollsAreCounted, NEW c \in Conns, Park(c)
    PROVE  SlotsComeBack' /\ PollsAreCounted'
<1>0. PICK v \in Users : v = conn[c].user
  BY DEF Park, Named, Polling
<1>1. /\ v = conn[c].user /\ conn[c].at = "cap" /\ free' = free /\ leaked' = leaked
      /\ polls[v] \in Nat /\ MaxPolls \in Nat
  BY <1>0, PollsAssumption DEF Park, Types
<1>2. CASE polls[v] >= MaxPolls
  BY <1>1, <1>2, Steady DEF Park, Goto, Types, Conn, Parked
<1>3. CASE ~(polls[v] >= MaxPolls)
  <2>1. /\ polls' = [polls EXCEPT ![v] = @ + 1]
        /\ conn'[c].at = "pass" /\ conn'[c].user = v
        /\ \A d \in Conns \ {c} : conn'[d] = conn[d]
    BY <1>1, <1>3 DEF Park, Goto, Types, Conn
  <2>2. Held' = Held
    BY <1>1, <2>1 DEF Held
  <2>3. ParkedPolls(v)' = ParkedPolls(v) \cup {c} /\ c \notin ParkedPolls(v)
    BY <1>1, <2>1 DEF ParkedPolls, Parked
  <2>4. \A u \in Users \ {v} : ParkedPolls(u)' = ParkedPolls(u)
    BY <1>1, <2>1 DEF ParkedPolls, Parked
  <2>5. Cardinality(ParkedPolls(v)') = Cardinality(ParkedPolls(v)) + 1
    BY <1>1, <2>3, ConnsFinite, FS_AddElement
  <2>6. polls'[v] = polls[v] + 1 /\ \A u \in Users \ {v} : polls'[u] = polls[u]
    BY <1>1, <2>1 DEF Types
  <2> QED
    BY <1>1, <1>3, <2>2, <2>4, <2>5, <2>6 DEF SlotsComeBack, PollsAreCounted
<1> QED
  BY <1>2, <1>3

LEMMA UnparkSettles ==
    ASSUME Types, Named, SlotsComeBack, PollsAreCounted, NEW c \in Conns, Unpark(c)
    PROVE  SlotsComeBack' /\ PollsAreCounted'
<1>0. PICK v \in Users : v = conn[c].user
  BY DEF Unpark, Named, Polling
<1>1. /\ v = conn[c].user /\ conn[c].at = "unpark" /\ free' = free /\ leaked' = leaked
      /\ polls' = [polls EXCEPT ![v] = @ - 1]
      /\ conn'[c].at = "answer" /\ conn'[c].user = v
      /\ \A d \in Conns \ {c} : conn'[d] = conn[d]
  BY <1>0 DEF Unpark, Goto, Types, Conn
<1>2. Held' = Held
  BY <1>1 DEF Held
<1>3. ParkedPolls(v)' = ParkedPolls(v) \ {c} /\ c \in ParkedPolls(v)
  BY <1>1 DEF ParkedPolls, Parked
<1>4. \A u \in Users \ {v} : ParkedPolls(u)' = ParkedPolls(u)
  BY <1>1 DEF ParkedPolls, Parked
<1>5. Cardinality(ParkedPolls(v)') = Cardinality(ParkedPolls(v)) - 1
  BY <1>1, <1>3, ConnsFinite, FS_RemoveElement
<1>6. /\ polls[v] \in Nat /\ MaxPolls \in Nat
      /\ polls'[v] = polls[v] - 1 /\ \A u \in Users \ {v} : polls'[u] = polls[u]
  BY <1>1, PollsAssumption DEF Types
<1> QED
  BY <1>1, <1>2, <1>4, <1>5, <1>6 DEF SlotsComeBack, PollsAreCounted

(* The slots that are taken bound the free ones. *)
LEMMA SlotsBound == Types /\ SlotsComeBack => free \in 0..MaxConnections
  BY ConnsFinite, FS_CardinalityType, PollsAssumption DEF Types, SlotsComeBack

LEMMA CountsStay ==
    Types /\ Named /\ SlotsComeBack /\ PollsAreCounted /\ [Next]_vars
        => SlotsComeBack' /\ PollsAreCounted'
<1> SUFFICES ASSUME Types, Named, SlotsComeBack, PollsAreCounted, [Next]_vars
             PROVE  SlotsComeBack' /\ PollsAreCounted'
  OBVIOUS
<1>1. ASSUME NEW c \in Conns,
             Accept(c) \/ StartFails(c) \/ Ends(c) \/ Park(c) \/ Unpark(c)
      PROVE  SlotsComeBack' /\ PollsAreCounted'
  BY <1>1, AcceptSettles, CloseSettles, ParkSettles, UnparkSettles
<1>2. ASSUME NEW c \in Conns,
             Start(c) \/ Handshake(c) \/ Look(c) \/ Pass(c) \/ Check(c) \/ CheckFails(c)
                \/ Timeout(c) \/ Answer(c) \/ DeadlinePasses(c)
      PROVE  SlotsComeBack' /\ PollsAreCounted'
  BY <1>2, Steady
     DEF Start, Handshake, Look, Pass, Check, CheckFails, Timeout, Answer, DeadlinePasses, Open,
         Closed, Goto, Types, Conn, Parked
<1>3. ASSUME NEW c \in Conns, NEW u \in Users, NEW late \in BOOLEAN, Request(c, u, late)
      PROVE  SlotsComeBack' /\ PollsAreCounted'
  BY <1>3, Steady DEF Request, Open, Closed, Types, Conn, Parked
<1>4. ASSUME NEW u \in Users, Notify(u) \/ Revoke(u)
      PROVE  SlotsComeBack' /\ PollsAreCounted'
  BY <1>4, Steady DEF Notify, Revoke, Types, Conn, Parked
<1>5. ASSUME UNCHANGED <<free, polls, conn, leaked>>
      PROVE  SlotsComeBack' /\ PollsAreCounted'
  BY <1>5, Steady DEF Parked
<1> QED
  BY <1>1, <1>2, <1>3, <1>4, <1>5
     DEF Next, Serve, QueueAdd, TypingChanges, Confirm, Readmit, vars

-----------------------------------------------------------------------------
LEMMA InitHolds == Init => IInv
<1> SUFFICES ASSUME Init PROVE IInv
  OBVIOUS
<1>1. Types
  BY PollsAssumption DEF Init, Types, Closed, Conn
<1>2. \A c \in Conns : conn[c] = Closed
  BY DEF Init
<1>3. Named /\ Cut
  BY <1>2 DEF Named, Polling, Cut, Closed
<1>4. Held = {} /\ \A u \in Users : ParkedPolls(u) = {}
  BY <1>2 DEF Held, ParkedPolls, Parked, Closed
<1>5. SlotsComeBack /\ PollsAreCounted
  BY <1>4, FS_EmptySet, PollsAssumption DEF Init, SlotsComeBack, PollsAreCounted
<1> QED
  BY <1>1, <1>3, <1>5 DEF IInv

(* The inductive invariant: whose slot and whose count each connection      *)
(* holds, and how often a revoked user's poll has looked.                   *)
THEOREM Invariance == Spec => []IInv
<1>1. IInv /\ [Next]_vars => IInv'
  BY TypesStay, NamedStays, CutStays, CountsStay DEF IInv
<1> QED
  BY <1>1, InitHolds, PTL DEF Spec

(* The state stays within its type: in particular the semaphore within the  *)
(* number of its permits.                                                   *)
THEOREM TypeCorrect == Spec => []TypeOK
<1>1. IInv => TypeOK
  BY SlotsBound DEF IInv, Types, Conn, TypeOK
<1> QED
  BY <1>1, Invariance, PTL

(* Every slot is free, held by a connection that will give it back, or kept *)
(* by a thread that could not be started.                                   *)
THEOREM SlotsAreKept == Spec => []SlotsComeBack
<1>1. IInv => SlotsComeBack
  BY DEF IInv
<1> QED
  BY <1>1, Invariance, PTL

(* The count of a user's parked polls is exact and never above the cap,     *)
(* however their polls end (api.py:230-262).                                *)
THEOREM CountsAreExact == Spec => []PollsAreCounted
<1>1. IInv => PollsAreCounted
  BY DEF IInv
<1> QED
  BY <1>1, Invariance, PTL

(* A revoked user's poll looks at the queue once more at most (api.py:247). *)
THEOREM RevocationCuts == Spec => []RevokedIsCut
<1>1. IInv => RevokedIsCut
  BY DEF IInv, Cut, RevokedIsCut
<1> QED
  BY <1>1, Invariance, PTL
=============================================================================
