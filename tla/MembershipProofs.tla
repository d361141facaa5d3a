---------------------------- MODULE MembershipProofs ----------------------------
(* Proofs about Membership, for every set of users, adders and readers, every
   cap and every bound.                                                      *)
EXTENDS Membership, FiniteSetTheorems, SequenceTheorems, TLAPS

(* A stamp s that was drawn when n messages had been minted is in use: as a
   marker, by an add that has yet to write it, or by a group in tmp/.         *)
Drawn(s, n) ==
    \/ \E u \in Users : Stamped(u) /\ s = marker[u] /\ n = base[u]
    \/ \E a \in Adders : add[a].at \in {"open", "write"} /\ s = add[a].stamp /\ n = add[a].base
    \/ group = "building" /\ s = founded.stamp /\ n = founded.base

(* The clock is ahead of every such stamp, and of every message that a lost
   high-water mark did not strand.                                           *)
Ahead ==
    /\ \A m \in Live \ stray : id[m] <= last
    /\ \A s, n \in Nat : Drawn(s, n) => s <= last /\ n <= Len(id)

AllExact == \A s, n \in Nat : Drawn(s, n) => Exact(s, n)

IInv == TypeOK /\ Ahead /\ AllExact

-----------------------------------------------------------------------------
(* Whatever the wall clock shows, the next stamp is new. *)
LEMMA DrawIsNewer ==
    ASSUME TypeOK, Draw
    PROVE  last' \in Nat /\ last' > last /\ hwm' \in Nat
BY MembershipAssumption DEF TypeOK, Draw, NextTs

(* What concerns neither the clock nor the messages, and puts no new stamp in
   use, keeps the invariant.                                                 *)
LEMMA StillKeeps ==
    ASSUME IInv, last' = last, id' = id, Live' \subseteq Live, stray' = stray,
           \A s, n \in Nat : Drawn(s, n)' => Drawn(s, n)
    PROVE  Ahead' /\ AllExact'
<1>1. Ahead'
  BY DEF IInv, Ahead
<1>2. AllExact'
  <2> SUFFICES ASSUME NEW s \in Nat, NEW n \in Nat, Drawn(s, n)', NEW m \in Live'
               PROVE  IF m > n THEN id'[m] > s ELSE id'[m] < s \/ m \in stray'
    BY DEF AllExact, Exact
  <2>1. Exact(s, n)
    BY DEF IInv, AllExact
  <2> QED
    BY <2>1 DEF Exact
<1> QED
  BY <1>1, <1>2

(* A stamp that is drawn lies after all messages there are. *)
LEMMA DrawKeeps ==
    ASSUME IInv, Draw, id' = id, Live' = Live, stray' = stray,
           \A s, n \in Nat : Drawn(s, n)' => Drawn(s, n) \/ (s = last' /\ n = Len(id))
    PROVE  Ahead' /\ AllExact'
<1>0. last' \in Nat /\ last' > last /\ last \in Nat
  BY DrawIsNewer DEF IInv, TypeOK
<1>1. \A m \in Live : m \in 1..Len(id) /\ id[m] \in Nat /\ Len(id) \in Nat
  BY DEF IInv, TypeOK, Live, Minted
<1>2. Len(id) \in Nat
  BY DEF IInv, TypeOK
<1>3. Ahead'
  <2>1. \A m \in Live \ stray : id[m] <= last'
    BY <1>0, <1>1 DEF IInv, Ahead
  <2>2. ASSUME NEW s \in Nat, NEW n \in Nat, Drawn(s, n)'
        PROVE  s <= last' /\ n <= Len(id)
    BY <1>0, <1>2, <2>2 DEF IInv, Ahead
  <2> QED
    BY <2>1, <2>2 DEF Ahead
<1>4. AllExact'
  <2> SUFFICES ASSUME NEW s \in Nat, NEW n \in Nat, Drawn(s, n)', NEW m \in Live
               PROVE  IF m > n THEN id[m] > s ELSE id[m] < s \/ m \in stray
    BY DEF AllExact, Exact
  <2>1. CASE Drawn(s, n)
    BY <2>1 DEF IInv, AllExact, Exact
  <2>2. CASE s = last' /\ n = Len(id)
    <3>1. m <= n
      BY <1>1, <2>2
    <3>2. m \in stray \/ id[m] <= last
      BY DEF IInv, Ahead
    <3> QED
      BY <1>0, <1>1, <2>2, <3>1, <3>2
  <2> QED
    BY <2>1, <2>2
<1> QED
  BY <1>3, <1>4

(* A message that is minted lies after all stamps in use. *)
LEMMA MintKeeps ==
    ASSUME IInv, Mint
    PROVE  Ahead' /\ AllExact'
<1>0. last' \in Nat /\ last' > last /\ last \in Nat
  BY DrawIsNewer DEF IInv, TypeOK, Mint
<1>1. id \in Seq(Nat) /\ Len(id) \in Nat /\ id' = Append(id, last') /\ Len(id') = Len(id) + 1
  BY <1>0 DEF IInv, TypeOK, Mint
<1>2. id'[Len(id) + 1] = last' /\ \A m \in 1..Len(id) : id'[m] = id[m]
  BY <1>0, <1>1
<1>3. Live' = Live \cup {Len(id) + 1} /\ Live \subseteq 1..Len(id)
  BY <1>1 DEF IInv, TypeOK, Mint, Live, Minted
<1>4. \A m \in Live : id[m] \in Nat
  BY <1>1, <1>3
<1>5. \A s, n \in Nat : Drawn(s, n)' => Drawn(s, n)
  BY DEF Mint, markers, Drawn, Stamped
<1>6. stray' = stray
  BY DEF Mint
<1>7. Ahead'
  <2>1. ASSUME NEW m \in Live' \ stray'
        PROVE  id'[m] <= last'
    <3>1. CASE m = Len(id) + 1
      BY <1>0, <1>2, <3>1
    <3>2. CASE m \in Live
      <4>1. id[m] <= last /\ id'[m] = id[m]
        BY <1>2, <1>3, <1>6, <2>1, <3>2 DEF IInv, Ahead
      <4> QED
        BY <1>0, <1>4, <3>2, <4>1
    <3> QED
      BY <1>3, <3>1, <3>2
  <2>2. ASSUME NEW s \in Nat, NEW n \in Nat, Drawn(s, n)'
        PROVE  s <= last' /\ n <= Len(id')
    BY <1>0, <1>1, <1>5, <2>2 DEF IInv, Ahead
  <2> QED
    BY <2>1, <2>2 DEF Ahead
<1>8. AllExact'
  <2> SUFFICES ASSUME NEW s \in Nat, NEW n \in Nat, Drawn(s, n)', NEW m \in Live'
               PROVE  IF m > n THEN id'[m] > s ELSE id'[m] < s \/ m \in stray'
    BY DEF AllExact, Exact
  <2>1. Drawn(s, n) /\ s <= last /\ n <= Len(id)
    BY <1>5 DEF IInv, Ahead
  <2>2. CASE m = Len(id) + 1
    <3>1. m > n
      BY <1>1, <2>1, <2>2
    <3> QED
      BY <1>0, <1>2, <2>1, <2>2, <3>1
  <2>3. CASE m \in Live
    <3>1. Exact(s, n)
      BY <2>1 DEF IInv, AllExact
    <3>2. id'[m] = id[m]
      BY <1>2, <1>3, <2>3
    <3> QED
      BY <1>6, <2>3, <3>1, <3>2 DEF Exact
  <2> QED
    BY <1>3, <2>2, <2>3
<1> QED
  BY <1>7, <1>8

(* A restart takes the clock above the markers and the stored messages; those
   in incoming/ above it are the stranded ones.                              *)
LEMMA RestartKeeps ==
    ASSUME IInv, Restart
    PROVE  last' \in Nat /\ Ahead' /\ AllExact'
<1>0. /\ id' = id /\ marker' = marker /\ base' = base /\ incoming' = incoming
      /\ stored' = stored /\ tmp' = {} /\ group' # "building"
      /\ \A a \in Adders : add'[a].at = "idle"
      /\ stray' = stray \cup {m \in incoming : id[m] > last'}
  BY DEF Restart, markers, Idle, IInv, TypeOK
<1>1. last' \in Nat
  <2>1. \A u \in Users : Stamped(u) => marker[u] \in Nat
    BY DEF IInv, TypeOK, Stamped
  <2>2. \A m \in stored : id[m] \in Nat
    BY DEF IInv, TypeOK, Minted
  <2> QED
    BY <2>1, <2>2 DEF Restart, Floor, IInv, TypeOK
<1>2. \A m \in stored : id[m] <= last'
  BY DEF Restart, Floor
<1>3. \A u \in Users : Stamped(u) => marker[u] <= last'
  BY DEF Restart, Floor
<1>4. \A s, n \in Nat : Drawn(s, n)' =>
        Drawn(s, n) /\ \E u \in Users : Stamped(u) /\ s = marker[u] /\ n = base[u]
  BY <1>0 DEF Drawn, Stamped
<1>5. Live' = incoming \cup stored /\ Live' \subseteq Live
  BY <1>0 DEF Live
<1>6. \A m \in incoming : id[m] \in Nat
  BY DEF IInv, TypeOK, Minted
<1>7. Ahead'
  <2>1. \A m \in Live' \ stray' : id'[m] <= last'
    BY <1>0, <1>1, <1>2, <1>5, <1>6
  <2>2. ASSUME NEW s \in Nat, NEW n \in Nat, Drawn(s, n)'
        PROVE  s <= last' /\ n <= Len(id')
    BY <1>0, <1>3, <1>4, <2>2 DEF IInv, Ahead
  <2> QED
    BY <2>1, <2>2 DEF Ahead
<1>8. AllExact'
  <2> SUFFICES ASSUME NEW s \in Nat, NEW n \in Nat, Drawn(s, n)', NEW m \in Live'
               PROVE  IF m > n THEN id'[m] > s ELSE id'[m] < s \/ m \in stray'
    BY DEF AllExact, Exact
  <2>1. Exact(s, n)
    BY <1>4 DEF IInv, AllExact
  <2> QED
    BY <1>0, <1>5, <2>1 DEF Exact
<1> QED
  BY <1>1, <1>7, <1>8

-----------------------------------------------------------------------------
(* The types of the adds and of the reads. *)
AddType == [at : {"idle", "draw", "open", "write"}, user : Users \cup {Absent},
            stamp : Nat, base : Nat, orphan : BOOLEAN]
ReadType == [at : {"idle", "gate", "show", "done"}, user : Users \cup {Absent},
             gate : Nat, base : Nat, had : SUBSET Nat, shown : SUBSET Nat, disturbed : BOOLEAN]

CoreTyped ==
    /\ last \in Nat /\ hwm \in Nat
    /\ group \in {"none", "building", "there"}
    /\ founded \in [stamp : Nat, base : Nat]
    /\ id \in Seq(Nat)
    /\ tmp \subseteq Minted /\ incoming \subseteq Minted /\ stored \subseteq Minted
    /\ marker \in [Users -> Nat \cup {Absent, Empty}]
    /\ base \in [Users -> Nat]
AddsTyped == /\ add \in [Adders -> AddType]
             /\ \A a \in Adders : add[a].at # "idle" => add[a].user \in Users
ReadsTyped == /\ read \in [Readers -> ReadType]
              /\ \A r \in Readers : read[r].at # "idle" => read[r].user \in Users

(* The type invariant in parts: the group, the adds, the reads. *)
LEMMA TypeParts == TypeOK <=> CoreTyped /\ AddsTyped /\ ReadsTyped
BY DEF TypeOK, CoreTyped, AddsTyped, ReadsTyped, AddType, ReadType

LEMMA TypePartsNext == CoreTyped' /\ AddsTyped' /\ ReadsTyped' => TypeOK'
BY DEF TypeOK, CoreTyped, AddsTyped, ReadsTyped, AddType, ReadType

(* A step of one add, of one read. *)
LEMMA AddOneType ==
    ASSUME AddsTyped, NEW a \in Adders, NEW r \in AddType, r.at # "idle" => r.user \in Users,
           add' = [add EXCEPT ![a] = r]
    PROVE  AddsTyped'
<1> HIDE DEF AddType
<1> QED
  BY DEF AddsTyped

LEMMA ReadOneType ==
    ASSUME ReadsTyped, NEW r \in Readers, NEW q \in ReadType, q.at # "idle" => q.user \in Users,
           read' = [read EXCEPT ![r] = q]
    PROVE  ReadsTyped'
<1> HIDE DEF ReadType
<1> QED
  BY DEF ReadsTyped

(* Where a leave or a marker that is opened disturbs a read, the reads keep
   their type.                                                               *)
LEMMA DisturbType ==
    ASSUME TypeOK, NEW u, Disturb(u)
    PROVE  ReadsTyped'
<1>1. read \in [Readers -> ReadType]
  BY DEF TypeOK, ReadType
<1>2. ASSUME NEW r \in Readers
      PROVE  /\ read'[r] \in ReadType
             /\ read'[r].at = read[r].at /\ read'[r].user = read[r].user
  <2>1. (read[r].disturbed \/ read[r].user = u) \in BOOLEAN
    OBVIOUS
  <2>2. read[r] \in ReadType
    BY <1>1
  <2>3. read'[r] = [read[r] EXCEPT !.disturbed = (read[r].disturbed \/ read[r].user = u)]
    BY DEF Disturb
  <2> HIDE DEF ReadType
  <2>4. \A b \in BOOLEAN : LET q == [read[r] EXCEPT !.disturbed = b]
                          IN  q \in ReadType /\ q.at = read[r].at /\ q.user = read[r].user
    BY <2>2 DEF ReadType
  <2> QED
    BY <2>1, <2>3, <2>4
<1>3. read' \in [Readers -> ReadType]
  BY <1>2, <1>1 DEF Disturb
<1> QED
  BY <1>2, <1>3 DEF TypeOK, ReadsTyped

(* A leave only tells the adds that their file is gone. *)
LEMMA OrphanType ==
    ASSUME TypeOK, NEW u \in Users, Leave(u)
    PROVE  /\ AddsTyped'
           /\ \A a \in Adders : /\ add'[a].at = add[a].at /\ add'[a].user = add[a].user
                               /\ add'[a].stamp = add[a].stamp /\ add'[a].base = add[a].base
<1> DEFINE Gone(a) == add[a].orphan \/ (add[a].at = "write" /\ add[a].user = u)
<1>1. add' = [a \in Adders |-> [add[a] EXCEPT !.orphan = Gone(a)]]
  BY DEF Leave
<1>2. ASSUME NEW a \in Adders
      PROVE  Gone(a) \in BOOLEAN
  OBVIOUS
<1>3. ASSUME NEW a \in Adders, NEW b \in BOOLEAN
      PROVE  LET q == [add[a] EXCEPT !.orphan = b]
             IN  /\ q \in AddType /\ q.at = add[a].at /\ q.user = add[a].user
                 /\ q.stamp = add[a].stamp /\ q.base = add[a].base
  <2>1. add[a] \in AddType
    BY DEF TypeOK, AddType
  <2> QED
    BY <2>1 DEF AddType
<1> HIDE DEF Gone
<1>4. /\ add' \in [Adders -> AddType]
      /\ \A a \in Adders : /\ add'[a].at = add[a].at /\ add'[a].user = add[a].user
                          /\ add'[a].stamp = add[a].stamp /\ add'[a].base = add[a].base
  BY <1>1, <1>2, <1>3
<1> QED
  BY <1>4 DEF TypeOK, AddsTyped

(* The invariant holds of an empty server ... *)
LEMMA MembershipInit == Init => IInv
<1> SUFFICES ASSUME Init PROVE IInv
  OBVIOUS
<1>1. TypeOK
  BY MembershipAssumption DEF Init, TypeOK, Idle, Closed
<1>2. Live = {} /\ \A s, n \in Nat : ~Drawn(s, n)
  BY DEF Init, Live, Drawn, Stamped, Idle
<1> QED
  BY <1>1, <1>2 DEF IInv, Ahead, AllExact

(* ... and every step keeps it. *)
LEMMA MembershipStep == IInv /\ [Next]_vars => IInv'
<1> SUFFICES ASSUME IInv, [Next]_vars PROVE IInv'
  OBVIOUS
<1> USE MembershipAssumption
<1>0. TypeOK
  BY DEF IInv
<1>1. CASE Restart
  <2>1. last' \in Nat /\ Ahead' /\ AllExact'
    BY <1>1, RestartKeeps
  <2>2. TypeOK'
    BY <1>0, <1>1, <2>1 DEF TypeOK, Restart, Idle, Closed, markers, Minted
  <2> QED
    BY <2>1, <2>2 DEF IInv
<1>2. CASE CreateGroup
  <2>0. Draw /\ last' \in Nat /\ hwm' \in Nat
    BY <1>0, <1>2, DrawIsNewer DEF CreateGroup
  <2>1. TypeOK'
    BY SMTT(30), <1>0, <1>2, <2>0 DEF TypeOK, CreateGroup, messages, markers, Minted
  <2>2. /\ id' = id /\ Live' = Live /\ stray' = stray
        /\ \A s, n \in Nat : Drawn(s, n)' => Drawn(s, n) \/ (s = last' /\ n = Len(id))
    BY <1>2 DEF CreateGroup, messages, markers, Live, Drawn, Stamped
  <2> QED
    BY <2>0, <2>1, <2>2, DrawKeeps DEF IInv
<1>3. CASE PublishGroup
  <2>1. TypeOK'
    BY <1>0, <1>3 DEF TypeOK, PublishGroup, clock, messages, Minted
  <2>2. /\ last' = last /\ id' = id /\ Live' \subseteq Live /\ stray' = stray
        /\ \A s, n \in Nat : Drawn(s, n)' => Drawn(s, n)
    BY <1>3 DEF PublishGroup, clock, messages, Live, Drawn, Stamped
  <2> QED
    BY <2>1, <2>2, StillKeeps DEF IInv
<1>4. CASE Mint
  <2>0. last' \in Nat /\ hwm' \in Nat
    BY <1>0, <1>4, DrawIsNewer DEF Mint
  <2>1. id' \in Seq(Nat) /\ Len(id') = Len(id) + 1 /\ Len(id) \in Nat
    BY <1>0, <1>4, <2>0 DEF TypeOK, Mint
  <2>2. Minted \subseteq Minted' /\ Len(id') \in Minted'
    BY <2>1 DEF Minted
  <2>3. TypeOK'
    BY <1>0, <1>4, <2>0, <2>1, <2>2 DEF TypeOK, Mint, markers
  <2> QED
    BY <1>4, <2>3, MintKeeps DEF IInv
<1>5. ASSUME NEW m \in Minted, Spool(m)
      PROVE  IInv'
  <2>1. TypeOK'
    BY <1>0, <1>5 DEF TypeOK, Spool, clock, markers, Minted
  <2>2. /\ last' = last /\ id' = id /\ Live' \subseteq Live /\ stray' = stray
        /\ \A s, n \in Nat : Drawn(s, n)' => Drawn(s, n)
    BY <1>5 DEF Spool, clock, markers, Live, Drawn, Stamped
  <2> QED
    BY <2>1, <2>2, StillKeeps DEF IInv
<1>6. ASSUME NEW m \in Minted, Route(m)
      PROVE  IInv'
  <2>1. TypeOK'
    BY <1>0, <1>6 DEF TypeOK, Route, clock, markers, Minted
  <2>2. /\ last' = last /\ id' = id /\ Live' \subseteq Live /\ stray' = stray
        /\ \A s, n \in Nat : Drawn(s, n)' => Drawn(s, n)
    BY <1>6 DEF Route, clock, markers, Live, Drawn, Stamped
  <2> QED
    BY <2>1, <2>2, StillKeeps DEF IInv
<1>7. ASSUME NEW a \in Adders, NEW u \in Users, AddCheck(a, u)
      PROVE  IInv'
  <2>1. TypeOK'
    BY <1>0, <1>7 DEF TypeOK, AddCheck, Idle, clock, markers, messages, Minted
  <2>2. /\ last' = last /\ id' = id /\ Live' \subseteq Live /\ stray' = stray
        /\ \A s, n \in Nat : Drawn(s, n)' => Drawn(s, n)
    BY <1>0, <1>7 DEF TypeOK, AddCheck, Idle, clock, messages, markers, Live, Drawn, Stamped
  <2> QED
    BY <2>1, <2>2, StillKeeps DEF IInv
<1>8. ASSUME NEW a \in Adders, AddDraw(a)
      PROVE  IInv'
  <2>0. Draw /\ last' \in Nat /\ hwm' \in Nat
    BY <1>0, <1>8, DrawIsNewer DEF AddDraw
  <2>1. TypeOK'
    <3> DEFINE r == [add[a] EXCEPT !.at = "open", !.stamp = last', !.base = Len(id)]
    <3>1. Len(id) \in Nat
      BY <1>0 DEF TypeOK
    <3>2. add[a] \in AddType /\ add[a].user \in Users /\ AddsTyped
      BY <1>0, <1>8, TypeParts DEF AddsTyped, AddDraw
    <3>3. r \in AddType /\ r.user \in Users
      BY <2>0, <3>1, <3>2 DEF AddType
    <3>4. add' = [add EXCEPT ![a] = r]
      BY <1>8 DEF AddDraw
    <3>5. AddsTyped'
      BY <3>2, <3>3, <3>4, AddOneType
    <3>6. CoreTyped' /\ ReadsTyped'
      BY <1>0, <1>8, <2>0, TypeParts
      DEF CoreTyped, ReadsTyped, AddDraw, markers, messages, Minted
    <3> QED
      BY <3>5, <3>6, TypePartsNext
  <2>2. /\ id' = id /\ Live' = Live /\ stray' = stray
        /\ \A s, n \in Nat : Drawn(s, n)' => Drawn(s, n) \/ (s = last' /\ n = Len(id))
    BY SMTT(30), <1>0, <1>8 DEF TypeOK, AddDraw, messages, markers, Live, Drawn, Stamped
  <2> QED
    BY <2>0, <2>1, <2>2, DrawKeeps DEF IInv
<1>9. ASSUME NEW a \in Adders, AddOpen(a)
      PROVE  IInv'
  <2>0. add[a].user \in Users
    BY <1>0, <1>9 DEF TypeOK, AddOpen
  <2>1. TypeOK'
    <3> DEFINE r == [add[a] EXCEPT !.at = "write"]
    <3>1. add[a] \in AddType /\ AddsTyped
      BY <1>0, TypeParts DEF AddsTyped
    <3>2. r \in AddType /\ r.user \in Users /\ add' = [add EXCEPT ![a] = r]
      BY <1>9, <2>0, <3>1 DEF AddType, AddOpen
    <3>3. AddsTyped'
      BY <3>1, <3>2, AddOneType
    <3>4. ReadsTyped'
      BY <1>0, <1>9, DisturbType DEF AddOpen
    <3>5. CoreTyped'
      BY <1>0, <1>9, <2>0, TypeParts DEF CoreTyped, AddOpen, clock, messages, Minted
    <3> QED
      BY <3>3, <3>4, <3>5, TypePartsNext
  <2>2. /\ last' = last /\ id' = id /\ Live' \subseteq Live /\ stray' = stray
        /\ \A s, n \in Nat : Drawn(s, n)' => Drawn(s, n)
    BY SMTT(30), <1>0, <1>9 DEF TypeOK, AddOpen, clock, messages, Live, Drawn, Stamped
  <2> QED
    BY <2>1, <2>2, StillKeeps DEF IInv
<1>10. ASSUME NEW a \in Adders, AddWrite(a)
       PROVE  IInv'
  <2>0. add[a].user \in Users
    BY <1>0, <1>10 DEF TypeOK, AddWrite
  <2>1. TypeOK'
    <3>1. add[a] \in AddType /\ AddsTyped
      BY <1>0, TypeParts DEF AddsTyped
    <3>2. Idle \in AddType /\ Idle.at = "idle" /\ add' = [add EXCEPT ![a] = Idle]
      BY <1>10 DEF AddType, AddWrite, Idle
    <3>3. AddsTyped'
      BY <3>1, <3>2, AddOneType
    <3>4. ReadsTyped'
      BY <1>0, <1>10, DisturbType DEF AddWrite
    <3>5. CoreTyped'
      <4>1. add[a].stamp \in Nat /\ add[a].base \in Nat
        BY <3>1 DEF AddType
      <4> QED
        BY <1>0, <1>10, <2>0, <4>1, TypeParts DEF CoreTyped, AddWrite, clock, messages, Minted
    <3> QED
      BY <3>3, <3>4, <3>5, TypePartsNext
  <2>2. /\ last' = last /\ id' = id /\ Live' \subseteq Live /\ stray' = stray
        /\ \A s, n \in Nat : Drawn(s, n)' => Drawn(s, n)
    <3>1. add[a].at = "write" /\ add' = [add EXCEPT ![a] = Idle] /\ Idle.at = "idle"
          /\ UNCHANGED <<clock, group, founded, messages, stray>>
      BY <1>10 DEF AddWrite, Idle
    <3>2. \A u \in Users : \/ marker'[u] = marker[u] /\ base'[u] = base[u]
                           \/ marker'[u] = add[a].stamp /\ base'[u] = add[a].base
      BY <1>0, <1>10, TypeParts DEF CoreTyped, AddWrite
    <3>3. ASSUME NEW s \in Nat, NEW n \in Nat, Drawn(s, n)' PROVE Drawn(s, n)
      <4>1. CASE \E u \in Users : Stamped(u)' /\ s = marker'[u] /\ n = base'[u]
        BY <3>1, <3>2, <4>1 DEF Drawn, Stamped
      <4>2. CASE \E b \in Adders : add'[b].at \in {"open", "write"} /\ s = add'[b].stamp
                                  /\ n = add'[b].base
        BY <1>0, <3>1, <4>2 DEF Drawn, TypeOK
      <4>3. CASE group' = "building" /\ s = founded'.stamp /\ n = founded'.base
        BY <3>1, <4>3 DEF Drawn
      <4> QED
        BY <3>3, <4>1, <4>2, <4>3 DEF Drawn
    <3> QED
      BY <3>1, <3>3 DEF clock, messages, Live
  <2> QED
    BY <2>1, <2>2, StillKeeps DEF IInv
<1>11. ASSUME NEW u \in Users, Leave(u)
       PROVE  IInv'
  <2>1. TypeOK'
    <3>1. AddsTyped'
      BY <1>0, <1>11, OrphanType
    <3>2. ReadsTyped'
      BY <1>0, <1>11, DisturbType DEF Leave
    <3>3. CoreTyped'
      BY <1>0, <1>11, TypeParts DEF CoreTyped, Leave, clock, messages, Minted
    <3> QED
      BY <3>1, <3>2, <3>3, TypePartsNext
  <2>2. /\ last' = last /\ id' = id /\ Live' \subseteq Live /\ stray' = stray
        /\ \A s, n \in Nat : Drawn(s, n)' => Drawn(s, n)
    <3>1. \A x \in Users : Stamped(x)' => Stamped(x) /\ marker'[x] = marker[x] /\ base'[x] = base[x]
      BY <1>0, <1>11 DEF TypeOK, Leave, Stamped
    <3>2. \A a \in Adders : /\ add'[a].at = add[a].at /\ add'[a].stamp = add[a].stamp
                           /\ add'[a].base = add[a].base
      BY <1>0, <1>11, OrphanType
    <3>3. UNCHANGED <<last, group, founded, id, Live, stray>>
      BY <1>11 DEF Leave, clock, messages, Live
    <3> QED
      BY <3>1, <3>2, <3>3 DEF Drawn
  <2> QED
    BY <2>1, <2>2, StillKeeps DEF IInv
<1>12. ASSUME NEW r \in Readers, Read(r)
       PROVE  IInv'
  <2>0. stored \subseteq Nat
    BY <1>0 DEF TypeOK, Minted
  <2>1. UNCHANGED <<clock, group, founded, messages, markers, add, stray, bounds>>
    BY <1>12 DEF Read, IsMember, JoinedAt, Show, ReadEnds
  <2>2. ReadsTyped'
    <3>0. ReadsTyped /\ read[r] \in ReadType
      BY <1>0, TypeParts DEF ReadsTyped
    <3>1. ASSUME NEW u \in Users, IsMember(r, u)
          PROVE  ReadsTyped'
      <4> DEFINE q == [Closed EXCEPT !.at = "gate", !.user = u, !.base = base[u], !.had = stored,
                                     !.disturbed = ~Stamped(u)]
      <4>1. (~Stamped(u)) \in BOOLEAN
        BY Zenon DEF Stamped
      <4>2. base[u] \in Nat
        BY <1>0 DEF TypeOK
      <4>3. \A b \in BOOLEAN :
              [Closed EXCEPT !.at = "gate", !.user = u, !.base = base[u], !.had = stored,
                             !.disturbed = b] \in ReadType
        BY <2>0, <4>2 DEF Closed, ReadType
      <4>4. q \in ReadType
        BY <4>1, <4>3
      <4>5. q.user \in Users
        BY DEF Closed
      <4>6. read' = [read EXCEPT ![r] = q]
        BY <3>1 DEF IsMember
      <4> QED
        BY <3>0, <4>4, <4>5, <4>6, ReadOneType
    <3>2. CASE JoinedAt(r)
      <4>1. read[r].user \in Users
        BY <3>0, <3>2 DEF ReadsTyped, JoinedAt
      <4>2. Stamped(read[r].user) => marker[read[r].user] \in Nat
        BY <1>0, <4>1 DEF TypeOK, Stamped
      <4>3. PICK g \in Nat : Gate(r, g)
        BY <3>2, <4>2 DEF JoinedAt
      <4> DEFINE q == [read[r] EXCEPT !.at = "show", !.gate = g]
      <4>4. q \in ReadType /\ q.user \in Users /\ read' = [read EXCEPT ![r] = q]
        BY <3>0, <4>1, <4>3 DEF ReadType, Gate
      <4> QED
        BY <3>0, <4>4, ReadOneType
    <3>3. CASE Show(r)
      <4> DEFINE q == [read[r] EXCEPT !.at = "done",
                                      !.shown = {m \in stored : id[m] >= read[r].gate}]
      <4>1. read[r].user \in Users
        BY <3>0, <3>3 DEF ReadsTyped, Show
      <4>2. q \in ReadType /\ q.user \in Users /\ read' = [read EXCEPT ![r] = q]
        BY <2>0, <3>0, <3>3, <4>1 DEF ReadType, Show
      <4> QED
        BY <3>0, <4>2, ReadOneType
    <3>4. CASE ReadEnds(r)
      <4>1. Closed \in ReadType /\ Closed.at = "idle" /\ read' = [read EXCEPT ![r] = Closed]
        BY <3>4 DEF Closed, ReadType, ReadEnds
      <4> QED
        BY <3>0, <4>1, ReadOneType
    <3> QED
      BY <1>12, <3>1, <3>2, <3>3, <3>4 DEF Read
  <2>3. TypeOK'
    <3>1. CoreTyped' /\ AddsTyped'
      BY <1>0, <2>1, TypeParts DEF CoreTyped, AddsTyped, clock, messages, markers, Minted
    <3> QED
      BY <2>2, <3>1, TypePartsNext
  <2>4. /\ last' = last /\ id' = id /\ Live' \subseteq Live /\ stray' = stray
        /\ \A s, n \in Nat : Drawn(s, n)' => Drawn(s, n)
    BY <2>1 DEF clock, messages, markers, Live, Drawn, Stamped
  <2> QED
    BY <2>3, <2>4, StillKeeps DEF IInv
<1>13. CASE UNCHANGED vars
  <2>1. TypeOK'
    BY <1>0, <1>13 DEF TypeOK, vars, clock, messages, markers, Minted
  <2>2. /\ last' = last /\ id' = id /\ Live' \subseteq Live /\ stray' = stray
        /\ \A s, n \in Nat : Drawn(s, n)' => Drawn(s, n)
    BY <1>13 DEF vars, clock, messages, markers, Live, Drawn, Stamped
  <2> QED
    BY <2>1, <2>2, StillKeeps DEF IInv
<1> QED
  BY <1>1, <1>2, <1>3, <1>4, <1>5, <1>6, <1>7, <1>8, <1>9, <1>10, <1>11, <1>12, <1>13
  DEF Next, Add

(* The inductive invariant of the join gate. *)
THEOREM MembershipInvariance == Spec => []IInv
<1>1. Init => IInv
  BY MembershipInit
<1>2. IInv /\ [Next]_vars => IInv'
  BY MembershipStep
<1> QED
  BY <1>1, <1>2, PTL DEF Spec

(* Whatever the wall clock shows, whichever marks are lost and however adds,
   leaves and restarts interleave, a join stamp tells exactly the messages from
   before it from those after (store.py:42-57, api.py:1236), stranded messages
   apart.                                                                    *)
THEOREM GateIsAlwaysExact == Spec => []GateIsExact
<1>1. IInv => GateIsExact
  BY DEF IInv, TypeOK, AllExact, Drawn, GateIsExact, Stamped
<1> QED
  BY <1>1, MembershipInvariance, PTL

-----------------------------------------------------------------------------
(* The adds that have looked at the size and not yet opened their marker. *)
Pending == {a \in Adders : add[a].at \in {"draw", "open"}}
Room == IF Adders = {} THEN 0 ELSE Cardinality(Adders) - 1

CapInv ==
    /\ Cardinality(Members) + Cardinality(Pending) <= MaxMembers + Room
    /\ group # "there" => Members = {} /\ \A a \in Adders : add[a].at = "idle"
    /\ \A a \in Adders : add[a].at = "write" /\ ~add[a].orphan => add[a].user \in Members

LEMMA CapSizes ==
    /\ IsFiniteSet(Members) /\ Cardinality(Members) \in Nat
    /\ IsFiniteSet(Pending) /\ Cardinality(Pending) \in Nat
    /\ Cardinality(Pending) <= Cardinality(Adders) /\ Cardinality(Adders) \in Nat
    /\ Room \in Nat /\ MaxMembers \in Nat
    /\ \A a \in Adders : Room = Cardinality(Adders) - 1
<1>1. IsFiniteSet(Members) /\ IsFiniteSet(Pending)
  BY MembershipAssumption, FS_Subset DEF Members, Pending
<1>2. Cardinality(Pending) <= Cardinality(Adders)
  BY MembershipAssumption, FS_Subset DEF Pending
<1>3. Cardinality(Members) \in Nat /\ Cardinality(Pending) \in Nat /\ Cardinality(Adders) \in Nat
  BY <1>1, MembershipAssumption, FS_CardinalityType
<1>4. Adders # {} => Cardinality(Adders) # 0
  BY MembershipAssumption, FS_EmptySet
<1> QED
  BY <1>1, <1>2, <1>3, <1>4, MembershipAssumption DEF Room

LEMMA CapSizesNext ==
    /\ IsFiniteSet(Members') /\ Cardinality(Members') \in Nat
    /\ IsFiniteSet(Pending') /\ Cardinality(Pending') \in Nat
    /\ Cardinality(Pending') <= Cardinality(Adders)
<1>1. IsFiniteSet(Members') /\ IsFiniteSet(Pending')
  BY MembershipAssumption, FS_Subset DEF Members, Pending
<1>2. Cardinality(Pending') <= Cardinality(Adders)
  BY MembershipAssumption, FS_Subset DEF Pending
<1> QED
  BY <1>1, <1>2, FS_CardinalityType

(* A step that adds no member and no pending add keeps the cap. *)
LEMMA FewerKeep ==
    ASSUME CapInv, Members' \subseteq Members, Pending' \subseteq Pending
    PROVE  Cardinality(Members') + Cardinality(Pending') <= MaxMembers + Room
<1>1. Cardinality(Members') <= Cardinality(Members) /\ Cardinality(Pending') <= Cardinality(Pending)
  BY CapSizes, FS_Subset
<1> QED
  BY <1>1, CapSizes, CapSizesNext DEF CapInv

(* The cap holds of an empty server ... *)
LEMMA CapInit == Init => CapInv
<1> SUFFICES ASSUME Init PROVE CapInv
  OBVIOUS
<1>1. Members = {} /\ Pending = {} /\ \A a \in Adders : add[a].at = "idle"
  BY DEF Init, Members, Pending, Idle
<1>2. Cardinality(Members) = 0 /\ Cardinality(Pending) = 0
  BY <1>1, FS_EmptySet
<1> QED
  BY <1>1, <1>2, CapSizes DEF CapInv

(* ... and every step keeps it. *)
LEMMA CapStep == TypeOK /\ CapInv /\ [Next]_vars => CapInv'
<1> SUFFICES ASSUME TypeOK, CapInv, [Next]_vars PROVE CapInv'
  OBVIOUS
<1>1. CASE Restart
  <2>1. Members' = Members /\ Pending' = {} /\ \A a \in Adders : add'[a].at = "idle"
    BY <1>1 DEF Restart, markers, Members, Pending, Idle
  <2>2. group' # "there" => group # "there"
    BY <1>1 DEF Restart
  <2> QED
    BY <2>1, <2>2, FewerKeep DEF CapInv
<1>2. CASE PublishGroup
  <2>1. \A a \in Adders : add'[a] = add[a] /\ add[a].at = "idle"
    BY <1>2 DEF PublishGroup, CapInv
  <2>2. Members' \subseteq Founders /\ Pending' = {}
    BY <1>2, <2>1 DEF PublishGroup, Members, Pending
  <2>3. Cardinality(Members') <= Cardinality(Founders) /\ Cardinality(Pending') = 0
        /\ Cardinality(Founders) \in Nat
    BY <2>2, MembershipAssumption, FS_Subset, FS_EmptySet, FS_CardinalityType
  <2>4. Cardinality(Members') + Cardinality(Pending') <= MaxMembers + Room
    BY <2>3, CapSizes, CapSizesNext, MembershipAssumption
  <2> QED
    BY <1>2, <2>1, <2>4 DEF PublishGroup, CapInv
<1>3. ASSUME NEW a \in Adders, NEW u \in Users, AddCheck(a, u)
      PROVE  CapInv'
  <2>1. Members' = Members
    BY <1>3 DEF AddCheck, markers, Members
  <2>2. Cardinality(Members) < MaxMembers
    BY <1>3 DEF AddCheck
  <2>3. Cardinality(Members') + Cardinality(Pending') <= MaxMembers + Room
    BY <2>1, <2>2, CapSizes, CapSizesNext
  <2>4. group' = "there" /\ group = "there"
    BY <1>3 DEF AddCheck
  <2>5. \A b \in Adders : add'[b].at = "write" => add'[b] = add[b]
    BY <1>3 DEF TypeOK, AddCheck, Idle
  <2> QED
    BY <2>1, <2>3, <2>4, <2>5 DEF CapInv
<1>4. ASSUME NEW a \in Adders, AddDraw(a)
      PROVE  CapInv'
  <2>1. Members' = Members /\ group' = group
    BY <1>4 DEF AddDraw, markers, Members
  <2>2. \A b \in Adders : \/ add'[b] = add[b]
                          \/ add[b].at = "draw" /\ add'[b].at = "open"
    BY <1>4 DEF TypeOK, AddDraw
  <2>3. Pending' \subseteq Pending
    BY <2>2 DEF Pending
  <2>4. Cardinality(Members') + Cardinality(Pending') <= MaxMembers + Room
    BY <2>1, <2>3, FewerKeep
  <2>5. add[a].at # "idle" /\ group = "there"
    BY <1>4 DEF AddDraw, CapInv
  <2>6. \A b \in Adders : add'[b].at = "write" => add'[b] = add[b]
    BY <2>2
  <2> QED
    BY <2>1, <2>4, <2>5, <2>6 DEF CapInv
<1>5. ASSUME NEW a \in Adders, AddOpen(a)
      PROVE  CapInv'
  <2> DEFINE u == add[a].user
  <2>1. u \in Users /\ a \in Pending /\ group = "there" /\ group' = group
    BY <1>5 DEF TypeOK, AddOpen, Pending, CapInv
  <2>2. Members' = Members \cup {u}
    BY <1>5, <2>1, MembershipAssumption DEF TypeOK, AddOpen, Members
  <2>3. /\ add' = [add EXCEPT ![a].at = "write"]
        /\ \A b \in Adders \ {a} : add'[b] = add[b]
        /\ add'[a].at = "write" /\ add'[a].user = u
    BY <1>5 DEF TypeOK, AddOpen
  <2>4. Pending' = Pending \ {a}
    BY <2>3 DEF Pending
  <2>5. Cardinality(Pending') = Cardinality(Pending) - 1
    BY <2>1, <2>4, CapSizes, FS_RemoveElement
  <2>6. Cardinality(Members') <= Cardinality(Members) + 1
    <3>1. CASE u \in Members
      <4>1. Members' = Members
        BY <2>2, <3>1
      <4> QED
        BY <4>1, CapSizes
    <3>2. CASE u \notin Members
      <4>1. Cardinality(Members') = Cardinality(Members) + 1
        BY <2>2, <3>2, CapSizes, FS_AddElement
      <4> QED
        BY <4>1, CapSizes
    <3> QED
      BY <3>1, <3>2
  <2>7. Cardinality(Members') + Cardinality(Pending') <= MaxMembers + Room
    BY <2>5, <2>6, CapSizes, CapSizesNext DEF CapInv
  <2>8. \A b \in Adders : add'[b].at = "write" /\ ~add'[b].orphan => add'[b].user \in Members'
    BY <2>2, <2>3 DEF CapInv
  <2> QED
    BY <2>1, <2>7, <2>8 DEF CapInv
<1>6. ASSUME NEW a \in Adders, AddWrite(a)
      PROVE  CapInv'
  <2>1. \A b \in Adders : add'[b] = add[b] \/ add'[b].at = "idle"
    BY <1>6 DEF TypeOK, AddWrite, Idle
  <2>2. Pending' \subseteq Pending
    BY <2>1 DEF Pending
  <2>3. Members' = Members
    <3>1. CASE add[a].orphan
      BY <1>6, <3>1 DEF AddWrite, Members
    <3>2. CASE ~add[a].orphan
      <4>1. add[a].user \in Members /\ add[a].stamp \in Nat
        BY <1>6, <3>2 DEF CapInv, AddWrite, TypeOK
      <4>2. marker' = [marker EXCEPT ![add[a].user] = add[a].stamp]
        BY <1>6, <3>2 DEF AddWrite
      <4> QED
        BY <4>1, <4>2, MembershipAssumption DEF TypeOK, Members
    <3> QED
      BY <3>1, <3>2
  <2>4. group' = group /\ group = "there"
    BY <1>6 DEF AddWrite, CapInv
  <2>5. Cardinality(Members') + Cardinality(Pending') <= MaxMembers + Room
    BY <2>2, <2>3, FewerKeep
  <2> QED
    BY <2>1, <2>3, <2>4, <2>5 DEF CapInv
<1>7. ASSUME NEW u \in Users, Leave(u)
      PROVE  CapInv'
  <2>1. Members' = Members \ {u}
    BY <1>7 DEF TypeOK, Leave, Members
  <2>2. /\ \A b \in Adders : add'[b].at = add[b].at /\ add'[b].user = add[b].user
        /\ Pending' \subseteq Pending
    BY <1>7, OrphanType DEF Pending
  <2>3. \A b \in Adders : add'[b].orphan = (add[b].orphan \/ (add[b].at = "write" /\ add[b].user = u))
    BY <1>7 DEF Leave, TypeOK
  <2>4. group' = group /\ group = "there"
    BY <1>7 DEF Leave, CapInv
  <2>5. Cardinality(Members') + Cardinality(Pending') <= MaxMembers + Room
    BY <2>1, <2>2, FewerKeep
  <2>6. \A b \in Adders : add'[b].at = "write" /\ ~add'[b].orphan => add'[b].user \in Members'
    BY <2>1, <2>2, <2>3 DEF CapInv
  <2> QED
    BY <2>4, <2>5, <2>6 DEF CapInv
<1>8. ASSUME UNCHANGED <<marker, add>>, group' = "there" => group = "there",
             group' # "there" => group # "there"
      PROVE  CapInv'
  <2>1. Members' = Members /\ Pending' = Pending
    BY <1>8 DEF Members, Pending
  <2> QED
    BY <1>8, <2>1 DEF CapInv
<1>9. CASE CreateGroup \/ Mint \/ UNCHANGED vars
  BY <1>8, <1>9 DEF CreateGroup, Mint, markers, vars
<1>10. CASE \E m \in Minted : Spool(m) \/ Route(m)
  BY <1>8, <1>10 DEF Spool, Route, markers
<1>11. CASE \E r \in Readers : Read(r)
  BY <1>8, <1>11 DEF Read, IsMember, JoinedAt, Show, ReadEnds, markers
<1> QED
  BY <1>1, <1>2, <1>3, <1>4, <1>5, <1>6, <1>7, <1>9, <1>10, <1>11 DEF Next, Add

(* Adds that race past the look at the group's size overshoot the cap by one
   less than their number at most (api.py:1230-1236).                        *)
THEOREM OvershootIsBounded == Spec => []OvershootBounded
<1>1. CapInv => OvershootBounded
  BY CapSizes DEF CapInv, OvershootBounded, Room
<1>2. IInv => TypeOK
  BY DEF IInv
<1> QED
  BY <1>1, <1>2, CapInit, CapStep, MembershipInvariance, PTL DEF Spec
-----------------------------------------------------------------------------
(* A read that nothing disturbed took its base from the marker it is about to
   look at, has a gate that is as exact as the stamp it came from, and shows
   what the gate lets through.                                               *)
ReadOK(r) ==
    /\ read[r].at # "idle" => group = "there" /\ read[r].had \subseteq stored
    /\ read[r].at = "gate" /\ ~read[r].disturbed =>
          Stamped(read[r].user) /\ read[r].base = base[read[r].user]
    /\ read[r].at = "show" /\ ~read[r].disturbed =>
          /\ read[r].gate <= last /\ read[r].base <= Len(id)
          /\ Exact(read[r].gate, read[r].base)
    /\ read[r].at = "done" /\ ~read[r].disturbed =>
          /\ {m \in read[r].shown : m <= read[r].base} \subseteq stray
          /\ {m \in read[r].had : m > read[r].base} \subseteq read[r].shown

ReadInv == \A r \in Readers : ReadOK(r)

(* As long as the process lives, a gate stays exact: the messages minted since
   have ids above it.                                                        *)
LEMMA ExactStays ==
    ASSUME IInv, [Next]_vars, ~Restart, NEW s \in Nat, NEW n \in Nat,
           s <= last, n <= Len(id), Exact(s, n)
    PROVE  s <= last' /\ n <= Len(id') /\ Exact(s, n)'
<1>0. TypeOK /\ last \in Nat
  BY DEF IInv, TypeOK
<1>1. ASSUME last' \in Nat, last' >= last, id' = id, Live' \subseteq Live, stray' = stray
      PROVE  s <= last' /\ n <= Len(id') /\ Exact(s, n)'
  BY <1>0, <1>1 DEF Exact
<1>2. CASE Draw /\ UNCHANGED <<messages, stray>>
  <2>1. last' \in Nat /\ last' > last
    BY <1>0, <1>2, DrawIsNewer
  <2> QED
    BY <1>0, <1>1, <1>2, <2>1 DEF messages, Live
<1>3. CASE Mint
  <2>1. last' \in Nat /\ last' > last /\ Len(id) \in Nat
    BY <1>0, <1>3, DrawIsNewer DEF Mint, TypeOK
  <2>2. /\ Len(id') = Len(id) + 1 /\ id'[Len(id) + 1] = last'
        /\ \A m \in 1..Len(id) : id'[m] = id[m]
    BY <1>0, <1>3, <2>1 DEF Mint, TypeOK
  <2>3. Live' = Live \cup {Len(id) + 1} /\ Live \subseteq 1..Len(id) /\ stray' = stray
    BY <1>0, <1>3, <2>1, <2>2 DEF Mint, TypeOK, Live, Minted
  <2>4. Exact(s, n)'
    <3> SUFFICES ASSUME NEW m \in Live'
                 PROVE  IF m > n THEN id'[m] > s ELSE id'[m] < s \/ m \in stray'
      BY DEF Exact
    <3>1. CASE m = Len(id) + 1
      BY <1>0, <2>1, <2>2, <3>1
    <3>2. CASE m \in Live
      BY <2>2, <2>3, <3>2 DEF Exact
    <3> QED
      BY <2>3, <3>1, <3>2
  <2> QED
    BY <1>0, <2>1, <2>2, <2>4
<1>4. CASE UNCHANGED <<clock, id, stray>> /\ Live' \subseteq Live
  BY <1>0, <1>1, <1>4 DEF clock
<1>5. CASE CreateGroup \/ \E a \in Adders : AddDraw(a)
  BY <1>2, <1>5 DEF CreateGroup, AddDraw
<1>6. CASE PublishGroup \/ (\E u \in Users : Leave(u)) \/ UNCHANGED vars
  BY <1>4, <1>6 DEF PublishGroup, Leave, vars, messages, Live
<1>7. CASE \E m \in Minted : Spool(m) \/ Route(m)
  BY <1>4, <1>7 DEF Spool, Route, Live
<1>8. CASE \E a \in Adders : AddOpen(a) \/ AddWrite(a) \/ \E u \in Users : AddCheck(a, u)
  BY <1>4, <1>8 DEF AddOpen, AddWrite, AddCheck, messages, Live
<1>9. CASE \E r \in Readers : Read(r)
  BY <1>4, <1>9 DEF Read, IsMember, JoinedAt, Show, ReadEnds, messages, Live
<1> QED
  BY <1>3, <1>5, <1>6, <1>7, <1>8, <1>9 DEF Next, Add

(* What leaves a read alone, or disturbs the reads of those whose marker it
   touches, keeps the invariant.                                             *)
LEMMA OthersKeep ==
    ASSUME IInv, [Next]_vars, ~Restart, NEW r \in Readers, ReadOK(r),
           read[r].at # "idle" => group' = "there",
           stored \subseteq stored', stray' = stray,
           /\ read'[r].at = read[r].at /\ read'[r].user = read[r].user
           /\ read'[r].gate = read[r].gate /\ read'[r].base = read[r].base
           /\ read'[r].had = read[r].had /\ read'[r].shown = read[r].shown
           /\ ~read'[r].disturbed => ~read[r].disturbed,
           read[r].at # "idle" /\ ~read'[r].disturbed =>
               /\ marker'[read[r].user] = marker[read[r].user]
               /\ base'[read[r].user] = base[read[r].user]
    PROVE  ReadOK(r)'
<1>1. (read[r].at # "idle" => group = "there" /\ read[r].had \subseteq stored)'
  BY DEF ReadOK
<1>2. (read[r].at = "gate" /\ ~read[r].disturbed =>
          Stamped(read[r].user) /\ read[r].base = base[read[r].user])'
  BY DEF ReadOK, Stamped
<1>3. ASSUME read'[r].at = "show", ~read'[r].disturbed
      PROVE  (/\ read[r].gate <= last /\ read[r].base <= Len(id)
              /\ Exact(read[r].gate, read[r].base))'
  <2>1. PICK s \in Nat, n \in Nat : s = read[r].gate /\ n = read[r].base
    BY DEF IInv, TypeOK
  <2>2. s <= last /\ n <= Len(id) /\ Exact(s, n)
    BY <1>3, <2>1 DEF ReadOK
  <2>3. s <= last' /\ n <= Len(id') /\ Exact(s, n)'
    BY <2>2, ExactStays
  <2>4. s = read'[r].gate /\ n = read'[r].base
    BY <2>1
  <2> QED
    BY <2>3, <2>4 DEF Exact
<1>4. (read[r].at = "done" /\ ~read[r].disturbed =>
          /\ {m \in read[r].shown : m <= read[r].base} \subseteq stray
          /\ {m \in read[r].had : m > read[r].base} \subseteq read[r].shown)'
  BY DEF ReadOK
<1> QED
  BY <1>1, <1>2, <1>3, <1>4 DEF ReadOK

(* The steps of the reader itself. *)
LEMMA ReaderKeeps ==
    ASSUME IInv, CapInv, NEW r \in Readers, ReadOK(r), Read(r)
    PROVE  ReadOK(r)'
<1>0. /\ TypeOK /\ read[r].gate \in Nat /\ read[r].base \in Nat
      /\ stored \subseteq Live /\ \A m \in stored : m \in Nat /\ id[m] \in Nat
  BY DEF IInv, TypeOK, Minted, Live
<1>1. ASSUME NEW u \in Users, IsMember(r, u)
      PROVE  ReadOK(r)'
  <2>1. read'[r] = [Closed EXCEPT !.at = "gate", !.user = u, !.base = base[u], !.had = stored,
                                  !.disturbed = ~Stamped(u)]
    BY <1>0, <1>1 DEF TypeOK, IsMember
  <2>2. /\ read'[r].at = "gate" /\ read'[r].user = u /\ read'[r].base = base[u]
        /\ read'[r].had = stored /\ (~read'[r].disturbed => Stamped(u))
    BY <2>1 DEF Closed
  <2>3. group = "there"
    BY <1>1 DEF IsMember, CapInv
  <2> QED
    BY <1>1, <2>2, <2>3 DEF IsMember, ReadOK, Stamped, messages, markers
<1>2. CASE JoinedAt(r)
  <2>1. /\ read'[r].at = "show" /\ read'[r].base = read[r].base /\ read'[r].had = read[r].had
        /\ read'[r].disturbed = read[r].disturbed
        /\ Stamped(read[r].user) => read'[r].gate = marker[read[r].user]
    BY <1>0, <1>2 DEF TypeOK, JoinedAt, Gate, Stamped
  <2>2. group' = "there" /\ read'[r].had \subseteq stored'
    BY <1>2, <2>1 DEF JoinedAt, ReadOK, messages
  <2>3. ASSUME ~read'[r].disturbed
        PROVE  (/\ read[r].gate <= last /\ read[r].base <= Len(id)
                /\ Exact(read[r].gate, read[r].base))'
    <3>1. read[r].user \in Users /\ Stamped(read[r].user) /\ read[r].base = base[read[r].user]
      BY <1>0, <1>2, <2>1, <2>3 DEF JoinedAt, ReadOK, TypeOK
    <3>2. PICK s \in Nat, n \in Nat : s = marker[read[r].user] /\ n = base[read[r].user]
      BY <1>0, <3>1 DEF TypeOK, Stamped
    <3>3. Drawn(s, n)
      BY <3>1, <3>2 DEF Drawn
    <3>4. s <= last /\ n <= Len(id) /\ Exact(s, n)
      BY <3>3 DEF IInv, Ahead, AllExact
    <3>5. s = read'[r].gate /\ n = read'[r].base
      BY <2>1, <3>1, <3>2
    <3>6. UNCHANGED <<last, id, tmp, incoming, stored, stray>>
      BY <1>2 DEF JoinedAt, clock, messages
    <3> QED
      BY <3>4, <3>5, <3>6 DEF Exact, Live
  <2> QED
    BY <2>1, <2>2, <2>3 DEF ReadOK
<1>3. CASE Show(r)
  <2>1. /\ read'[r].at = "done" /\ read'[r].base = read[r].base /\ read'[r].had = read[r].had
        /\ read'[r].disturbed = read[r].disturbed
        /\ read'[r].shown = {m \in stored : id[m] >= read[r].gate}
    BY <1>0, <1>3 DEF TypeOK, Show
  <2>2. ASSUME ~read[r].disturbed
        PROVE  /\ {m \in read'[r].shown : m <= read[r].base} \subseteq stray
               /\ {m \in read[r].had : m > read[r].base} \subseteq read'[r].shown
    <3>1. Exact(read[r].gate, read[r].base) /\ read[r].had \subseteq stored
      BY <1>3, <2>2 DEF Show, ReadOK
    <3> QED
      BY <1>0, <2>1, <3>1 DEF Exact
  <2> QED
    BY <1>3, <2>1, <2>2 DEF Show, ReadOK, messages
<1>4. CASE ReadEnds(r)
  BY <1>0, <1>4 DEF TypeOK, ReadEnds, ReadOK, Closed
<1> QED
  BY <1>1, <1>2, <1>3, <1>4 DEF Read

LEMMA ReadInit == Init => ReadInv
BY DEF Init, ReadInv, ReadOK, Closed

LEMMA ReadStep == IInv /\ CapInv /\ ReadInv /\ [Next]_vars => ReadInv'
<1> SUFFICES ASSUME IInv, CapInv, ReadInv, [Next]_vars, NEW r \in Readers
             PROVE  ReadOK(r)'
  BY DEF ReadInv
<1>0. TypeOK /\ ReadOK(r)
  BY DEF IInv, ReadInv
<1>1. CASE Restart
  BY <1>0, <1>1 DEF Restart, ReadOK, Closed
<1>2. CASE /\ ~Restart /\ UNCHANGED <<read, markers, stray>>
           /\ stored \subseteq stored' /\ (group = "there" => group' = "there")
  BY <1>0, <1>2, OthersKeep DEF ReadOK, markers
<1>3. CASE CreateGroup \/ PublishGroup \/ Mint \/ UNCHANGED vars
  <2>1. CASE PublishGroup
    <3>1. read[r].at = "idle" /\ read' = read
      BY <1>0, <2>1 DEF PublishGroup, ReadOK
    <3> QED
      BY <3>1 DEF ReadOK
  <2> QED
    BY <1>1, <1>2, <1>3, <2>1 DEF CreateGroup, Mint, vars, messages
<1>4. CASE \E m \in Minted : Spool(m) \/ Route(m)
  BY <1>1, <1>2, <1>4 DEF Spool, Route
<1>5. ASSUME NEW u \in Users, Disturb(u), ~Restart,
             UNCHANGED <<group, messages, stray>>,
             \A v \in Users \ {u} : marker'[v] = marker[v] /\ base'[v] = base[v]
      PROVE  ReadOK(r)'
  <2> DEFINE touched == read[r].disturbed \/ read[r].user = u
  <2>1. read'[r] = [read[r] EXCEPT !.disturbed = touched] /\ touched \in BOOLEAN
    BY <1>5 DEF Disturb
  <2>2. /\ read'[r].at = read[r].at /\ read'[r].user = read[r].user
        /\ read'[r].gate = read[r].gate /\ read'[r].base = read[r].base
        /\ read'[r].had = read[r].had /\ read'[r].shown = read[r].shown
        /\ ~read'[r].disturbed => ~read[r].disturbed /\ read[r].user # u
    <3>1. read[r] \in ReadType
      BY <1>0, TypeParts DEF ReadsTyped
    <3> HIDE DEF touched
    <3>2. /\ read'[r].at = read[r].at /\ read'[r].user = read[r].user
          /\ read'[r].gate = read[r].gate /\ read'[r].base = read[r].base
          /\ read'[r].had = read[r].had /\ read'[r].shown = read[r].shown
          /\ read'[r].disturbed = touched
      BY <2>1, <3>1 DEF ReadType
    <3> QED
      BY <3>2 DEF touched
  <2>3. read[r].at # "idle" => read[r].user \in Users
    BY <1>0 DEF TypeOK
  <2>4. read[r].at # "idle" => group' = "there"
    BY <1>0, <1>5 DEF ReadOK
  <2>5. stored \subseteq stored' /\ stray' = stray
    BY <1>5 DEF messages
  <2>6. read[r].at # "idle" /\ ~read'[r].disturbed =>
               /\ marker'[read[r].user] = marker[read[r].user]
               /\ base'[read[r].user] = base[read[r].user]
    BY <1>5, <2>2, <2>3
  <2> QED
    BY <1>0, <1>5, <2>2, <2>4, <2>5, <2>6, OthersKeep
<1>6. ASSUME NEW a \in Adders, Add(a)
      PROVE  ReadOK(r)'
  <2>1. CASE AddDraw(a) \/ \E u \in Users : AddCheck(a, u)
    BY <1>1, <1>2, <2>1 DEF AddDraw, AddCheck, messages
  <2>2. CASE AddOpen(a) \/ AddWrite(a)
    <3>1. add[a].user \in Users
      BY <1>0, <2>2 DEF TypeOK, AddOpen, AddWrite
    <3>2. /\ Disturb(add[a].user) /\ UNCHANGED <<group, messages, stray>>
          /\ \A v \in Users \ {add[a].user} : marker'[v] = marker[v] /\ base'[v] = base[v]
      BY <1>0, <2>2, <3>1 DEF TypeOK, AddOpen, AddWrite
    <3> QED
      BY <1>1, <1>5, <3>1, <3>2
  <2> QED
    BY <1>6, <2>1, <2>2 DEF Add
<1>7. ASSUME NEW u \in Users, Leave(u)
      PROVE  ReadOK(r)'
  <2>1. /\ Disturb(u) /\ UNCHANGED <<group, messages, stray>>
        /\ \A v \in Users \ {u} : marker'[v] = marker[v] /\ base'[v] = base[v]
    BY <1>0, <1>7 DEF TypeOK, Leave
  <2> QED
    BY <1>1, <1>5, <2>1
<1>8. ASSUME NEW q \in Readers, Read(q)
      PROVE  ReadOK(r)'
  <2>1. CASE q = r
    BY <1>0, <1>8, <2>1, ReaderKeeps
  <2>2. CASE q # r
    <3>1. read'[r] = read[r]
      BY <1>0, <1>8, <2>2 DEF TypeOK, Read, IsMember, JoinedAt, Gate, Show, ReadEnds
    <3>2. UNCHANGED <<group, messages, markers, stray>>
      BY <1>8 DEF Read, IsMember, JoinedAt, Show, ReadEnds
    <3>3. CASE ~Restart
      BY <1>0, <3>1, <3>2, <3>3, OthersKeep DEF ReadOK, messages, markers
    <3> QED
      BY <1>1, <3>3
  <2> QED
    BY <2>1, <2>2
<1> QED
  BY <1>1, <1>3, <1>4, <1>6, <1>7, <1>8 DEF Next

(* Unless their marker is touched between the two looks at it, readers see
   nothing from before their join, stranded messages apart, and all that was
   stored of what came after (api.py:507-513).                               *)
THEOREM ReadsAreAlwaysGated == Spec => []ReadsAreGated
<1>1. ReadInv => ReadsAreGated
  BY DEF ReadInv, ReadOK, ReadsAreGated
<1>2. IInv => TypeOK
  BY DEF IInv
<1> QED
  BY <1>1, <1>2, CapInit, CapStep, ReadInit, ReadStep, MembershipInvariance, PTL DEF Spec
=============================================================================
