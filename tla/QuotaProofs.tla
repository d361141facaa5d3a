----------------------------- MODULE QuotaProofs -----------------------------
(***************************************************************************)
(* Proofs about Quota, for any uploads, previews, sends and deletes.       *)
(***************************************************************************)
EXTENDS Quota, FiniteSetTheorems, TLAPS

Places == {"none", "tmp", "staged", "gone", "expired"} \cup Sends
Stages == {"idle", "reserve", "stream", "meta", "read", "record", "fail", "done"}
Dirs == {"none", "tmp", "incoming", "group", "archive", "rejected", "gone"}
Deletion == [pc : {"idle", "claim", "remove", "credit", "done"}, of : Sends \cup {"none"},
             freed : Nat, over : BOOLEAN, first : BOOLEAN]
Tally == [pc : {"idle", "prune", "unlink", "credit", "incoming", "groups", "rejected",
                "write", "archive"},
          of : Items \cup {"none"}, total : Nat, counted : SUBSET Sends]

(* TypeOK, with a name for every set. *)
Types ==
    /\ used \in Nat
    /\ place \in [Items -> Places]
    /\ meta \subseteq Fids
    /\ thumb \in [Fids -> Thumbs \cup {"none"}]
    /\ on \in [Thumbs -> Fids \cup {"none"}]
    /\ upload \in [Items -> Stages]
    /\ msg \in [Sends -> Dirs]
    /\ wants \in [Sends -> SUBSET Fids]
    /\ tomb \subseteq Sends
    /\ del \in [Deleters -> Deletion]
    /\ jan \in Tally
    /\ overlap \in BOOLEAN /\ drift \in BOOLEAN
    /\ faults \in 0..MaxFaults /\ crashes \in 0..MaxCrashes

(* Whoever is at work is at work on something. *)
Targets ==
    /\ \A t \in Thumbs :
          upload[t] \in {"reserve", "stream", "read", "record"} => on[t] \in Fids
    /\ \A d \in Deleters : del[d].pc \in {"claim", "remove", "credit"} => del[d].of \in Sends
    /\ jan.pc \in {"unlink", "credit"} => jan.of \in Items

(* Where the bytes of an item are, by what its request is at. *)
Live == {"tmp", "incoming", "group", "archive", "rejected"}
Located ==
    /\ \A i \in Items :
          /\ upload[i] \in {"idle", "reserve"} => place[i] = "none"
          /\ upload[i] = "stream" <=> place[i] = "tmp"
          /\ upload[i] = "meta" => i \in Fids /\ place[i] = "staged"
          /\ upload[i] \in {"read", "record"} => i \in Thumbs
          /\ i \in meta \/ place[i] = "expired" => upload[i] = "done"
          /\ place[i] \in Sends => /\ msg[place[i]] \in Live
                                  /\ upload[i] \in {"read", "record", "done", "fail"}
    /\ \A t \in Thumbs : on[t] # "none" => upload[on[t]] = "done"
    /\ jan.pc \in {"unlink", "credit"} => upload[jan.of] = "done" /\ jan.total <= 1

(* Which preview is whose: one that a send took had its upload taken with it,
   and its .meta named one by then.                                          *)
Paired ==
    /\ \A t \in Thumbs :
          /\ place[t] # "none" => on[t] \in Fids
          /\ place[t] \in Sends => place[on[t]] # "staged" /\ thumb[on[t]] # "none"
          /\ upload[t] \in {"read", "record"} =>
                \/ place[t] = "staged"
                \/ place[on[t]] # "staged" /\ thumb[on[t]] # "none"
    /\ \A t, v \in Thumbs :
          place[t] = "staged" /\ place[v] = "staged" /\ on[t] = on[v] => t = v
    /\ \A f \in Fids : thumb[f] # "none" =>
          /\ on[thumb[f]] = f /\ upload[thumb[f]] = "done"
          /\ place[f] = "staged" => place[thumb[f]] \in {"staged", "expired"}

(* While the janitor sweeps and nothing is deleted or charged, no request is
   where it could do that in between two of the janitor's steps.             *)
Quiet ==
    /\ ~Sweeping => ~overlap
    /\ Sweeping /\ ~overlap =>
          /\ \A i \in Items : upload[i] \in {"idle", "reserve", "done"}
          /\ \A m \in Sends : msg[m] # "tmp"
          /\ \A d \in Deleters : del[d].pc \in {"idle", "claim", "done"}

(* What it has seen by then: what it prunes is there, and a message that it has
   not counted is in a directory that it has still to read.                  *)
Seen ==
    /\ jan.pc \in {"idle", "prune", "unlink", "credit", "incoming"} => jan.counted = {}
    /\ ~overlap =>
          /\ jan.pc = "unlink" => place[jan.of] = "staged"
          /\ jan.pc = "credit" => place[jan.of] = "expired"
          /\ \A m \in Sends \ jan.counted :
                /\ jan.pc \in {"groups", "rejected", "write"} => msg[m] # "incoming"
                /\ jan.pc \in {"rejected", "write"} => msg[m] \notin {"group", "archive"}
                /\ jan.pc = "write" => msg[m] # "rejected"

(* What it has counted by then. *)
Counting == jan.pc \in {"incoming", "groups", "rejected", "write"}
Tallied == Counting /\ ~overlap =>
    jan.total = Cardinality(Staged) + Cardinality(AttachedTo(jan.counted))

(* Delete requests: until a message is claimed, what is going to be credited
   for it is attached to it, and one request at most credits it.             *)
Claimed(d) == del[d].pc \in {"claim", "remove", "credit"} =>
    /\ msg[del[d].of] \in {"group", "archive"}
    /\ del[d].pc # "claim" => del[d].of \in tomb
    /\ del[d].pc = "claim" /\ del[d].of \notin tomb =>
          del[d].over \/ del[d].freed <= Cardinality(AttachedTo({del[d].of}))
Credits(d) == del[d].pc \in {"remove", "credit"} /\ del[d].first
Claims ==
    /\ \A d \in Deleters : Claimed(d)
    /\ \A d, e \in Deleters : Credits(d) /\ Credits(e) /\ del[d].of = del[e].of => d = e

(* What the counter is charged with, as long as it is sound: what is on disk,
   reservations that are going to be released, what the janitor or a delete
   request has removed and is going to credit.  o[m] are the bytes that were
   removed with message m: deletions credit bytes, and no byte twice.        *)
Sound == ~drift /\ ~overlap
Charged(o) ==
    {i \in Items : \/ place[i] \in Sends \cup {"tmp", "staged"}
                   \/ upload[i] = "fail"
                   \/ jan.pc = "credit" /\ jan.total = 1 /\ jan.of = i
                   \/ \E m \in Sends : i \in o[m]}
Backed(o, d) == Credits(d) =>
    del[d].over \/ del[d].freed <= Cardinality(o[del[d].of] \cup AttachedTo({del[d].of}))
Owes(o) ==
    /\ \A m \in Sends : \A i \in o[m] : place[i] = "gone" /\ upload[i] # "fail"
    /\ \A m, n \in Sends : m # n => o[m] \cap o[n] = {}
Covers(o) ==
    /\ Owes(o)
    /\ \A d \in Deleters : Backed(o, d)
    /\ Cardinality(Charged(o)) <= used
Removed == [Sends -> SUBSET Items]

Freed ==
    /\ \A i \in Items : upload[i] = "fail" => place[i] = "gone"
    /\ \A d \in Deleters : Credits(d) /\ del[d].pc = "credit" => AttachedTo({del[d].of}) = {}
Settled == Sound => Freed /\ \E o \in Removed : Covers(o)

IInv ==
    /\ Types /\ Targets /\ Located /\ Paired /\ PreviewMatches
    /\ Quiet /\ Seen /\ Tallied /\ Claims /\ Settled

(* Sets of items are finite. *)
LEMMA Sizes ==
    /\ IsFiniteSet(Items)
    /\ \A S \in SUBSET Items : IsFiniteSet(S) /\ Cardinality(S) \in Nat
<1>1. IsFiniteSet(Items)
  BY SetsAssumption, FS_Union DEF Items
<1> QED
  BY <1>1, FS_Subset, FS_CardinalityType

LEMMA ItemSets ==
    /\ Staged \in SUBSET Items /\ OnDisk \in SUBSET Items
    /\ \A M : AttachedTo(M) \in SUBSET Items
    /\ \A f : Previews(f) \in SUBSET Items
  BY DEF Staged, OnDisk, AttachedTo, Previews, Items

LEMMA ItemKinds ==
    /\ Fids \subseteq Items /\ Thumbs \subseteq Items
    /\ \A i \in Items : i # "none"
    /\ Fids \cap Thumbs = {}
  BY SetsAssumption DEF Items

LEMMA TypesAre == Types <=> TypeOK
  BY DEF Types, TypeOK, Places, Stages, Dirs, Deletion, Tally

LEMMA NamedType == Types => \A m \in Sends : Named(m) \in Nat
<1> SUFFICES ASSUME Types, NEW m \in Sends PROVE Named(m) \in Nat
  OBVIOUS
<1> DEFINE F == AttachedTo({m}) \cap Fids
           G == {f \in F : thumb[f] # "none"}
<1>1. F \in SUBSET Items /\ G \in SUBSET Items
  BY DEF AttachedTo
<1>2. Cardinality(F) \in Nat /\ Cardinality(G) \in Nat
  BY <1>1, Sizes
<1> QED
  BY <1>2 DEF Named

(* The records that the steps start from. *)
LEMMA AtRestType ==
    /\ AtRest \in Tally /\ NoDelete \in Deletion
    /\ AtRest.pc = "idle" /\ AtRest.of = "none" /\ AtRest.total = 0 /\ AtRest.counted = {}
    /\ NoDelete.pc = "idle" /\ ~NoDelete.first
  BY DEF AtRest, NoDelete, Tally, Deletion

LEMMA TallyMoves ==
    ASSUME NEW r \in Tally,
           NEW pc \in {"idle", "prune", "unlink", "credit", "incoming", "groups",
                       "rejected", "write", "archive"}
    PROVE  /\ [r EXCEPT !.pc = pc] \in Tally
           /\ \A n \in Nat : [r EXCEPT !.pc = pc, !.total = n] \in Tally
           /\ \A n \in Nat, M \in SUBSET Sends :
                 [r EXCEPT !.pc = pc, !.total = @ + n, !.counted = @ \cup M] \in Tally
<1>1. r.total \in Nat /\ r.counted \in SUBSET Sends /\ r.of \in Items \cup {"none"}
  BY DEF Tally
<1>2. \A n \in Nat, M \in SUBSET Sends : r.total + n \in Nat /\ r.counted \cup M \in SUBSET Sends
  BY <1>1
<1> QED
  BY <1>1, <1>2 DEF Tally

LEMMA CreditedType == Types => \A n \in Nat : Credited(n) \in Nat
  BY DEF Types, Credited

LEMMA StepCases ==
    ASSUME [Next]_vars
    PROVE  \/ \E i \in Items : Reserve(i) \/ Refuse(i) \/ StreamFails(i) \/
             ReleaseReservation(i)
           \/ \E f \in Fids : UploadCheck(f) \/ Stage(f) \/ WriteMeta(f) \/
             MetaFails(f)
           \/ \E t \in Thumbs, f \in Fids : ThumbCheck(t, f)
           \/ \E t \in Thumbs : LinkThumb(t) \/ ReadMeta(t) \/ Record(t) \/
             Unlink(t)
           \/ \E m \in Sends, F \in SUBSET Fids : Validate(m, F)
           \/ \E m \in Sends, f \in Fids : Move(m, f)
           \/ \E m \in Sends : SendAborts(m) \/ Spool(m) \/ Route(m) \/
             BounceFails(m)
           \/ \E d \in Deleters, m \in Sends : Size(d, m)
           \/ \E d \in Deleters : ClaimTombstone(d) \/ Remove(d) \/ RemoveFails(d)
             \/ DeleteFails(d) \/ DeleteCredit(d)
           \/ SweepBegins
           \/ \E m \in Sends : PruneRejected(m)
           \/ \E i \in Items : PruneLook(i)
           \/ PruneUnlink \/ PruneCredit
           \/ \E f \in Fids : PruneMeta(f)
           \/ CountStaged \/ CountIncoming \/ CountGroups \/ CountRejected \/
             WriteTotal \/ WriteTotalFails
           \/ \E m \in Sends : Archive(m)
           \/ SweepEnds \/ Crash \/ UNCHANGED vars
  BY ItemKinds DEF Next, Uploading, Previewing, Receiving, Sending, Deleting,
    Sweep, Pruning

(* The types stay. *)
LEMMA TypesStay == Types /\ Targets /\ [Next]_vars => Types'
<1> SUFFICES ASSUME Types, Targets, [Next]_vars PROVE Types'
  OBVIOUS
<1>1. ASSUME NEW i \in Items, Reserve(i) PROVE Types'
  BY <1>1, ItemKinds, BoundsAssumption DEF Reserve, files, requests, history, env,
    Touch, Fault, Put, Goto, Types, Places, Stages, Dirs, Deletion, Tally
<1>2. ASSUME NEW i \in Items, Refuse(i) PROVE Types'
  BY <1>2, ItemKinds, BoundsAssumption DEF Refuse, files, requests, history, env,
    Touch, Fault, Put, Goto, Types, Places, Stages, Dirs, Deletion, Tally
<1>3. ASSUME NEW i \in Items, StreamFails(i) PROVE Types'
  BY <1>3, ItemKinds, BoundsAssumption DEF StreamFails, files, requests, history,
    env, Touch, Fault, Put, Goto, Types, Places, Stages, Dirs, Deletion, Tally
<1>4. ASSUME NEW i \in Items, ReleaseReservation(i) PROVE Types'
  <2>1. used' \in Nat /\ faults' \in 0..MaxFaults /\ crashes' \in 0..MaxCrashes
    BY <1>4, CreditedType, BoundsAssumption DEF ReleaseReservation, Fault, env, Types
  <2>2. upload' \in [Items -> Stages]
    BY <1>4 DEF ReleaseReservation, Goto, Types, Stages
  <2> QED
    BY <1>4, <2>1, <2>2 DEF ReleaseReservation, Touch, Sweeping, files, Types
<1>5. ASSUME NEW f \in Fids, UploadCheck(f) PROVE Types'
  BY <1>5, ItemKinds, BoundsAssumption DEF UploadCheck, files, requests, history,
    env, Touch, Fault, Put, Goto, Types, Places, Stages, Dirs, Deletion, Tally
<1>6. ASSUME NEW f \in Fids, Stage(f) PROVE Types'
  BY <1>6, ItemKinds, BoundsAssumption DEF Stage, files, requests, history, env,
    Touch, Fault, Put, Goto, Types, Places, Stages, Dirs, Deletion, Tally
<1>7. ASSUME NEW f \in Fids, WriteMeta(f) PROVE Types'
  BY <1>7, ItemKinds, BoundsAssumption DEF WriteMeta, files, requests, history,
    env, Touch, Fault, Put, Goto, Types, Places, Stages, Dirs, Deletion, Tally
<1>8. ASSUME NEW f \in Fids, MetaFails(f) PROVE Types'
  BY <1>8, ItemKinds, BoundsAssumption DEF MetaFails, files, requests, history,
    env, Touch, Fault, Put, Goto, Types, Places, Stages, Dirs, Deletion, Tally
<1>9. ASSUME NEW t \in Thumbs, NEW f \in Fids, ThumbCheck(t, f) PROVE Types'
  BY <1>9, ItemKinds, BoundsAssumption DEF ThumbCheck, files, requests, history,
    env, Touch, Fault, Put, Goto, Types, Places, Stages, Dirs, Deletion, Tally
<1>10. ASSUME NEW t \in Thumbs, LinkThumb(t) PROVE Types'
  BY <1>10, ItemKinds, BoundsAssumption DEF LinkThumb, files, requests, history,
    env, Touch, Fault, Put, Goto, Types, Places, Stages, Dirs, Deletion, Tally
<1>11. ASSUME NEW t \in Thumbs, ReadMeta(t) PROVE Types'
  BY <1>11, ItemKinds, BoundsAssumption DEF ReadMeta, files, requests, history,
    env, Touch, Fault, Put, Goto, Types, Places, Stages, Dirs, Deletion, Tally
<1>12. ASSUME NEW t \in Thumbs, Record(t) PROVE Types'
  <2>1. thumb' \in [Fids -> Thumbs \cup {"none"}] /\ meta' \subseteq Fids
    BY <1>12 DEF Record, Types, Targets
  <2>2. upload' \in [Items -> Stages]
    BY <1>12 DEF Record, Goto, Types, Stages
  <2> QED
    BY <1>12, <2>1, <2>2 DEF Record, Touch, Sweeping, env, Types
<1>13. ASSUME NEW t \in Thumbs, Unlink(t) PROVE Types'
  BY <1>13, ItemKinds, BoundsAssumption DEF Unlink, files, requests, history, env,
    Touch, Fault, Put, Goto, Types, Places, Stages, Dirs, Deletion, Tally
<1>14. ASSUME NEW m \in Sends, NEW F \in SUBSET Fids, Validate(m, F) PROVE Types'
  BY <1>14, ItemKinds, BoundsAssumption DEF Validate, files, requests, history,
    env, Touch, Fault, Put, Goto, Types, Places, Stages, Dirs, Deletion, Tally
<1>15. ASSUME NEW m \in Sends, NEW f \in Fids, Move(m, f) PROVE Types'
  BY <1>15, ItemKinds, BoundsAssumption DEF Move, files, requests, history, env,
    Touch, Fault, Put, Goto, Types, Places, Stages, Dirs, Deletion, Tally
<1>16. ASSUME NEW m \in Sends, SendAborts(m) PROVE Types'
  BY <1>16, ItemKinds, BoundsAssumption DEF SendAborts, files, requests, history,
    env, Touch, Fault, Put, Goto, Types, Places, Stages, Dirs, Deletion, Tally
<1>17. ASSUME NEW m \in Sends, Spool(m) PROVE Types'
  BY <1>17, ItemKinds, BoundsAssumption DEF Spool, files, requests, history, env,
    Touch, Fault, Put, Goto, Types, Places, Stages, Dirs, Deletion, Tally
<1>18. ASSUME NEW m \in Sends, Route(m) PROVE Types'
  BY <1>18, ItemKinds, BoundsAssumption DEF Route, files, requests, history, env,
    Touch, Fault, Put, Goto, Types, Places, Stages, Dirs, Deletion, Tally
<1>19. ASSUME NEW m \in Sends, BounceFails(m) PROVE Types'
  BY <1>19, ItemKinds, BoundsAssumption DEF BounceFails, files, requests, history,
    env, Touch, Fault, Put, Goto, Types, Places, Stages, Dirs, Deletion, Tally
<1>20. ASSUME NEW d \in Deleters, NEW m \in Sends, Size(d, m) PROVE Types'
  <2>1. Named(m) \in Nat /\ Cardinality(AttachedTo({m})) \in Nat
    BY NamedType, Sizes, ItemSets
  <2>2. del' \in [Deleters -> Deletion]
    BY <1>20, <2>1 DEF Size, Types, Deletion
  <2> QED
    BY <1>20, <2>2 DEF Size, files, history, env, Types
<1>21. ASSUME NEW d \in Deleters, ClaimTombstone(d) PROVE Types'
  <2>1. PICK b \in BOOLEAN :
          del' = [del EXCEPT ![d].pc = "remove", ![d].first = b]
    BY <1>21, Zenon DEF ClaimTombstone
  <2>2. del' \in [Deleters -> Deletion]
    <3>1. [del[d] EXCEPT !.pc = "remove", !.first = b] \in Deletion
      BY DEF Types, Deletion
    <3> QED
      BY <2>1, <3>1 DEF Types
  <2>3. tomb' \subseteq Sends
    BY <1>21 DEF ClaimTombstone, At, Types, Targets
  <2> QED
    BY <1>21, <2>2, <2>3 DEF ClaimTombstone, Touch, Sweeping, files, env, Types
<1>22. ASSUME NEW d \in Deleters, Remove(d) PROVE Types'
  BY <1>22, ItemKinds, BoundsAssumption DEF Remove, files, requests, history, env,
    Touch, Fault, Put, Goto, Types, Places, Stages, Dirs, Deletion, Tally
<1>23. ASSUME NEW d \in Deleters, RemoveFails(d) PROVE Types'
  BY <1>23, ItemKinds, BoundsAssumption DEF RemoveFails, files, requests, history,
    env, Touch, Fault, Put, Goto, Types, Places, Stages, Dirs, Deletion, Tally
<1>24. ASSUME NEW d \in Deleters, DeleteFails(d) PROVE Types'
  <2>1. del' \in [Deleters -> Deletion]
    BY <1>24 DEF DeleteFails, Done, NoDelete, Types, Deletion
  <2> QED
    BY <1>24, <2>1, BoundsAssumption DEF DeleteFails, Touch, Sweeping, Fault, files, env, Types
<1>25. ASSUME NEW d \in Deleters, DeleteCredit(d) PROVE Types'
  <2>1. del' \in [Deleters -> Deletion] /\ used' \in Nat
    BY <1>25, CreditedType DEF DeleteCredit, Done, NoDelete, Types, Deletion
  <2>2. overlap' \in BOOLEAN /\ drift' \in BOOLEAN
    BY <1>25 DEF DeleteCredit, Sweeping, Types, Deletion
  <2> QED
    BY <1>25, <2>1, <2>2 DEF DeleteCredit, files, env, Types
<1>26. ASSUME SweepBegins PROVE Types'
  <2>1. jan' \in Tally /\ overlap' \in BOOLEAN
    BY <1>26, TallyMoves DEF SweepBegins, JanitorTo, Busy, Types
  <2> QED
    BY <1>26, <2>1 DEF SweepBegins, files, requests, env, Types
<1>27. ASSUME NEW m \in Sends, PruneRejected(m) PROVE Types'
  BY <1>27, ItemKinds, BoundsAssumption DEF PruneRejected, files, requests,
    history, env, Touch, Fault, Put, Goto, Types, Places, Stages, Dirs, Deletion,
    Tally
<1>28. ASSUME NEW i \in Items, PruneLook(i) PROVE Types'
  BY <1>28, ItemKinds, BoundsAssumption DEF PruneLook, files, requests, history,
    env, Touch, Fault, Put, Goto, Types, Places, Stages, Dirs, Deletion, Tally
<1>29. ASSUME PruneUnlink PROVE Types'
  BY <1>29, ItemKinds, BoundsAssumption, TallyMoves DEF PruneUnlink, files,
    requests, history, env, Touch, Fault, Put, Goto, Types, JanitorTo, Places
<1>30. ASSUME PruneCredit PROVE Types'
  <2>1. jan' \in Tally /\ used' \in Nat
    <3>1. jan.total \in Nat
      BY DEF Types, Tally
    <3> QED
      BY <1>30, <3>1, AtRestType, TallyMoves, CreditedType DEF PruneCredit, Types
  <2> QED
    BY <1>30, <2>1, BoundsAssumption DEF PruneCredit, files, requests, history, env, Fault, Types
<1>31. ASSUME NEW f \in Fids, PruneMeta(f) PROVE Types'
  BY <1>31, ItemKinds, BoundsAssumption DEF PruneMeta, files, requests, history,
    env, Touch, Fault, Put, Goto, Types, Places, Stages, Dirs, Deletion, Tally
<1>32. ASSUME CountStaged PROVE Types'
  <2>1. Cardinality(Staged) \in Nat
    BY Sizes, ItemSets
  <2>2. jan' \in Tally
    BY <1>32, <2>1, TallyMoves DEF CountStaged, Types
  <2> QED
    BY <1>32, <2>2, BoundsAssumption DEF CountStaged, files, requests, history, env, Fault, Types
<1>33. ASSUME CountIncoming PROVE Types'
  <2>1. \A M : Cardinality(AttachedTo(M)) \in Nat
    BY Sizes, ItemSets
  <2>2. jan' \in Tally
    BY <1>33, <2>1, TallyMoves DEF CountIncoming, Count, InDirectory, Types
  <2> QED
    BY <1>33, <2>2 DEF CountIncoming, files, requests, history, env, Types
<1>34. ASSUME CountGroups PROVE Types'
  <2>1. \A M : Cardinality(AttachedTo(M)) \in Nat
    BY Sizes, ItemSets
  <2>2. jan' \in Tally
    BY <1>34, <2>1, TallyMoves DEF CountGroups, Count, InDirectory, Types
  <2> QED
    BY <1>34, <2>2 DEF CountGroups, files, requests, history, env, Types
<1>35. ASSUME CountRejected PROVE Types'
  <2>1. \A M : Cardinality(AttachedTo(M)) \in Nat
    BY Sizes, ItemSets
  <2>2. jan' \in Tally
    BY <1>35, <2>1, TallyMoves DEF CountRejected, Count, InDirectory, Types
  <2> QED
    BY <1>35, <2>2 DEF CountRejected, files, requests, history, env, Types
<1>36. ASSUME WriteTotal PROVE Types'
  <2>1. jan' \in Tally /\ used' \in Nat
    <3>1. jan.total \in Nat
      BY DEF Types, Tally
    <3> QED
      BY <1>36, <3>1, AtRestType, TallyMoves DEF WriteTotal
  <2> QED
    BY <1>36, <2>1 DEF WriteTotal, files, requests, env, Types
<1>37. ASSUME WriteTotalFails PROVE Types'
  <2>1. jan' \in Tally
    BY <1>37, AtRestType, TallyMoves DEF WriteTotalFails
  <2>2. overlap' \in BOOLEAN /\ drift' \in BOOLEAN
    BY <1>37 DEF WriteTotalFails, Types
  <2> QED
    BY <1>37, <2>1, <2>2, BoundsAssumption DEF WriteTotalFails, Fault, files, requests, Types
<1>38. ASSUME NEW m \in Sends, Archive(m) PROVE Types'
  BY <1>38, ItemKinds, BoundsAssumption DEF Archive, files, requests, history,
    env, Touch, Fault, Put, Goto, Types, Places, Stages, Dirs, Deletion, Tally
<1>39. ASSUME SweepEnds PROVE Types'
  BY <1>39, ItemKinds, BoundsAssumption, AtRestType, TallyMoves, CreditedType DEF
    SweepEnds, files, requests, history, env, Touch, Fault, Put, Goto, Types,
    JanitorTo
<1>40. ASSUME Crash PROVE Types'
  <2>1. place' \in [Items -> Places] /\ msg' \in [Sends -> Dirs] /\ upload' \in [Items -> Stages]
    BY <1>40 DEF Crash, Put, Types, Places, Dirs, Stages
  <2>2. del' \in [Deleters -> Deletion] /\ jan' \in Tally
    BY <1>40, AtRestType DEF Crash, At, NoDelete, Deletion, Types
  <2>3. overlap' \in BOOLEAN /\ drift' \in BOOLEAN
    BY <1>40 DEF Crash, Types
  <2>4. crashes' \in 0..MaxCrashes
    BY <1>40, BoundsAssumption DEF Crash, Types
  <2> QED
    BY <1>40, <2>1, <2>2, <2>3, <2>4 DEF Crash, Types
<1>41. ASSUME UNCHANGED vars PROVE Types'
  BY <1>41, ItemKinds, BoundsAssumption DEF vars, files, requests, history, env,
    Touch, Fault, Put, Goto, Types, Places, Stages, Dirs, Deletion, Tally
<1> QED
  BY <1>1, <1>2, <1>3, <1>4, <1>5, <1>6, <1>7, <1>8, <1>9, <1>10, <1>11, <1>12,
    <1>13, <1>14, <1>15, <1>16, <1>17, <1>18, <1>19, <1>20, <1>21, <1>22, <1>23,
    <1>24, <1>25, <1>26, <1>27, <1>28, <1>29, <1>30, <1>31, <1>32, <1>33, <1>34,
    <1>35, <1>36, <1>37, <1>38, <1>39, <1>40, <1>41, StepCases

(* ... and so does what they are at work on. *)
LEMMA TargetsStay == Types /\ Targets /\ [Next]_vars => Targets'
<1> SUFFICES ASSUME Types, Targets, [Next]_vars PROVE Targets'
  OBVIOUS
<1>1. ASSUME NEW i \in Items, Reserve(i) PROVE Targets'
  BY <1>1, ItemKinds DEF Reserve, Goto, files, requests, history, env, Types,
    Targets
<1>2. ASSUME NEW i \in Items, Refuse(i) PROVE Targets'
  BY <1>2, ItemKinds DEF Refuse, Goto, files, requests, history, env, Types,
    Targets
<1>3. ASSUME NEW i \in Items, StreamFails(i) PROVE Targets'
  BY <1>3, ItemKinds DEF StreamFails, Goto, files, requests, history, env, Types,
    Targets
<1>4. ASSUME NEW i \in Items, ReleaseReservation(i) PROVE Targets'
  BY <1>4, ItemKinds DEF ReleaseReservation, Goto, files, requests, history, env,
    Types, Targets
<1>5. ASSUME NEW f \in Fids, UploadCheck(f) PROVE Targets'
  BY <1>5, ItemKinds DEF UploadCheck, Goto, files, requests, history, env, Types,
    Targets
<1>6. ASSUME NEW f \in Fids, Stage(f) PROVE Targets'
  BY <1>6, ItemKinds DEF Stage, Goto, files, requests, history, env, Types,
    Targets
<1>7. ASSUME NEW f \in Fids, WriteMeta(f) PROVE Targets'
  BY <1>7, ItemKinds DEF WriteMeta, Goto, files, requests, history, env, Types,
    Targets
<1>8. ASSUME NEW f \in Fids, MetaFails(f) PROVE Targets'
  BY <1>8, ItemKinds DEF MetaFails, Goto, files, requests, history, env, Types,
    Targets
<1>9. ASSUME NEW t \in Thumbs, NEW f \in Fids, ThumbCheck(t, f) PROVE Targets'
  BY <1>9, ItemKinds DEF ThumbCheck, Goto, files, requests, history, env, Types,
    Targets
<1>10. ASSUME NEW t \in Thumbs, LinkThumb(t) PROVE Targets'
  BY <1>10, ItemKinds DEF LinkThumb, Goto, files, requests, history, env, Types,
    Targets
<1>11. ASSUME NEW t \in Thumbs, ReadMeta(t) PROVE Targets'
  BY <1>11, ItemKinds DEF ReadMeta, Goto, files, requests, history, env, Types,
    Targets
<1>12. ASSUME NEW t \in Thumbs, Record(t) PROVE Targets'
  BY <1>12, ItemKinds DEF Record, Goto, files, requests, history, env, Types,
    Targets
<1>13. ASSUME NEW t \in Thumbs, Unlink(t) PROVE Targets'
  BY <1>13, ItemKinds DEF Unlink, Goto, files, requests, history, env, Types,
    Targets
<1>14. ASSUME NEW m \in Sends, NEW F \in SUBSET Fids, Validate(m, F) PROVE Targets'
  BY <1>14, ItemKinds DEF Validate, files, requests, history, env, Types, Targets
<1>15. ASSUME NEW m \in Sends, NEW f \in Fids, Move(m, f) PROVE Targets'
  BY <1>15, ItemKinds DEF Move, files, requests, history, env, Types, Targets
<1>16. ASSUME NEW m \in Sends, SendAborts(m) \/ Spool(m) \/ Route(m) \/
  BounceFails(m) PROVE Targets'
  BY <1>16, ItemKinds DEF SendAborts, Spool, Route, BounceFails, files, requests,
    history, env, Types, Targets
<1>17. ASSUME NEW d \in Deleters, NEW m \in Sends, Size(d, m) PROVE Targets'
  BY <1>17 DEF Size, files, Types, Targets, Deletion
<1>18. ASSUME NEW d \in Deleters, ClaimTombstone(d) PROVE Targets'
  BY <1>18, ItemKinds DEF ClaimTombstone, Done, NoDelete, At, files, requests,
    history, env, Types, Targets
<1>19. ASSUME NEW d \in Deleters, Remove(d) PROVE Targets'
  BY <1>19, ItemKinds DEF Remove, Done, NoDelete, At, files, requests, history,
    env, Types, Targets
<1>20. ASSUME NEW d \in Deleters, RemoveFails(d) PROVE Targets'
  BY <1>20, ItemKinds DEF RemoveFails, Done, NoDelete, At, files, requests,
    history, env, Types, Targets
<1>21. ASSUME NEW d \in Deleters, DeleteFails(d) PROVE Targets'
  BY <1>21, ItemKinds DEF DeleteFails, Done, NoDelete, At, files, requests,
    history, env, Types, Targets
<1>22. ASSUME NEW d \in Deleters, DeleteCredit(d) PROVE Targets'
  BY <1>22, ItemKinds DEF DeleteCredit, Done, NoDelete, At, files, requests,
    history, env, Types, Targets
<1>23. ASSUME SweepBegins PROVE Targets'
  BY <1>23, ItemKinds DEF SweepBegins, AtRest, JanitorTo, Tally, files, requests,
    history, env, Types, Targets
<1>24. ASSUME NEW m \in Sends, PruneRejected(m) \/ Archive(m) PROVE Targets'
  BY <1>24, ItemKinds DEF PruneRejected, Archive, files, requests, history, env,
    Types, Targets
<1>25. ASSUME NEW i \in Items, PruneLook(i) PROVE Targets'
  BY <1>25, ItemKinds DEF PruneLook, AtRest, JanitorTo, Tally, files, requests,
    history, env, Types, Targets
<1>26. ASSUME PruneUnlink PROVE Targets'
  <2>1. jan'.of = jan.of /\ jan.of \in Items
    BY <1>26 DEF PruneUnlink, JanitorAt, JanitorTo, Types, Tally, Targets
  <2> QED
    BY <1>26, <2>1, ItemKinds DEF PruneUnlink, requests, Targets
<1>27. ASSUME PruneCredit PROVE Targets'
  BY <1>27, ItemKinds DEF PruneCredit, AtRest, JanitorTo, Tally, files, requests,
    history, env, Types, Targets
<1>28. ASSUME NEW f \in Fids, PruneMeta(f) PROVE Targets'
  BY <1>28, ItemKinds DEF PruneMeta, files, requests, history, env, Types, Targets
<1>29. ASSUME CountStaged PROVE Targets'
  BY <1>29, ItemKinds DEF CountStaged, AtRest, JanitorTo, Tally, files, requests,
    history, env, Types, Targets
<1>30. ASSUME CountIncoming PROVE Targets'
  BY <1>30, ItemKinds DEF CountIncoming, Count, Tally, files, requests, history,
    env, Types, Targets
<1>31. ASSUME CountGroups PROVE Targets'
  BY <1>31, ItemKinds DEF CountGroups, Count, Tally, files, requests, history,
    env, Types, Targets
<1>32. ASSUME CountRejected PROVE Targets'
  BY <1>32, ItemKinds DEF CountRejected, Count, Tally, files, requests, history,
    env, Types, Targets
<1>33. ASSUME WriteTotal PROVE Targets'
  BY <1>33, ItemKinds DEF WriteTotal, AtRest, JanitorTo, Tally, files, requests,
    history, env, Types, Targets
<1>34. ASSUME WriteTotalFails PROVE Targets'
  BY <1>34, ItemKinds DEF WriteTotalFails, AtRest, JanitorTo, Tally, files,
    requests, history, env, Types, Targets
<1>35. ASSUME SweepEnds PROVE Targets'
  BY <1>35, ItemKinds DEF SweepEnds, AtRest, JanitorTo, Tally, files, requests,
    history, env, Types, Targets
<1>36. ASSUME Crash PROVE Targets'
  BY <1>36, ItemKinds, ItemKinds DEF Crash, At, NoDelete, AtRest, Types, Targets
<1>37. ASSUME UNCHANGED vars PROVE Targets'
  BY <1>37, ItemKinds DEF vars, vars, files, requests, history, env, Types,
    Targets
<1> QED
  BY <1>1, <1>2, <1>3, <1>4, <1>5, <1>6, <1>7, <1>8, <1>9, <1>10, <1>11, <1>12,
    <1>13, <1>14, <1>15, <1>16, <1>17, <1>18, <1>19, <1>20, <1>21, <1>22, <1>23,
    <1>24, <1>25, <1>26, <1>27, <1>28, <1>29, <1>30, <1>31, <1>32, <1>33, <1>34,
    <1>35, <1>36, <1>37, StepCases

(* Where the bytes are follows the requests. *)
LEMMA LocatedStays == Types /\ Targets /\ Located /\ [Next]_vars => Located'
<1> SUFFICES ASSUME Types, Targets, Located, [Next]_vars PROVE Located'
  OBVIOUS
<1>1. ASSUME NEW i \in Items, Reserve(i) PROVE Located'
  BY <1>1, ItemKinds, PlacesAssumption DEF Reserve, Goto, Put, files, requests,
    history, env, Types, Targets, Located
<1>2. ASSUME NEW i \in Items, Refuse(i) PROVE Located'
  BY <1>2, ItemKinds, PlacesAssumption DEF Refuse, Goto, Put, files, requests,
    history, env, Types, Targets, Located
<1>3. ASSUME NEW i \in Items, StreamFails(i) PROVE Located'
  BY <1>3, ItemKinds, PlacesAssumption DEF StreamFails, Goto, Put, files,
    requests, history, env, Types, Targets, Located
<1>4. ASSUME NEW i \in Items, ReleaseReservation(i) PROVE Located'
  BY <1>4, ItemKinds, PlacesAssumption DEF ReleaseReservation, Goto, Put, files,
    requests, history, env, Types, Targets, Located
<1>5. ASSUME NEW f \in Fids, UploadCheck(f) PROVE Located'
  BY <1>5, ItemKinds, PlacesAssumption DEF UploadCheck, Goto, Put, Staged, files,
    requests, history, env, Types, Targets, Located
<1>6. ASSUME NEW f \in Fids, Stage(f) PROVE Located'
  BY <1>6, ItemKinds, PlacesAssumption DEF Stage, Goto, Put, files, requests,
    history, env, Types, Targets, Located
<1>7. ASSUME NEW f \in Fids, WriteMeta(f) PROVE Located'
  BY <1>7, ItemKinds, PlacesAssumption DEF WriteMeta, Goto, Put, files, requests,
    history, env, Types, Targets, Located
<1>8. ASSUME NEW f \in Fids, MetaFails(f) PROVE Located'
  BY <1>8, ItemKinds, PlacesAssumption DEF MetaFails, Goto, Put, files, requests,
    history, env, Types, Targets, Located
<1>9. ASSUME NEW t \in Thumbs, NEW f \in Fids, ThumbCheck(t, f) PROVE Located'
  BY <1>9, ItemKinds, PlacesAssumption DEF ThumbCheck, Goto, Put, Staged, files,
    requests, history, env, Types, Targets, Located
<1>10. ASSUME NEW t \in Thumbs, LinkThumb(t) PROVE Located'
  BY <1>10, ItemKinds, PlacesAssumption DEF LinkThumb, Goto, Put, Staged, files,
    requests, history, env, Types, Targets, Located
<1>11. ASSUME NEW t \in Thumbs, ReadMeta(t) PROVE Located'
  BY <1>11, ItemKinds, PlacesAssumption DEF ReadMeta, Goto, Put, files, requests,
    history, env, Types, Targets, Located
<1>12. ASSUME NEW t \in Thumbs, Record(t) PROVE Located'
  BY <1>12, ItemKinds, PlacesAssumption DEF Record, Goto, Put, files, requests,
    history, env, Types, Targets, Located
<1>13. ASSUME NEW t \in Thumbs, Unlink(t) PROVE Located'
  BY <1>13, ItemKinds, PlacesAssumption DEF Unlink, Goto, Put, Staged, files,
    requests, history, env, Types, Targets, Located
<1>14. ASSUME NEW m \in Sends, NEW F \in SUBSET Fids, Validate(m, F) PROVE Located'
  BY <1>14, ItemKinds, PlacesAssumption DEF Validate, Put, AttachedTo, Live,
    files, requests, history, env, Types, Targets, Located
<1>15. ASSUME NEW m \in Sends, NEW f \in Fids, Move(m, f) PROVE Located'
  <2>1. \A i \in Items : place'[i] = place[i] \/ (place[i] = "staged" /\ place'[i] = m)
    BY <1>15, ItemKinds DEF Move, Put, Staged, Previews
  <2>2. \A i \in Items : place[i] = "staged" => upload[i] \in {"meta", "read", "record", "done", "fail"}
    BY DEF Located, Types, Stages
  <2>3. upload[f] = "done" /\ (\A t \in Thumbs : upload[t] # "meta") /\ \A g \in Fids \ {f} : place'[g] = place[g]
    BY <1>15, ItemKinds DEF Move, Put, Previews, Located
  <2>4. \A i \in Items : place'[i] = place[i] \/ upload[i] \in {"read", "record", "done", "fail"}
    BY <2>1, <2>2, <2>3 DEF Items
  <2> QED
    BY <1>15, <2>1, <2>4, PlacesAssumption DEF Move, requests, Live, Located
<1>16. ASSUME NEW m \in Sends, SendAborts(m) PROVE Located'
  BY <1>16, ItemKinds, PlacesAssumption DEF SendAborts, Put, AttachedTo, Live,
    files, requests, history, env, Types, Targets, Located
<1>17. ASSUME NEW m \in Sends, Spool(m) PROVE Located'
  BY <1>17, ItemKinds, PlacesAssumption DEF Spool, Put, AttachedTo, Live, files,
    requests, history, env, Types, Targets, Located
<1>18. ASSUME NEW m \in Sends, Route(m) PROVE Located'
  BY <1>18, ItemKinds, PlacesAssumption DEF Route, Put, AttachedTo, Live, files,
    requests, history, env, Types, Targets, Located
<1>19. ASSUME NEW m \in Sends, BounceFails(m) PROVE Located'
  BY <1>19, ItemKinds, PlacesAssumption DEF BounceFails, Put, AttachedTo, Live,
    files, requests, history, env, Types, Targets, Located
<1>20. ASSUME NEW d \in Deleters, NEW m \in Sends, Size(d, m) PROVE Located'
  BY <1>20 DEF Size, files, Types, Targets, Located
<1>21. ASSUME NEW d \in Deleters, ClaimTombstone(d) \/ RemoveFails(d) \/
  DeleteFails(d) \/ DeleteCredit(d) PROVE Located'
  BY <1>21, ItemKinds, PlacesAssumption DEF ClaimTombstone, RemoveFails,
    DeleteFails, DeleteCredit, Done, NoDelete, At, files, requests, history, env,
    Types, Targets, Located
<1>22. ASSUME NEW d \in Deleters, Remove(d) PROVE Located'
  <2>1. PICK m \in Sends : m = del[d].of
    BY <1>22 DEF Remove, At, Targets
  <2>2. Put(AttachedTo({m}), "gone") /\ UNCHANGED <<meta, upload, on, msg, jan>>
    BY <1>22, <2>1 DEF Remove
  <2> QED
    BY <2>2, PlacesAssumption DEF Put, AttachedTo, Live, Located
<1>23. ASSUME SweepBegins PROVE Located'
  BY <1>23, ItemKinds, PlacesAssumption DEF SweepBegins, AtRest, JanitorTo, Tally,
    files, requests, history, env, Types, Targets, Located
<1>24. ASSUME NEW m \in Sends, PruneRejected(m) PROVE Located'
  BY <1>24, ItemKinds, PlacesAssumption DEF PruneRejected, Put, AttachedTo, Live,
    files, requests, history, env, Types, Targets, Located
<1>25. ASSUME NEW i \in Items, PruneLook(i) PROVE Located'
  BY <1>25, ItemKinds, PlacesAssumption DEF PruneLook, AtRest, JanitorAt,
    JanitorTo, Tally, Put, Staged, files, requests, history, env, Types, Targets,
    Located
<1>26. ASSUME PruneUnlink PROVE Located'
  BY <1>26, ItemKinds, PlacesAssumption DEF PruneUnlink, AtRest, JanitorAt,
    JanitorTo, Tally, Put, Staged, files, requests, history, env, Types, Targets,
    Located
<1>27. ASSUME PruneCredit PROVE Located'
  BY <1>27, ItemKinds, PlacesAssumption DEF PruneCredit, AtRest, JanitorTo, Tally,
    files, requests, history, env, Types, Targets, Located
<1>28. ASSUME NEW f \in Fids, PruneMeta(f) PROVE Located'
  BY <1>28, ItemKinds, PlacesAssumption DEF PruneMeta, files, requests, history,
    env, Types, Targets, Located
<1>29. ASSUME CountStaged PROVE Located'
  BY <1>29, ItemKinds, PlacesAssumption DEF CountStaged, AtRest, JanitorTo, Tally,
    files, requests, history, env, Types, Targets, Located
<1>30. ASSUME CountIncoming PROVE Located'
  BY <1>30, ItemKinds, PlacesAssumption DEF CountIncoming, Count, Tally, files,
    requests, history, env, Types, Targets, Located
<1>31. ASSUME CountGroups PROVE Located'
  BY <1>31, ItemKinds, PlacesAssumption DEF CountGroups, Count, Tally, files,
    requests, history, env, Types, Targets, Located
<1>32. ASSUME CountRejected PROVE Located'
  BY <1>32, ItemKinds, PlacesAssumption DEF CountRejected, Count, Tally, files,
    requests, history, env, Types, Targets, Located
<1>33. ASSUME WriteTotal PROVE Located'
  BY <1>33, ItemKinds, PlacesAssumption DEF WriteTotal, AtRest, JanitorTo, Tally,
    files, requests, history, env, Types, Targets, Located
<1>34. ASSUME WriteTotalFails PROVE Located'
  BY <1>34, ItemKinds, PlacesAssumption DEF WriteTotalFails, AtRest, JanitorTo,
    Tally, files, requests, history, env, Types, Targets, Located
<1>35. ASSUME NEW m \in Sends, Archive(m) PROVE Located'
  BY <1>35, ItemKinds, PlacesAssumption DEF Archive, Put, AttachedTo, Live, files,
    requests, history, env, Types, Targets, Located
<1>36. ASSUME SweepEnds PROVE Located'
  BY <1>36, ItemKinds, PlacesAssumption DEF SweepEnds, AtRest, JanitorTo, Tally,
    files, requests, history, env, Types, Targets, Located
<1>37. ASSUME Crash PROVE Located'
  BY <1>37, ItemKinds, PlacesAssumption, ItemKinds DEF Crash, At, NoDelete,
    AtRest, Put, AttachedTo, InDirectory, Live, Types, Targets, Located
<1>38. ASSUME UNCHANGED vars PROVE Located'
  BY <1>38, ItemKinds, PlacesAssumption DEF vars, vars, files, requests, history,
    env, Types, Targets, Located
<1> QED
  BY <1>1, <1>2, <1>3, <1>4, <1>5, <1>6, <1>7, <1>8, <1>9, <1>10, <1>11, <1>12,
    <1>13, <1>14, <1>15, <1>16, <1>17, <1>18, <1>19, <1>20, <1>21, <1>22, <1>23,
    <1>24, <1>25, <1>26, <1>27, <1>28, <1>29, <1>30, <1>31, <1>32, <1>33, <1>34,
    <1>35, <1>36, <1>37, <1>38, StepCases

(* Previews stay with their uploads. *)
LEMMA PairedStays ==
    Types /\ Targets /\ Located /\ Paired /\ PreviewMatches /\ [Next]_vars
        => Paired' /\ PreviewMatches'
<1> SUFFICES ASSUME Types, Targets, Located, Paired, PreviewMatches, [Next]_vars
             PROVE  Paired' /\ PreviewMatches'
  OBVIOUS
<1>1. ASSUME NEW i \in Items, Reserve(i) PROVE Paired' /\ PreviewMatches'
  BY <1>1, ItemKinds, PlacesAssumption DEF Reserve, Goto, Put, files, requests,
    history, env, Types, Targets, Located, Paired, PreviewMatches
<1>2. ASSUME NEW i \in Items, Refuse(i) PROVE Paired' /\ PreviewMatches'
  BY <1>2, ItemKinds, PlacesAssumption DEF Refuse, Goto, Put, files, requests,
    history, env, Types, Targets, Located, Paired, PreviewMatches
<1>3. ASSUME NEW i \in Items, StreamFails(i) PROVE Paired' /\ PreviewMatches'
  BY <1>3, ItemKinds, PlacesAssumption DEF StreamFails, Goto, Put, files,
    requests, history, env, Types, Targets, Located, Paired, PreviewMatches
<1>4. ASSUME NEW i \in Items, ReleaseReservation(i) PROVE Paired' /\ PreviewMatches'
  BY <1>4, ItemKinds, PlacesAssumption DEF ReleaseReservation, Goto, Put, files,
    requests, history, env, Types, Targets, Located, Paired, PreviewMatches
<1>5. ASSUME NEW f \in Fids, UploadCheck(f) PROVE Paired' /\ PreviewMatches'
  BY <1>5, ItemKinds, PlacesAssumption DEF UploadCheck, Goto, Put, Staged,
    Previews, files, requests, history, env, Types, Targets, Located, Paired,
    PreviewMatches
<1>6. ASSUME NEW f \in Fids, Stage(f) PROVE Paired' /\ PreviewMatches'
  BY <1>6, ItemKinds, PlacesAssumption DEF Stage, Goto, Put, files, requests,
    history, env, Types, Targets, Located, Paired, PreviewMatches
<1>7. ASSUME NEW f \in Fids, WriteMeta(f) PROVE Paired' /\ PreviewMatches'
  BY <1>7, ItemKinds, PlacesAssumption DEF WriteMeta, Goto, Put, files, requests,
    history, env, Types, Targets, Located, Paired, PreviewMatches
<1>8. ASSUME NEW f \in Fids, MetaFails(f) PROVE Paired' /\ PreviewMatches'
  BY <1>8, ItemKinds, PlacesAssumption DEF MetaFails, Goto, Put, files, requests,
    history, env, Types, Targets, Located, Paired, PreviewMatches
<1>9. ASSUME NEW t \in Thumbs, NEW f \in Fids, ThumbCheck(t, f) PROVE Paired' /\
  PreviewMatches'
  BY <1>9, ItemKinds, PlacesAssumption DEF ThumbCheck, Goto, Put, Staged,
    Previews, files, requests, history, env, Types, Targets, Located, Paired,
    PreviewMatches
<1>10. ASSUME NEW t \in Thumbs, LinkThumb(t) PROVE Paired' /\ PreviewMatches'
  BY <1>10, ItemKinds, PlacesAssumption DEF LinkThumb, Goto, Put, Staged,
    Previews, files, requests, history, env, Types, Targets, Located, Paired,
    PreviewMatches
<1>11. ASSUME NEW t \in Thumbs, ReadMeta(t) PROVE Paired' /\ PreviewMatches'
  BY <1>11, ItemKinds, PlacesAssumption DEF ReadMeta, Goto, Put, files, requests,
    history, env, Types, Targets, Located, Paired, PreviewMatches
<1>12. ASSUME NEW t \in Thumbs, Record(t) PROVE Paired' /\ PreviewMatches'
  BY <1>12, ItemKinds, PlacesAssumption DEF Record, Goto, Put, Staged, Previews,
    files, requests, history, env, Types, Targets, Located, Paired, PreviewMatches
<1>13. ASSUME NEW t \in Thumbs, Unlink(t) PROVE Paired' /\ PreviewMatches'
  BY <1>13, ItemKinds, PlacesAssumption DEF Unlink, Goto, Put, Staged, Previews,
    files, requests, history, env, Types, Targets, Located, Paired, PreviewMatches
<1>14. ASSUME NEW m \in Sends, NEW F \in SUBSET Fids, Validate(m, F) PROVE Paired'
  /\ PreviewMatches'
  BY <1>14, ItemKinds, PlacesAssumption DEF Validate, files, requests, history,
    env, Types, Targets, Located, Paired, PreviewMatches
<1>15. ASSUME NEW m \in Sends, NEW f \in Fids, Move(m, f) PROVE Paired' /\ PreviewMatches'
  BY <1>15, ItemKinds, PlacesAssumption DEF Move, Put, AttachedTo, Staged,
    Previews, files, requests, history, env, Types, Targets, Located, Paired,
    PreviewMatches
<1>16. ASSUME NEW m \in Sends, SendAborts(m) PROVE Paired' /\ PreviewMatches'
  BY <1>16, ItemKinds, PlacesAssumption DEF SendAborts, Put, AttachedTo, files,
    requests, history, env, Types, Targets, Located, Paired, PreviewMatches
<1>17. ASSUME NEW m \in Sends, Spool(m) \/ Route(m) PROVE Paired' /\ PreviewMatches'
  BY <1>17, ItemKinds, PlacesAssumption DEF Spool, Route, files, requests,
    history, env, Types, Targets, Located, Paired, PreviewMatches
<1>18. ASSUME NEW m \in Sends, BounceFails(m) PROVE Paired' /\ PreviewMatches'
  BY <1>18, ItemKinds, PlacesAssumption DEF BounceFails, Put, AttachedTo, files,
    requests, history, env, Types, Targets, Located, Paired, PreviewMatches
<1>19. ASSUME NEW d \in Deleters, NEW m \in Sends, Size(d, m) PROVE Paired' /\
  PreviewMatches'
  BY <1>19, ItemKinds, PlacesAssumption DEF Size, files, requests, history, env,
    Types, Targets, Located, Paired, PreviewMatches
<1>20. ASSUME NEW d \in Deleters, ClaimTombstone(d) \/ RemoveFails(d) \/
  DeleteFails(d) \/ DeleteCredit(d) PROVE Paired' /\ PreviewMatches'
  BY <1>20, ItemKinds, PlacesAssumption DEF ClaimTombstone, RemoveFails,
    DeleteFails, DeleteCredit, files, requests, history, env, Types, Targets,
    Located, Paired, PreviewMatches
<1>21. ASSUME NEW d \in Deleters, Remove(d) PROVE Paired' /\ PreviewMatches'
  <2>1. PICK m \in Sends : m = del[d].of
    BY <1>21 DEF Remove, At, Targets
  <2>2. Put(AttachedTo({m}), "gone") /\ UNCHANGED <<meta, upload, on, thumb, msg, jan>>
    BY <1>21, <2>1 DEF Remove
  <2>3. \A i \in Items : place'[i] = IF place[i] = m THEN "gone" ELSE place[i]
    BY <2>2 DEF Put, AttachedTo
  <2>4. m \notin {"none", "tmp", "staged", "gone", "expired"} /\ {"none", "gone"} \cap Sends = {}
    BY PlacesAssumption
  <2>5. Paired'
    BY <2>2, <2>3, <2>4, ItemKinds DEF Types, Targets, Paired
  <2>6. PreviewMatches'
    BY <2>2, <2>3, ItemKinds, PlacesAssumption DEF Types, PreviewMatches
  <2> QED
    BY <2>5, <2>6
<1>22. ASSUME SweepBegins \/ PruneCredit \/ CountStaged \/ CountIncoming \/
  CountGroups \/ CountRejected \/ WriteTotal \/ WriteTotalFails \/ SweepEnds PROVE
  Paired' /\ PreviewMatches'
  BY <1>22, ItemKinds, PlacesAssumption DEF SweepBegins, PruneCredit, CountStaged,
    CountIncoming, CountGroups, CountRejected, WriteTotal, WriteTotalFails,
    SweepEnds, files, requests, history, env, Types, Targets, Located, Paired,
    PreviewMatches
<1>23. ASSUME NEW m \in Sends, PruneRejected(m) PROVE Paired' /\ PreviewMatches'
  BY <1>23, ItemKinds, PlacesAssumption DEF PruneRejected, Put, AttachedTo, files,
    requests, history, env, Types, Targets, Located, Paired, PreviewMatches
<1>24. ASSUME NEW i \in Items, PruneLook(i) PROVE Paired' /\ PreviewMatches'
  BY <1>24, ItemKinds, PlacesAssumption DEF PruneLook, files, requests, history,
    env, Types, Targets, Located, Paired, PreviewMatches
<1>25. ASSUME PruneUnlink PROVE Paired' /\ PreviewMatches'
  BY <1>25, ItemKinds, PlacesAssumption DEF PruneUnlink, JanitorAt, JanitorTo,
    Put, Staged, files, requests, history, env, Types, Targets, Located, Paired,
    PreviewMatches
<1>26. ASSUME NEW f \in Fids, PruneMeta(f) PROVE Paired' /\ PreviewMatches'
  BY <1>26, ItemKinds, PlacesAssumption DEF PruneMeta, files, requests, history,
    env, Types, Targets, Located, Paired, PreviewMatches
<1>27. ASSUME NEW m \in Sends, Archive(m) PROVE Paired' /\ PreviewMatches'
  BY <1>27, ItemKinds, PlacesAssumption DEF Archive, files, requests, history,
    env, Types, Targets, Located, Paired, PreviewMatches
<1>28. ASSUME Crash PROVE Paired' /\ PreviewMatches'
  BY <1>28, ItemKinds, PlacesAssumption, ItemKinds DEF Crash, Put, AttachedTo,
    InDirectory, Types, Targets, Located, Paired, PreviewMatches
<1>29. ASSUME UNCHANGED vars PROVE Paired' /\ PreviewMatches'
  BY <1>29, ItemKinds, PlacesAssumption DEF vars, vars, files, requests, history,
    env, Types, Targets, Located, Paired, PreviewMatches
<1> QED
  BY <1>1, <1>2, <1>3, <1>4, <1>5, <1>6, <1>7, <1>8, <1>9, <1>10, <1>11, <1>12,
    <1>13, <1>14, <1>15, <1>16, <1>17, <1>18, <1>19, <1>20, <1>21, <1>22, <1>23,
    <1>24, <1>25, <1>26, <1>27, <1>28, <1>29, StepCases

(* Either a step counts as something that the sweep overlaps with, or it is one
   of these. *)
LEMMA CalmCases ==
    ASSUME [Next]_vars
    PROVE  \/ overlap' = (overlap \/ Sweeping) /\ UNCHANGED jan
           \/ \E i \in Items : Refuse(i) \/ PruneLook(i)
           \/ \E f \in Fids : UploadCheck(f) \/ PruneMeta(f)
           \/ \E t \in Thumbs, f \in Fids : ThumbCheck(t, f)
           \/ \E t \in Thumbs : ReadMeta(t)
           \/ \E m \in Sends : Route(m) \/ PruneRejected(m) \/ Archive(m)
           \/ \E d \in Deleters, m \in Sends : Size(d, m)
           \/ SweepBegins \/ PruneUnlink \/ PruneCredit \/ CountStaged \/
             CountIncoming \/ CountGroups \/ CountRejected \/ WriteTotal \/
             WriteTotalFails \/ SweepEnds \/ Crash \/ UNCHANGED vars
<1>1. ASSUME NEW i \in Items, Reserve(i) \/ StreamFails(i) \/
  ReleaseReservation(i) PROVE overlap' = (overlap \/ Sweeping) /\ UNCHANGED jan
  BY <1>1 DEF Touch, requests, history, Reserve, StreamFails, ReleaseReservation
<1>2. ASSUME NEW f \in Fids, Stage(f) \/ WriteMeta(f) \/ MetaFails(f) PROVE
  overlap' = (overlap \/ Sweeping) /\ UNCHANGED jan
  BY <1>2 DEF Touch, requests, history, Stage, WriteMeta, MetaFails
<1>3. ASSUME NEW t \in Thumbs, LinkThumb(t) \/ Record(t) \/ Unlink(t) PROVE
  overlap' = (overlap \/ Sweeping) /\ UNCHANGED jan
  BY <1>3 DEF Touch, requests, history, LinkThumb, Record, Unlink
<1>4. ASSUME NEW m \in Sends, NEW F \in SUBSET Fids, Validate(m, F) PROVE overlap'
  = (overlap \/ Sweeping) /\ UNCHANGED jan
  BY <1>4 DEF Touch, requests, history, Validate
<1>5. ASSUME NEW m \in Sends, NEW f \in Fids, Move(m, f) PROVE overlap' = (overlap
  \/ Sweeping) /\ UNCHANGED jan
  BY <1>5 DEF Touch, requests, history, Move
<1>6. ASSUME NEW m \in Sends, SendAborts(m) \/ Spool(m) \/ BounceFails(m) PROVE
  overlap' = (overlap \/ Sweeping) /\ UNCHANGED jan
  BY <1>6 DEF Touch, requests, history, SendAborts, Spool, BounceFails
<1>7. ASSUME NEW d \in Deleters, ClaimTombstone(d) \/ Remove(d) \/ RemoveFails(d)
  \/ DeleteFails(d) \/ DeleteCredit(d) PROVE overlap' = (overlap \/ Sweeping) /\
  UNCHANGED jan
  BY <1>7 DEF Touch, requests, history, ClaimTombstone, Remove, RemoveFails,
    DeleteFails, DeleteCredit
<1> QED
  BY <1>1, <1>2, <1>3, <1>4, <1>5, <1>6, <1>7, StepCases

(* A sweep that nothing has overlapped yet is undisturbed. *)
LEMMA QuietStays == Types /\ Quiet /\ [Next]_vars => Quiet'
<1> SUFFICES ASSUME Types, Quiet, [Next]_vars PROVE Quiet'
  OBVIOUS
<1>1. ASSUME NEW i \in Items, Refuse(i) PROVE Quiet'
  BY <1>1, ItemKinds DEF Refuse, Goto, files, requests, history, env, Sweeping,
    Types, Quiet
<1>2. ASSUME NEW i \in Items, PruneLook(i) PROVE Quiet'
  BY <1>2, ItemKinds DEF PruneLook, AtRest, JanitorAt, JanitorTo, Tally, files,
    requests, history, env, Sweeping, Types, Quiet
<1>3. ASSUME NEW f \in Fids, UploadCheck(f) PROVE Quiet'
  BY <1>3, ItemKinds DEF UploadCheck, Goto, files, requests, history, env,
    Sweeping, Types, Quiet
<1>4. ASSUME NEW f \in Fids, PruneMeta(f) PROVE Quiet'
  BY <1>4, ItemKinds DEF PruneMeta, files, requests, history, env, Sweeping,
    Types, Quiet
<1>5. ASSUME NEW t \in Thumbs, NEW f \in Fids, ThumbCheck(t, f) PROVE Quiet'
  BY <1>5, ItemKinds DEF ThumbCheck, Goto, files, requests, history, env,
    Sweeping, Types, Quiet
<1>6. ASSUME NEW t \in Thumbs, ReadMeta(t) PROVE Quiet'
  BY <1>6, ItemKinds DEF ReadMeta, Goto, files, requests, history, env, Sweeping,
    Types, Quiet
<1>7. ASSUME NEW m \in Sends, Route(m) PROVE Quiet'
  BY <1>7, ItemKinds DEF Route, files, requests, history, env, Sweeping, Types,
    Quiet
<1>8. ASSUME NEW m \in Sends, PruneRejected(m) PROVE Quiet'
  BY <1>8, ItemKinds DEF PruneRejected, JanitorAt, files, requests, history, env,
    Sweeping, Types, Quiet
<1>9. ASSUME NEW m \in Sends, Archive(m) PROVE Quiet'
  BY <1>9, ItemKinds DEF Archive, JanitorAt, files, requests, history, env,
    Sweeping, Types, Quiet
<1>10. ASSUME NEW d \in Deleters, NEW m \in Sends, Size(d, m) PROVE Quiet'
  BY <1>10 DEF Size, files, history, Types, Deletion, Sweeping, Quiet
<1>11. ASSUME SweepBegins PROVE Quiet'
  BY <1>11, ItemKinds DEF SweepBegins, JanitorAt, JanitorTo, Tally, Busy,
    InDirectory, files, requests, history, env, Sweeping, Types, Quiet
<1>12. ASSUME PruneUnlink PROVE Quiet'
  BY <1>12, ItemKinds DEF PruneUnlink, AtRest, JanitorAt, JanitorTo, Tally, files,
    requests, history, env, Sweeping, Types, Quiet
<1>13. ASSUME PruneCredit PROVE Quiet'
  BY <1>13, ItemKinds DEF PruneCredit, AtRest, JanitorAt, JanitorTo, Tally, files,
    requests, history, env, Sweeping, Types, Quiet
<1>14. ASSUME CountStaged PROVE Quiet'
  BY <1>14, ItemKinds DEF CountStaged, AtRest, JanitorAt, JanitorTo, Tally, files,
    requests, history, env, Sweeping, Types, Quiet
<1>15. ASSUME CountIncoming PROVE Quiet'
  BY <1>15, ItemKinds DEF CountIncoming, JanitorAt, Count, Tally, files, requests,
    history, env, Sweeping, Types, Quiet
<1>16. ASSUME CountGroups PROVE Quiet'
  BY <1>16, ItemKinds DEF CountGroups, JanitorAt, Count, Tally, files, requests,
    history, env, Sweeping, Types, Quiet
<1>17. ASSUME CountRejected PROVE Quiet'
  BY <1>17, ItemKinds DEF CountRejected, JanitorAt, Count, Tally, files, requests,
    history, env, Sweeping, Types, Quiet
<1>18. ASSUME WriteTotal PROVE Quiet'
  BY <1>18, ItemKinds DEF WriteTotal, AtRest, JanitorAt, JanitorTo, Tally, files,
    requests, history, env, Sweeping, Types, Quiet
<1>19. ASSUME WriteTotalFails PROVE Quiet'
  BY <1>19, ItemKinds DEF WriteTotalFails, AtRest, JanitorAt, JanitorTo, Tally,
    files, requests, history, env, Sweeping, Types, Quiet
<1>20. ASSUME SweepEnds PROVE Quiet'
  BY <1>20, ItemKinds DEF SweepEnds, AtRest, JanitorAt, JanitorTo, Tally, files,
    requests, history, env, Sweeping, Types, Quiet
<1>21. ASSUME Crash PROVE Quiet'
  BY <1>21, ItemKinds DEF Crash, AtRest, Sweeping, Types, Quiet
<1>22. ASSUME UNCHANGED vars PROVE Quiet'
  BY <1>22, ItemKinds DEF vars, vars, files, requests, history, env, Sweeping,
    Types, Quiet
<1>23. ASSUME overlap' = (overlap \/ Sweeping), UNCHANGED jan PROVE Quiet'
  BY <1>23 DEF Sweeping, Quiet
<1> QED
  BY <1>1, <1>2, <1>3, <1>4, <1>5, <1>6, <1>7, <1>8, <1>9, <1>10, <1>11, <1>12,
    <1>13, <1>14, <1>15, <1>16, <1>17, <1>18, <1>19, <1>20, <1>21, <1>22, <1>23, CalmCases

(* What is pruned is there, and what was not counted is still ahead. *)
LEMMA SeenStays == Types /\ Targets /\ Quiet /\ Seen /\ [Next]_vars => Seen'
<1> SUFFICES ASSUME Types, Targets, Quiet, Seen, [Next]_vars PROVE Seen'
  OBVIOUS
<1>1. ASSUME NEW i \in Items, Refuse(i) PROVE Seen'
  BY <1>1 DEF Refuse, files, requests, history, env, Types, Targets, Seen
<1>2. ASSUME NEW i \in Items, PruneLook(i) PROVE Seen'
  BY <1>2 DEF PruneLook, JanitorAt, Staged, Tally, files, requests, history, env,
    Types, Targets, Seen
<1>3. ASSUME NEW f \in Fids, UploadCheck(f) \/ PruneMeta(f) PROVE Seen'
  BY <1>3 DEF UploadCheck, PruneMeta, files, requests, history, env, Types,
    Targets, Seen
<1>4. ASSUME NEW t \in Thumbs, NEW f \in Fids, ThumbCheck(t, f) PROVE Seen'
  BY <1>4 DEF ThumbCheck, files, requests, history, env, Types, Targets, Seen
<1>5. ASSUME NEW t \in Thumbs, ReadMeta(t) PROVE Seen'
  BY <1>5 DEF ReadMeta, files, requests, history, env, Types, Targets, Seen
<1>6. ASSUME NEW m \in Sends, Route(m) PROVE Seen'
  BY <1>6 DEF Route, files, requests, history, env, Types, Targets, Seen
<1>7. ASSUME NEW m \in Sends, PruneRejected(m) PROVE Seen'
  BY <1>7 DEF PruneRejected, JanitorAt, files, requests, history, env, Types,
    Targets, Seen
<1>8. ASSUME NEW m \in Sends, Archive(m) PROVE Seen'
  BY <1>8 DEF Archive, JanitorAt, files, requests, history, env, Types, Targets,
    Seen
<1>9. ASSUME NEW d \in Deleters, NEW m \in Sends, Size(d, m) PROVE Seen'
  BY <1>9 DEF Size, files, history, Seen
<1>10. ASSUME SweepBegins PROVE Seen'
  BY <1>10 DEF SweepBegins, AtRest, JanitorAt, JanitorTo, Tally, files, requests,
    history, env, Types, Targets, Seen
<1>11. ASSUME PruneUnlink PROVE Seen'
  <2>1. jan' = [jan EXCEPT !.pc = "credit"] /\ jan \in Tally /\ jan.pc = "unlink"
    BY <1>11 DEF PruneUnlink, JanitorAt, JanitorTo, Types
  <2>2. jan'.of = jan.of /\ jan'.counted = jan.counted /\ jan'.pc = "credit" /\ jan.of \in Items
    BY <2>1 DEF Tally, Targets
  <2> QED
    BY <1>11, <2>1, <2>2 DEF PruneUnlink, Put, Staged, requests, history, Types, Seen
<1>12. ASSUME PruneCredit PROVE Seen'
  BY <1>12 DEF PruneCredit, AtRest, JanitorAt, JanitorTo, Tally, files, requests,
    history, env, Types, Targets, Seen
<1>13. ASSUME CountStaged PROVE Seen'
  BY <1>13 DEF CountStaged, AtRest, JanitorAt, JanitorTo, Tally, files, requests,
    history, env, Types, Targets, Seen
<1>14. ASSUME CountIncoming PROVE Seen'
  BY <1>14 DEF CountIncoming, JanitorAt, Count, InDirectory, Tally, files,
    requests, history, env, Types, Targets, Seen
<1>15. ASSUME CountGroups PROVE Seen'
  BY <1>15 DEF CountGroups, JanitorAt, Count, InDirectory, Tally, files, requests,
    history, env, Types, Targets, Seen
<1>16. ASSUME CountRejected PROVE Seen'
  BY <1>16 DEF CountRejected, JanitorAt, Count, InDirectory, Tally, files,
    requests, history, env, Types, Targets, Seen
<1>17. ASSUME WriteTotal PROVE Seen'
  BY <1>17 DEF WriteTotal, AtRest, JanitorAt, JanitorTo, Tally, files, requests,
    history, env, Types, Targets, Seen
<1>18. ASSUME WriteTotalFails PROVE Seen'
  BY <1>18 DEF WriteTotalFails, AtRest, JanitorAt, JanitorTo, Tally, files,
    requests, history, env, Types, Targets, Seen
<1>19. ASSUME SweepEnds PROVE Seen'
  BY <1>19 DEF SweepEnds, AtRest, JanitorAt, JanitorTo, Tally, files, requests,
    history, env, Types, Targets, Seen
<1>20. ASSUME Crash PROVE Seen'
  BY <1>20 DEF Crash, AtRest, Types, Seen
<1>21. ASSUME UNCHANGED vars PROVE Seen'
  BY <1>21 DEF vars, vars, files, requests, history, env, Types, Targets, Seen
<1>22. ASSUME overlap' = (overlap \/ Sweeping), UNCHANGED jan PROVE Seen'
  BY <1>22 DEF Sweeping, Quiet, Seen
<1> QED
  BY <1>1, <1>2, <1>3, <1>4, <1>5, <1>6, <1>7, <1>8, <1>9, <1>10, <1>11, <1>12,
    <1>13, <1>14, <1>15, <1>16, <1>17, <1>18, <1>19, <1>20, <1>21, <1>22, CalmCases

(* Sets that have nothing in common add up, ... *)
LEMMA DisjointUnion ==
    ASSUME NEW S, IsFiniteSet(S), NEW T, IsFiniteSet(T), S \cap T = {}
    PROVE  Cardinality(S \cup T) = Cardinality(S) + Cardinality(T)
<1>1. Cardinality(S) \in Nat /\ Cardinality(T) \in Nat
  BY FS_CardinalityType
<1>2. Cardinality(S \cup T) = Cardinality(S) + Cardinality(T) - Cardinality({})
  BY FS_Union
<1>3. Cardinality({}) = 0
  BY FS_EmptySet
<1>4. \A a, b \in Nat : a + b - 0 = a + b
  OBVIOUS
<1> QED
  BY <1>1, <1>2, <1>3, <1>4

(* ... and so do messages counted apart from each other. *)
LEMMA AttachedAdds ==
    ASSUME NEW A \in SUBSET Sends, NEW B \in SUBSET Sends, A \cap B = {}
    PROVE  Cardinality(AttachedTo(A \cup B))
               = Cardinality(AttachedTo(A)) + Cardinality(AttachedTo(B))
<1>1. AttachedTo(A \cup B) = AttachedTo(A) \cup AttachedTo(B)
  BY DEF AttachedTo
<1>2. AttachedTo(A) \cap AttachedTo(B) = {}
  BY DEF AttachedTo
<1>3. IsFiniteSet(AttachedTo(A)) /\ IsFiniteSet(AttachedTo(B))
  BY Sizes, ItemSets
<1> QED
  BY <1>1, <1>2, <1>3, DisjointUnion

LEMMA CountAdds ==
    ASSUME Types, Tallied, Counting, NEW M \in SUBSET Sends, M \cap jan.counted = {},
           NEW where \in {"groups", "rejected", "write"}, Count(M, where),
           UNCHANGED <<place, overlap>>
    PROVE  Tallied'
<1>1. jan' = [jan EXCEPT !.pc = where, !.total = jan.total + Cardinality(AttachedTo(M)),
                         !.counted = jan.counted \cup M] /\ jan \in Tally
  BY DEF Count, Types
<1>2. jan'.total = jan.total + Cardinality(AttachedTo(M)) /\ jan'.counted = jan.counted \cup M
  BY <1>1 DEF Tally
<1>3. Cardinality(AttachedTo(jan.counted \cup M))
        = Cardinality(AttachedTo(jan.counted)) + Cardinality(AttachedTo(M))
  BY <1>1, AttachedAdds DEF Tally
<1>4. Cardinality(Staged) \in Nat /\ Cardinality(AttachedTo(jan.counted)) \in Nat
        /\ Cardinality(AttachedTo(M)) \in Nat
  BY Sizes, ItemSets
<1>5. Staged' = Staged /\ AttachedTo(jan.counted)' = AttachedTo(jan.counted \cup M)
  BY <1>2 DEF Staged, AttachedTo
<1>6. ~overlap => jan.total = Cardinality(Staged) + Cardinality(AttachedTo(jan.counted))
  BY DEF Tallied
<1> QED
  BY <1>2, <1>3, <1>4, <1>5, <1>6 DEF Tallied

(* The total so far is what was there of what it counts. *)
LEMMA TalliedStays == Types /\ Quiet /\ Seen /\ Tallied /\ [Next]_vars => Tallied'
<1> SUFFICES ASSUME Types, Quiet, Seen, Tallied, [Next]_vars PROVE Tallied'
  OBVIOUS
<1>1. ASSUME NEW i \in Items, Refuse(i) PROVE Tallied'
  <2>1. UNCHANGED <<place, jan, overlap>>
    BY <1>1 DEF Refuse, files, history, vars
  <2> QED
    BY <2>1 DEF Tallied, Counting, Staged, AttachedTo
<1>2. ASSUME NEW i \in Items, PruneLook(i) PROVE Tallied'
  BY <1>2 DEF PruneLook, AtRest, JanitorAt, JanitorTo, Tally, Types, Counting,
    Tallied
<1>3. ASSUME NEW f \in Fids, UploadCheck(f) \/ PruneMeta(f) PROVE Tallied'
  <2>1. UNCHANGED <<place, jan, overlap>>
    BY <1>3 DEF UploadCheck, PruneMeta, files, history, vars
  <2> QED
    BY <2>1 DEF Tallied, Counting, Staged, AttachedTo
<1>4. ASSUME NEW t \in Thumbs, NEW f \in Fids, ThumbCheck(t, f) PROVE Tallied'
  <2>1. UNCHANGED <<place, jan, overlap>>
    BY <1>4 DEF ThumbCheck, files, history, vars
  <2> QED
    BY <2>1 DEF Tallied, Counting, Staged, AttachedTo
<1>5. ASSUME NEW t \in Thumbs, ReadMeta(t) PROVE Tallied'
  <2>1. UNCHANGED <<place, jan, overlap>>
    BY <1>5 DEF ReadMeta, files, history, vars
  <2> QED
    BY <2>1 DEF Tallied, Counting, Staged, AttachedTo
<1>6. ASSUME NEW m \in Sends, Route(m) PROVE Tallied'
  <2>1. UNCHANGED <<place, jan, overlap>>
    BY <1>6 DEF Route, files, history, vars
  <2> QED
    BY <2>1 DEF Tallied, Counting, Staged, AttachedTo
<1>7. ASSUME NEW m \in Sends, PruneRejected(m) PROVE Tallied'
  BY <1>7 DEF PruneRejected, AtRest, JanitorAt, JanitorTo, Tally, Types, Counting,
    Tallied
<1>8. ASSUME NEW m \in Sends, Archive(m) PROVE Tallied'
  <2>1. UNCHANGED <<place, jan, overlap>>
    BY <1>8 DEF Archive, files, history, vars
  <2> QED
    BY <2>1 DEF Tallied, Counting, Staged, AttachedTo
<1>9. ASSUME NEW d \in Deleters, NEW m \in Sends, Size(d, m) PROVE Tallied'
  <2>1. UNCHANGED <<place, jan, overlap>>
    BY <1>9 DEF Size, files, history, vars
  <2> QED
    BY <2>1 DEF Tallied, Counting, Staged, AttachedTo
<1>10. ASSUME SweepBegins PROVE Tallied'
  BY <1>10 DEF SweepBegins, AtRest, JanitorAt, JanitorTo, Tally, Types, Counting,
    Tallied
<1>11. ASSUME PruneUnlink PROVE Tallied'
  BY <1>11 DEF PruneUnlink, AtRest, JanitorAt, JanitorTo, Tally, Types, Counting,
    Tallied
<1>12. ASSUME PruneCredit PROVE Tallied'
  BY <1>12 DEF PruneCredit, AtRest, JanitorAt, JanitorTo, Tally, Types, Counting,
    Tallied
<1>13. ASSUME CountStaged PROVE Tallied'
  <2>1. jan' = [jan EXCEPT !.pc = "incoming", !.total = Cardinality(Staged)] /\ jan \in Tally
        /\ jan.pc = "prune" /\ UNCHANGED <<place, overlap>>
    BY <1>13 DEF CountStaged, JanitorAt, files, history, Types
  <2>2. jan'.total = Cardinality(Staged) /\ jan'.counted = {}
    BY <2>1 DEF Tally, Seen
  <2>3. Staged' = Staged /\ AttachedTo(jan.counted)' = {}
    BY <2>1, <2>2 DEF Staged, AttachedTo
  <2>4. Cardinality({}) = 0 /\ Cardinality(Staged) \in Nat
    BY FS_EmptySet, Sizes, ItemSets
  <2>5. \A a \in Nat : a = a + 0
    OBVIOUS
  <2>6. jan'.total = Cardinality(Staged)' + Cardinality(AttachedTo(jan.counted))'
    BY <2>2, <2>3, <2>4, <2>5
  <2> QED
    BY <2>6 DEF Tallied
<1>14. ASSUME CountIncoming PROVE Tallied'
  <2>1. Counting /\ Count(InDirectory("incoming"), "groups") /\ UNCHANGED <<place, overlap>>
    BY <1>14 DEF CountIncoming, JanitorAt, Counting, files, history
  <2>2. InDirectory("incoming") \in SUBSET Sends
    BY DEF InDirectory
  <2>3. (InDirectory("incoming")) \cap jan.counted = {}
    BY <1>14 DEF CountIncoming, JanitorAt, Seen
  <2> QED
    BY <2>1, <2>2, <2>3, CountAdds
<1>15. ASSUME CountGroups PROVE Tallied'
  <2>1. /\ Counting
        /\ Count((InDirectory("group") \cup InDirectory("archive")) \ jan.counted, "rejected")
        /\ UNCHANGED <<place, overlap>>
    BY <1>15 DEF CountGroups, JanitorAt, Counting, files, history
  <2>2. ((InDirectory("group") \cup InDirectory("archive")) \ jan.counted) \in SUBSET Sends
    BY DEF InDirectory
  <2>3. ((InDirectory("group") \cup InDirectory("archive")) \ jan.counted) \cap jan.counted = {}
    OBVIOUS
  <2> QED
    BY <2>1, <2>2, <2>3, CountAdds
<1>16. ASSUME CountRejected PROVE Tallied'
  <2>1. /\ Counting
        /\ Count(InDirectory("rejected") \ jan.counted, "write")
        /\ UNCHANGED <<place, overlap>>
    BY <1>16 DEF CountRejected, JanitorAt, Counting, files, history
  <2>2. (InDirectory("rejected") \ jan.counted) \in SUBSET Sends
    BY DEF InDirectory
  <2>3. (InDirectory("rejected") \ jan.counted) \cap jan.counted = {}
    OBVIOUS
  <2> QED
    BY <2>1, <2>2, <2>3, CountAdds
<1>17. ASSUME WriteTotal PROVE Tallied'
  BY <1>17 DEF WriteTotal, AtRest, JanitorAt, JanitorTo, Tally, Types, Counting,
    Tallied
<1>18. ASSUME WriteTotalFails PROVE Tallied'
  BY <1>18 DEF WriteTotalFails, AtRest, JanitorAt, JanitorTo, Tally, Types,
    Counting, Tallied
<1>19. ASSUME SweepEnds PROVE Tallied'
  BY <1>19 DEF SweepEnds, AtRest, JanitorAt, JanitorTo, Tally, Types, Counting,
    Tallied
<1>20. ASSUME Crash PROVE Tallied'
  BY <1>20 DEF Crash, AtRest, JanitorAt, JanitorTo, Tally, Types, Counting,
    Tallied
<1>21. ASSUME UNCHANGED vars PROVE Tallied'
  <2>1. UNCHANGED <<place, jan, overlap>>
    BY <1>21 DEF files, history, vars
  <2> QED
    BY <2>1 DEF Tallied, Counting, Staged, AttachedTo
<1>22. ASSUME overlap' = (overlap \/ Sweeping), UNCHANGED jan PROVE Tallied'
  BY <1>22 DEF Sweeping, Counting, Quiet, Tallied
<1> QED
  BY <1>1, <1>2, <1>3, <1>4, <1>5, <1>6, <1>7, <1>8, <1>9, <1>10, <1>11, <1>12,
    <1>13, <1>14, <1>15, <1>16, <1>17, <1>18, <1>19, <1>20, <1>21, <1>22, CalmCases

(* At the end the total is what is on disk. *)
LEMMA TotalIsExact ==
    Types /\ Located /\ Quiet /\ Seen /\ Tallied /\ jan.pc = "write" /\ ~overlap
        => jan.total = Cardinality(OnDisk)
<1> SUFFICES ASSUME Types, Located, Quiet, Seen, Tallied, jan.pc = "write", ~overlap
             PROVE  jan.total = Cardinality(OnDisk)
  OBVIOUS
<1>1. jan.total = Cardinality(Staged) + Cardinality(AttachedTo(jan.counted))
  BY DEF Tallied, Counting
<1>2. \A i \in Items : place[i] # "tmp"
  BY DEF Quiet, Sweeping, Located
<1>3. \A i \in Items : place[i] \in Sends => place[i] \in jan.counted
  BY DEF Located, Live, Seen, Quiet, Sweeping
<1>4. OnDisk = Staged \cup AttachedTo(jan.counted)
  BY <1>2, <1>3 DEF OnDisk, Staged, AttachedTo, Types, Tally
<1>5. Staged \cap AttachedTo(jan.counted) = {}
  BY PlacesAssumption DEF Staged, AttachedTo, Types, Tally
<1>6. IsFiniteSet(Staged) /\ IsFiniteSet(AttachedTo(jan.counted))
        /\ Cardinality(Staged) \in Nat /\ Cardinality(AttachedTo(jan.counted)) \in Nat
  BY Sizes, ItemSets
<1>7. Cardinality(Staged \cup AttachedTo(jan.counted))
        = Cardinality(Staged) + Cardinality(AttachedTo(jan.counted))
  BY <1>5, <1>6, DisjointUnion
<1> QED
  BY <1>1, <1>4, <1>7

(* A message that was routed keeps its attachments until it is deleted. *)
LEMMA AttachedStay ==
    ASSUME Types, Targets, Located, [Next]_vars,
           NEW k \in Sends, msg[k] \in {"group", "archive"},
           ~ \E d \in Deleters : Remove(d) /\ del[d].of = k
    PROVE  AttachedTo({k})' = AttachedTo({k})
<1>1. ASSUME NEW i \in Items, Reserve(i) PROVE AttachedTo({k})' = AttachedTo({k})
  BY <1>1, ItemKinds, PlacesAssumption DEF Reserve, Put, Staged, AttachedTo,
    files, requests, history, env, Types, Located
<1>2. ASSUME NEW i \in Items, Refuse(i) \/ ReleaseReservation(i) PROVE
  AttachedTo({k})' = AttachedTo({k})
  <2>1. UNCHANGED place
    BY <1>2 DEF Refuse, ReleaseReservation, files
  <2> QED
    BY <2>1 DEF AttachedTo
<1>3. ASSUME NEW i \in Items, StreamFails(i) PROVE AttachedTo({k})' = AttachedTo({k})
  BY <1>3, ItemKinds, PlacesAssumption DEF StreamFails, Put, Staged, AttachedTo,
    files, requests, history, env, Types, Located
<1>4. ASSUME NEW f \in Fids, UploadCheck(f) \/ WriteMeta(f) \/ MetaFails(f) PROVE
  AttachedTo({k})' = AttachedTo({k})
  <2>1. UNCHANGED place
    BY <1>4 DEF UploadCheck, WriteMeta, MetaFails, files
  <2> QED
    BY <2>1 DEF AttachedTo
<1>5. ASSUME NEW f \in Fids, Stage(f) PROVE AttachedTo({k})' = AttachedTo({k})
  BY <1>5, ItemKinds, PlacesAssumption DEF Stage, Put, Staged, AttachedTo, files,
    requests, history, env, Types, Located
<1>6. ASSUME NEW t \in Thumbs, NEW f \in Fids, ThumbCheck(t, f) PROVE
  AttachedTo({k})' = AttachedTo({k})
  <2>1. UNCHANGED place
    BY <1>6 DEF ThumbCheck, files
  <2> QED
    BY <2>1 DEF AttachedTo
<1>7. ASSUME NEW t \in Thumbs, LinkThumb(t) PROVE AttachedTo({k})' = AttachedTo({k})
  BY <1>7, ItemKinds, PlacesAssumption DEF LinkThumb, Put, Staged, AttachedTo,
    files, requests, history, env, Types, Located
<1>8. ASSUME NEW t \in Thumbs, ReadMeta(t) \/ Record(t) PROVE AttachedTo({k})' =
  AttachedTo({k})
  <2>1. UNCHANGED place
    BY <1>8 DEF ReadMeta, Record, files
  <2> QED
    BY <2>1 DEF AttachedTo
<1>9. ASSUME NEW t \in Thumbs, Unlink(t) PROVE AttachedTo({k})' = AttachedTo({k})
  BY <1>9, ItemKinds, PlacesAssumption DEF Unlink, Put, Staged, AttachedTo, files,
    requests, history, env, Types, Located
<1>10. ASSUME NEW m \in Sends, NEW F \in SUBSET Fids, Validate(m, F) PROVE
  AttachedTo({k})' = AttachedTo({k})
  <2>1. UNCHANGED place
    BY <1>10 DEF Validate, files
  <2> QED
    BY <2>1 DEF AttachedTo
<1>11. ASSUME NEW m \in Sends, NEW f \in Fids, Move(m, f) PROVE AttachedTo({k})' =
  AttachedTo({k})
  BY <1>11, ItemKinds, PlacesAssumption DEF Move, Put, Staged, Previews,
    AttachedTo, files, requests, history, env, Types, Located
<1>12. ASSUME NEW m \in Sends, SendAborts(m) PROVE AttachedTo({k})' = AttachedTo({k})
  BY <1>12, ItemKinds, PlacesAssumption DEF SendAborts, Put, Staged, AttachedTo,
    files, requests, history, env, Types, Located
<1>13. ASSUME NEW m \in Sends, Spool(m) \/ Route(m) PROVE AttachedTo({k})' =
  AttachedTo({k})
  <2>1. UNCHANGED place
    BY <1>13 DEF Spool, Route, files
  <2> QED
    BY <2>1 DEF AttachedTo
<1>14. ASSUME NEW m \in Sends, BounceFails(m) PROVE AttachedTo({k})' = AttachedTo({k})
  BY <1>14, ItemKinds, PlacesAssumption DEF BounceFails, Put, Staged, AttachedTo,
    files, requests, history, env, Types, Located
<1>15. ASSUME NEW d \in Deleters, NEW m \in Sends, Size(d, m) PROVE
  AttachedTo({k})' = AttachedTo({k})
  <2>1. UNCHANGED place
    BY <1>15 DEF Size, files
  <2> QED
    BY <2>1 DEF AttachedTo
<1>16. ASSUME NEW d \in Deleters, ClaimTombstone(d) \/ RemoveFails(d) \/
  DeleteFails(d) \/ DeleteCredit(d) PROVE AttachedTo({k})' = AttachedTo({k})
  <2>1. UNCHANGED place
    BY <1>16 DEF ClaimTombstone, RemoveFails, DeleteFails, DeleteCredit, files
  <2> QED
    BY <2>1 DEF AttachedTo
<1>17. ASSUME NEW d \in Deleters, Remove(d) PROVE AttachedTo({k})' = AttachedTo({k})
  <2>1. PICK n \in Sends : n = del[d].of
    BY <1>17 DEF Remove, At, Targets
  <2>2. n # k /\ Put(AttachedTo({n}), "gone")
    BY <1>17, <2>1 DEF Remove
  <2> QED
    BY <2>2, PlacesAssumption DEF Put, AttachedTo, Types
<1>18. ASSUME SweepBegins \/ PruneCredit \/ CountStaged \/ CountIncoming \/
  CountGroups \/ CountRejected \/ WriteTotal \/ WriteTotalFails \/ SweepEnds PROVE
  AttachedTo({k})' = AttachedTo({k})
  <2>1. UNCHANGED place
    BY <1>18 DEF SweepBegins, PruneCredit, CountStaged, CountIncoming, CountGroups,
      CountRejected, WriteTotal, WriteTotalFails, SweepEnds, files
  <2> QED
    BY <2>1 DEF AttachedTo
<1>19. ASSUME NEW m \in Sends, PruneRejected(m) PROVE AttachedTo({k})' = AttachedTo({k})
  BY <1>19, ItemKinds, PlacesAssumption DEF PruneRejected, Put, Staged,
    AttachedTo, files, requests, history, env, Types, Located
<1>20. ASSUME NEW i \in Items, PruneLook(i) PROVE AttachedTo({k})' = AttachedTo({k})
  <2>1. UNCHANGED place
    BY <1>20 DEF PruneLook, files
  <2> QED
    BY <2>1 DEF AttachedTo
<1>21. ASSUME PruneUnlink PROVE AttachedTo({k})' = AttachedTo({k})
  BY <1>21, ItemKinds, PlacesAssumption DEF PruneUnlink, Put, Staged, AttachedTo,
    files, requests, history, env, Types, Located
<1>22. ASSUME NEW f \in Fids, PruneMeta(f) PROVE AttachedTo({k})' = AttachedTo({k})
  <2>1. UNCHANGED place
    BY <1>22 DEF PruneMeta, files
  <2> QED
    BY <2>1 DEF AttachedTo
<1>23. ASSUME NEW m \in Sends, Archive(m) PROVE AttachedTo({k})' = AttachedTo({k})
  <2>1. UNCHANGED place
    BY <1>23 DEF Archive, files
  <2> QED
    BY <2>1 DEF AttachedTo
<1>24. ASSUME Crash PROVE AttachedTo({k})' = AttachedTo({k})
  BY <1>24, PlacesAssumption DEF Crash, Put, InDirectory, AttachedTo, Types
<1>25. ASSUME UNCHANGED vars PROVE AttachedTo({k})' = AttachedTo({k})
  <2>1. UNCHANGED place
    BY <1>25 DEF files, vars
  <2> QED
    BY <2>1 DEF AttachedTo
<1> QED
  BY <1>1, <1>2, <1>3, <1>4, <1>5, <1>6, <1>7, <1>8, <1>9, <1>10, <1>11, <1>12,
    <1>13, <1>14, <1>15, <1>16, <1>17, <1>18, <1>19, <1>20, <1>21, <1>22, <1>23,
    <1>24, <1>25, StepCases

(* A delete request that does nothing keeps its claim. *)
LEMMA ClaimKept ==
    ASSUME Types, Targets, Located, Claims, [Next]_vars, NEW e \in Deleters,
           del'[e] = del[e], tomb \subseteq tomb',
           \A m \in Sends : msg[m] \in {"group", "archive"} => msg'[m] \in {"group", "archive"}
    PROVE  Claimed(e)'
<1> SUFFICES ASSUME del[e].pc \in {"claim", "remove", "credit"} PROVE Claimed(e)'
  BY DEF Claimed
<1>1. PICK k \in Sends : k = del[e].of
  BY DEF Targets
<1>2. msg[k] \in {"group", "archive"} /\ msg'[k] \in {"group", "archive"}
  BY <1>1 DEF Claims, Claimed
<1>3. CASE k \in tomb
  BY <1>1, <1>2, <1>3 DEF Claims, Claimed
<1>4. CASE k \notin tomb
  <2>1. ~ \E d \in Deleters : Remove(d) /\ del[d].of = k
    BY <1>4 DEF Remove, At, Claims, Claimed
  <2>2. AttachedTo({k})' = AttachedTo({k})
    BY <1>2, <2>1, AttachedStay
  <2>3. AttachedTo({del[e].of})' = AttachedTo({k}) /\ del'[e].of = k
    BY <1>1, <2>2 DEF AttachedTo
  <2> QED
    BY <1>1, <1>2, <1>4, <2>3 DEF Claims, Claimed, AttachedTo
<1> QED
  BY <1>3, <1>4

(* Claims hold. *)
LEMMA ClaimsStay ==
    Types /\ Targets /\ Located /\ Claims /\ [Next]_vars => Claims'
<1> SUFFICES ASSUME Types, Targets, Located, Claims, [Next]_vars PROVE Claims'
  OBVIOUS
<1>1. ASSUME NEW i \in Items, Reserve(i) \/ Refuse(i) \/ StreamFails(i) \/
  ReleaseReservation(i) PROVE Claims'
  <2>1. UNCHANGED <<del, tomb>> /\ \A k \in Sends : msg[k] \in {"group",
    "archive"} => msg'[k] \in {"group", "archive"}
    BY <1>1 DEF Reserve, Refuse, StreamFails, ReleaseReservation, requests, files,
      Types
  <2> QED
    BY <2>1, ClaimKept DEF Claims, Credits
<1>2. ASSUME NEW f \in Fids, UploadCheck(f) \/ Stage(f) \/ WriteMeta(f) \/
  MetaFails(f) PROVE Claims'
  <2>1. UNCHANGED <<del, tomb>> /\ \A k \in Sends : msg[k] \in {"group",
    "archive"} => msg'[k] \in {"group", "archive"}
    BY <1>2 DEF UploadCheck, Stage, WriteMeta, MetaFails, requests, files, Types
  <2> QED
    BY <2>1, ClaimKept DEF Claims, Credits
<1>3. ASSUME NEW t \in Thumbs, NEW f \in Fids, ThumbCheck(t, f) PROVE Claims'
  <2>1. UNCHANGED <<del, tomb>> /\ \A k \in Sends : msg[k] \in {"group",
    "archive"} => msg'[k] \in {"group", "archive"}
    BY <1>3 DEF ThumbCheck, requests, files, Types
  <2> QED
    BY <2>1, ClaimKept DEF Claims, Credits
<1>4. ASSUME NEW t \in Thumbs, LinkThumb(t) \/ ReadMeta(t) \/ Record(t) \/
  Unlink(t) PROVE Claims'
  <2>1. UNCHANGED <<del, tomb>> /\ \A k \in Sends : msg[k] \in {"group",
    "archive"} => msg'[k] \in {"group", "archive"}
    BY <1>4 DEF LinkThumb, ReadMeta, Record, Unlink, requests, files, Types
  <2> QED
    BY <2>1, ClaimKept DEF Claims, Credits
<1>5. ASSUME NEW m \in Sends, NEW F \in SUBSET Fids, Validate(m, F) PROVE Claims'
  <2>1. UNCHANGED <<del, tomb>> /\ \A k \in Sends : msg[k] \in {"group",
    "archive"} => msg'[k] \in {"group", "archive"}
    BY <1>5 DEF Validate, requests, files, Types
  <2> QED
    BY <2>1, ClaimKept DEF Claims, Credits
<1>6. ASSUME NEW m \in Sends, NEW f \in Fids, Move(m, f) PROVE Claims'
  <2>1. UNCHANGED <<del, tomb>> /\ \A k \in Sends : msg[k] \in {"group",
    "archive"} => msg'[k] \in {"group", "archive"}
    BY <1>6 DEF Move, requests, files, Types
  <2> QED
    BY <2>1, ClaimKept DEF Claims, Credits
<1>7. ASSUME NEW m \in Sends, SendAborts(m) \/ Spool(m) \/ Route(m) \/
  BounceFails(m) PROVE Claims'
  <2>1. UNCHANGED <<del, tomb>> /\ \A k \in Sends : msg[k] \in {"group",
    "archive"} => msg'[k] \in {"group", "archive"}
    BY <1>7 DEF SendAborts, Spool, Route, BounceFails, requests, files, Types
  <2> QED
    BY <2>1, ClaimKept DEF Claims, Credits
<1>8. ASSUME NEW d \in Deleters, NEW m \in Sends, Size(d, m) PROVE Claims'
  <2>1. \A e \in Deleters \ {d} : del'[e] = del[e]
    BY <1>8 DEF Size, Done, Types
  <2>2. UNCHANGED msg /\ tomb \subseteq tomb'
    BY <1>8 DEF Size
  <2>3. \A e \in Deleters \ {d} : Claimed(e)'
    BY <2>1, <2>2, ClaimKept
  <2>4. del'[d].pc = "claim" /\ del'[d].of = m /\ del'[d].freed = Named(m)
        /\ del'[d].over = (Named(m) > Cardinality(AttachedTo({m})))
    BY <1>8 DEF Size, Types
  <2>5. AttachedTo({m})' = AttachedTo({m}) /\ msg'[m] = "group"
    BY <1>8 DEF Size, files, AttachedTo
  <2>6. Named(m) \in Nat /\ Cardinality(AttachedTo({m})) \in Nat
    BY NamedType, Sizes, ItemSets
  <2>7. del'[d].over \/ del'[d].freed <= Cardinality(AttachedTo({m})')
    <3>1. PICK a \in Nat, b \in Nat : a = Named(m) /\ b = Cardinality(AttachedTo({m}))
      BY <2>6
    <3>2. a > b \/ a <= b
      OBVIOUS
    <3> QED
      BY <2>4, <2>5, <3>1, <3>2
  <2>8. Claimed(d)'
    BY <2>4, <2>5, <2>7 DEF Claimed, AttachedTo
  <2> QED
    BY <2>1, <2>3, <2>4, <2>8 DEF Claims, Credits
<1>9. ASSUME NEW d \in Deleters, ClaimTombstone(d) PROVE Claims'
  <2>1. \A e \in Deleters \ {d} : del'[e] = del[e]
    BY <1>9 DEF ClaimTombstone, Done, Types
  <2>2. UNCHANGED msg /\ tomb \subseteq tomb'
    BY <1>9 DEF ClaimTombstone
  <2>3. \A e \in Deleters \ {d} : Claimed(e)'
    BY <2>1, <2>2, ClaimKept
  <2>4. del'[d].pc = "remove" /\ del'[d].of = del[d].of /\ del'[d].first = (del[d].of \notin tomb)
        /\ del[d].of \in tomb' /\ msg[del[d].of] = "group"
    BY <1>9 DEF ClaimTombstone, Types, Deletion
  <2>5. Claimed(d)'
    BY <2>2, <2>4 DEF Claimed
  <2>6. \A e \in Deleters \ {d} : del[e].pc \in {"remove", "credit"} => del[e].of \in tomb
    BY DEF Claims, Claimed
  <2>7. ASSUME NEW e \in Deleters \ {d}, Credits(e)', Credits(d)' PROVE del'[e].of # del'[d].of
    BY <2>1, <2>4, <2>6, <2>7 DEF Credits
  <2>8. ASSUME NEW e \in Deleters \ {d}, NEW f \in Deleters \ {d}, Credits(e)', Credits(f)',
               del'[e].of = del'[f].of
        PROVE  e = f
    BY <2>1, <2>8 DEF Claims, Credits
  <2> QED
    BY <2>3, <2>5, <2>7, <2>8 DEF Claims
<1>10. ASSUME NEW d \in Deleters, Remove(d) PROVE Claims'
  <2>1. \A e \in Deleters \ {d} : del'[e] = del[e]
    BY <1>10 DEF Remove, Done, Types
  <2>2. UNCHANGED msg /\ tomb \subseteq tomb'
    BY <1>10 DEF Remove
  <2>3. \A e \in Deleters \ {d} : Claimed(e)'
    BY <2>1, <2>2, ClaimKept
  <2>4. del'[d].pc = "credit" /\ del'[d].of = del[d].of /\ del'[d].first = del[d].first
        /\ del[d].pc = "remove" /\ msg[del[d].of] = "group"
    BY <1>10 DEF Remove, At, Types, Deletion
  <2>5. Claimed(d)'
    BY <2>2, <2>4 DEF Claims, Claimed
  <2> QED
    BY <2>1, <2>3, <2>4, <2>5 DEF Claims, Credits
<1>11. ASSUME NEW d \in Deleters, RemoveFails(d) PROVE Claims'
  <2>1. \A e \in Deleters \ {d} : del'[e] = del[e]
    BY <1>11 DEF RemoveFails, Done, Types
  <2>2. UNCHANGED msg /\ tomb \subseteq tomb'
    BY <1>11 DEF RemoveFails
  <2>3. \A e \in Deleters \ {d} : Claimed(e)'
    BY <2>1, <2>2, ClaimKept
  <2>4. del'[d].pc = "credit" /\ del'[d].of = del[d].of /\ del'[d].first = del[d].first
        /\ del[d].pc = "remove" /\ msg[del[d].of] = "group"
    BY <1>11 DEF RemoveFails, At, Types, Deletion
  <2>5. Claimed(d)'
    BY <2>2, <2>4 DEF Claims, Claimed
  <2> QED
    BY <2>1, <2>3, <2>4, <2>5 DEF Claims, Credits
<1>12. ASSUME NEW d \in Deleters, DeleteFails(d) PROVE Claims'
  <2>1. \A e \in Deleters \ {d} : del'[e] = del[e]
    BY <1>12 DEF DeleteFails, Done, Types
  <2>2. UNCHANGED msg /\ tomb \subseteq tomb'
    BY <1>12 DEF DeleteFails
  <2>3. \A e \in Deleters \ {d} : Claimed(e)'
    BY <2>1, <2>2, ClaimKept
  <2>4. del'[d].pc = "done"
    BY <1>12 DEF DeleteFails, Done, NoDelete, Types
  <2>5. Claimed(d)'
    BY <2>4 DEF Claimed
  <2> QED
    BY <2>1, <2>3, <2>4, <2>5 DEF Claims, Credits
<1>13. ASSUME NEW d \in Deleters, DeleteCredit(d) PROVE Claims'
  <2>1. \A e \in Deleters \ {d} : del'[e] = del[e]
    BY <1>13 DEF DeleteCredit, Done, Types
  <2>2. UNCHANGED msg /\ tomb \subseteq tomb'
    BY <1>13 DEF DeleteCredit
  <2>3. \A e \in Deleters \ {d} : Claimed(e)'
    BY <2>1, <2>2, ClaimKept
  <2>4. del'[d].pc = "done"
    BY <1>13 DEF DeleteCredit, Done, NoDelete, Types
  <2>5. Claimed(d)'
    BY <2>4 DEF Claimed
  <2> QED
    BY <2>1, <2>3, <2>4, <2>5 DEF Claims, Credits
<1>14. ASSUME SweepBegins \/ PruneUnlink \/ PruneCredit \/ CountStaged \/
  CountIncoming \/ CountGroups \/ CountRejected \/ WriteTotal \/ WriteTotalFails
  \/ SweepEnds PROVE Claims'
  <2>1. UNCHANGED <<del, tomb>> /\ \A k \in Sends : msg[k] \in {"group",
    "archive"} => msg'[k] \in {"group", "archive"}
    BY <1>14 DEF SweepBegins, PruneUnlink, PruneCredit, CountStaged, CountIncoming,
      CountGroups, CountRejected, WriteTotal, WriteTotalFails, SweepEnds,
      requests, files, Types
  <2> QED
    BY <2>1, ClaimKept DEF Claims, Credits
<1>15. ASSUME NEW m \in Sends, PruneRejected(m) \/ Archive(m) PROVE Claims'
  <2>1. UNCHANGED <<del, tomb>> /\ \A k \in Sends : msg[k] \in {"group",
    "archive"} => msg'[k] \in {"group", "archive"}
    BY <1>15 DEF PruneRejected, Archive, requests, files, Types
  <2> QED
    BY <2>1, ClaimKept DEF Claims, Credits
<1>16. ASSUME NEW i \in Items, PruneLook(i) PROVE Claims'
  <2>1. UNCHANGED <<del, tomb>> /\ \A k \in Sends : msg[k] \in {"group",
    "archive"} => msg'[k] \in {"group", "archive"}
    BY <1>16 DEF PruneLook, requests, files, Types
  <2> QED
    BY <2>1, ClaimKept DEF Claims, Credits
<1>17. ASSUME NEW f \in Fids, PruneMeta(f) PROVE Claims'
  <2>1. UNCHANGED <<del, tomb>> /\ \A k \in Sends : msg[k] \in {"group",
    "archive"} => msg'[k] \in {"group", "archive"}
    BY <1>17 DEF PruneMeta, requests, files, Types
  <2> QED
    BY <2>1, ClaimKept DEF Claims, Credits
<1>18. ASSUME Crash PROVE Claims'
  <2>1. \A d \in Deleters : del'[d].pc \in {"idle", "done"}
    BY <1>18 DEF Crash, At, NoDelete
  <2> QED
    BY <2>1 DEF Claims, Claimed, Credits
<1>19. ASSUME UNCHANGED vars PROVE Claims'
  <2>1. UNCHANGED <<del, tomb>> /\ \A k \in Sends : msg[k] \in {"group",
    "archive"} => msg'[k] \in {"group", "archive"}
    BY <1>19 DEF vars, requests, files, Types
  <2> QED
    BY <2>1, ClaimKept DEF Claims, Credits
<1> QED
  BY <1>1, <1>2, <1>3, <1>4, <1>5, <1>6, <1>7, <1>8, <1>9, <1>10, <1>11, <1>12,
    <1>13, <1>14, <1>15, <1>16, <1>17, <1>18, <1>19, StepCases

(* Only a recount makes a counter sound that was not. *)
LEMMA SoundBefore ==
    ASSUME Types, Quiet, [Next]_vars, Sound'
    PROVE  Sound \/ WriteTotal
<1>1. ASSUME NEW i \in Items, Reserve(i) \/ Refuse(i) \/ StreamFails(i) \/
  ReleaseReservation(i) PROVE Sound \/ WriteTotal
  BY <1>1 DEF Reserve, Refuse, StreamFails, ReleaseReservation, Types, Quiet,
    Sound, Sweeping, files, requests, history, env, Touch
<1>2. ASSUME NEW f \in Fids, UploadCheck(f) \/ Stage(f) \/ WriteMeta(f) \/
  MetaFails(f) PROVE Sound \/ WriteTotal
  BY <1>2 DEF UploadCheck, Stage, WriteMeta, MetaFails, Types, Quiet, Sound,
    Sweeping, files, requests, history, env, Touch
<1>3. ASSUME NEW t \in Thumbs, NEW f \in Fids, ThumbCheck(t, f) PROVE Sound \/ WriteTotal
  BY <1>3 DEF ThumbCheck, Types, Quiet, Sound, Sweeping, files, requests, history,
    env, Touch
<1>4. ASSUME NEW t \in Thumbs, LinkThumb(t) \/ ReadMeta(t) \/ Record(t) \/
  Unlink(t) PROVE Sound \/ WriteTotal
  BY <1>4 DEF LinkThumb, ReadMeta, Record, Unlink, history, Touch, Sweeping,
    Sound, Types
<1>5. ASSUME NEW m \in Sends, NEW F \in SUBSET Fids, Validate(m, F) PROVE Sound \/
  WriteTotal
  BY <1>5 DEF Validate, Types, Quiet, Sound, Sweeping, files, requests, history,
    env, Touch
<1>6. ASSUME NEW m \in Sends, NEW f \in Fids, Move(m, f) PROVE Sound \/ WriteTotal
  BY <1>6 DEF Move, history, Touch, Sweeping, Sound, Types
<1>7. ASSUME NEW m \in Sends, SendAborts(m) \/ Spool(m) \/ Route(m) \/
  BounceFails(m) \/ PruneRejected(m) \/ Archive(m) PROVE Sound \/ WriteTotal
  BY <1>7 DEF SendAborts, Spool, Route, BounceFails, PruneRejected, Archive,
    Types, Quiet, Sound, Sweeping, files, requests, history, env, Touch
<1>8. ASSUME NEW d \in Deleters, NEW m \in Sends, Size(d, m) PROVE Sound \/ WriteTotal
  BY <1>8 DEF Size, history, Touch, Sweeping, Sound, Types
<1>9. ASSUME NEW d \in Deleters, ClaimTombstone(d) \/ Remove(d) \/ RemoveFails(d)
  \/ DeleteFails(d) \/ DeleteCredit(d) PROVE Sound \/ WriteTotal
  BY <1>9 DEF ClaimTombstone, Remove, RemoveFails, DeleteFails, DeleteCredit,
    history, Touch, Sweeping, Sound, Types
<1>10. ASSUME SweepBegins PROVE Sound \/ WriteTotal
  BY <1>10 DEF SweepBegins, Types, Quiet, Sound, Sweeping, JanitorAt, history
<1>11. ASSUME NEW i \in Items, PruneLook(i) PROVE Sound \/ WriteTotal
  BY <1>11 DEF PruneLook, Types, Quiet, Sound, Sweeping, files, requests, history,
    env, Touch
<1>12. ASSUME PruneUnlink \/ PruneCredit \/ CountStaged \/ CountIncoming \/
  CountGroups \/ CountRejected \/ SweepEnds PROVE Sound \/ WriteTotal
  BY <1>12 DEF PruneUnlink, PruneCredit, CountStaged, CountIncoming, CountGroups,
    CountRejected, SweepEnds, Types, Quiet, Sound, Sweeping, files, requests,
    history, env, Touch
<1>13. ASSUME NEW f \in Fids, PruneMeta(f) PROVE Sound \/ WriteTotal
  BY <1>13 DEF PruneMeta, Types, Quiet, Sound, Sweeping, files, requests, history,
    env, Touch
<1>14. ASSUME WriteTotal PROVE Sound \/ WriteTotal
  BY <1>14
<1>15. ASSUME WriteTotalFails PROVE Sound \/ WriteTotal
  BY <1>15 DEF WriteTotalFails, Sound
<1>16. ASSUME Crash PROVE Sound \/ WriteTotal
  BY <1>16 DEF Crash, Sound
<1>17. ASSUME UNCHANGED vars PROVE Sound \/ WriteTotal
  BY <1>17 DEF vars, vars, history, Sound
<1> QED
  BY <1>1, <1>2, <1>3, <1>4, <1>5, <1>6, <1>7, <1>8, <1>9, <1>10, <1>11, <1>12,
    <1>13, <1>14, <1>15, <1>16, <1>17, StepCases

(* What is gone stays gone, and who fails has nothing left on disk. *)
LEMMA GoneStays ==
    ASSUME Types, Targets, Located, Paired, [Next]_vars, Sound', NEW j \in Items
    PROVE  /\ place[j] = "gone" => place'[j] = "gone"
           /\ upload'[j] = "fail" /\ upload[j] # "fail" => place[j] # "gone" /\ place'[j] = "gone"
<1> DEFINE G == /\ place[j] = "gone" => place'[j] = "gone"
                /\ upload'[j] = "fail" /\ upload[j] # "fail"
                      => place[j] # "gone" /\ place'[j] = "gone"
<1>1. ASSUME NEW i \in Items, Reserve(i) \/ Refuse(i) \/ ReleaseReservation(i) PROVE G
  BY <1>1, PlacesAssumption, ItemKinds DEF Reserve, Refuse, ReleaseReservation,
    files, Goto, Put, Types, Located
<1>2. ASSUME NEW i \in Items, StreamFails(i) PROVE G
  BY <1>2, PlacesAssumption, ItemKinds DEF StreamFails, Goto, Put, Types, Located
<1>3. ASSUME NEW f \in Fids, UploadCheck(f) \/ WriteMeta(f) PROVE G
  BY <1>3, PlacesAssumption, ItemKinds DEF UploadCheck, WriteMeta, files, Goto,
    Types
<1>4. ASSUME NEW f \in Fids, Stage(f) PROVE G
  BY <1>4, PlacesAssumption, ItemKinds DEF Stage, Goto, Put, Types, Located
<1>5. ASSUME NEW f \in Fids, MetaFails(f) PROVE G
  BY <1>5 DEF MetaFails, Sound
<1>6. ASSUME NEW t \in Thumbs, NEW f \in Fids, ThumbCheck(t, f) PROVE G
  BY <1>6, PlacesAssumption, ItemKinds DEF ThumbCheck, files, Goto, Types
<1>7. ASSUME NEW t \in Thumbs, LinkThumb(t) PROVE G
  BY <1>7, PlacesAssumption, ItemKinds DEF LinkThumb, Goto, Put, Types, Located
<1>8. ASSUME NEW t \in Thumbs, ReadMeta(t) \/ Record(t) PROVE G
  BY <1>8, PlacesAssumption, ItemKinds DEF ReadMeta, Record, files, Goto, Types
<1>9. ASSUME NEW t \in Thumbs, Unlink(t) PROVE G
  <2>1. thumb[on[t]] = "none" \/ place[t] = "staged"
    BY <1>9, ItemKinds DEF Unlink, Staged, Sound, Types
  <2>2. place[t] = "staged"
    BY <1>9, <2>1 DEF Unlink, Paired
  <2> QED
    BY <1>9, <2>2, ItemKinds DEF Unlink, Goto, Put, Staged, Types
<1>10. ASSUME NEW m \in Sends, NEW F \in SUBSET Fids, Validate(m, F) PROVE G
  BY <1>10, PlacesAssumption, ItemKinds DEF Validate, files, requests, history
<1>11. ASSUME NEW m \in Sends, NEW f \in Fids, Move(m, f) PROVE G
  BY <1>11, PlacesAssumption, ItemKinds DEF Move, requests, Put, Staged, Previews,
    Types
<1>12. ASSUME NEW m \in Sends, SendAborts(m) \/ BounceFails(m) \/ PruneRejected(m) PROVE G
  BY <1>12, PlacesAssumption, ItemKinds DEF SendAborts, BounceFails,
    PruneRejected, requests, Put, AttachedTo, Types
<1>13. ASSUME NEW m \in Sends, Spool(m) \/ Route(m) \/ Archive(m) PROVE G
  BY <1>13, PlacesAssumption, ItemKinds DEF Spool, Route, Archive, files,
    requests, history
<1>14. ASSUME NEW d \in Deleters, NEW m \in Sends, Size(d, m) PROVE G
  BY <1>14, PlacesAssumption, ItemKinds DEF Size, files, requests, history
<1>15. ASSUME NEW d \in Deleters, ClaimTombstone(d) \/ RemoveFails(d) \/
  DeleteFails(d) \/ DeleteCredit(d) PROVE G
  BY <1>15, PlacesAssumption, ItemKinds DEF ClaimTombstone, RemoveFails,
    DeleteFails, DeleteCredit, files, requests, history
<1>16. ASSUME NEW d \in Deleters, Remove(d) PROVE G
  BY <1>16, PlacesAssumption, ItemKinds DEF Remove, Put, AttachedTo, Types
<1>17. ASSUME SweepBegins \/ PruneCredit \/ CountStaged \/ CountIncoming \/
  CountGroups \/ CountRejected \/ WriteTotal \/ WriteTotalFails \/ SweepEnds PROVE
  G
  BY <1>17, PlacesAssumption, ItemKinds DEF SweepBegins, PruneCredit, CountStaged,
    CountIncoming, CountGroups, CountRejected, WriteTotal, WriteTotalFails,
    SweepEnds, files, requests, history
<1>18. ASSUME NEW i \in Items, PruneLook(i) PROVE G
  BY <1>18, PlacesAssumption, ItemKinds DEF PruneLook, files, requests, history
<1>19. ASSUME PruneUnlink PROVE G
  BY <1>19, PlacesAssumption, ItemKinds DEF PruneUnlink, requests, Put, Staged,
    Types
<1>20. ASSUME NEW f \in Fids, PruneMeta(f) PROVE G
  BY <1>20, PlacesAssumption, ItemKinds DEF PruneMeta, files, requests, history
<1>21. ASSUME Crash PROVE G
  BY <1>21, PlacesAssumption, ItemKinds DEF Crash, Put, AttachedTo, InDirectory,
    Types
<1>22. ASSUME UNCHANGED vars PROVE G
  BY <1>22, PlacesAssumption, ItemKinds DEF vars, vars, files, requests
<1> QED
  BY <1>1, <1>2, <1>3, <1>4, <1>5, <1>6, <1>7, <1>8, <1>9, <1>10, <1>11, <1>12,
    <1>13, <1>14, <1>15, <1>16, <1>17, <1>18, <1>19, <1>20, <1>21, <1>22,
    StepCases

(* Only a reservation adds to what the counter is charged with. *)
LEMMA ChargedShrinks ==
    ASSUME Types, Targets, Located, Paired, Seen, [Next]_vars, Sound, Sound', NEW o \in Removed,
           NEW x \in Charged(o)'
    PROVE  x \in Charged(o) \/ Reserve(x)
<1>1. ASSUME NEW i \in Items, Reserve(i) PROVE x \in Charged(o) \/ Reserve(x)
  <2>1. UNCHANGED jan /\ \A j \in Items \ {i} : place'[j] = place[j] /\ upload'[j] = upload[j]
    BY <1>1 DEF Reserve, Put, Goto, Types
  <2> QED
    BY <1>1, <2>1 DEF Charged
<1>2. ASSUME NEW i \in Items, Refuse(i) \/ ReleaseReservation(i) PROVE x \in
  Charged(o) \/ Reserve(x)
  <2>1. UNCHANGED <<place, jan>> /\ \A j \in Items : upload'[j] = "fail" =>
    upload[j] = "fail"
    BY <1>2, ItemKinds DEF Refuse, ReleaseReservation, files, Goto, Types
  <2> QED
    BY <2>1 DEF Charged
<1>3. ASSUME NEW i \in Items, StreamFails(i) PROVE x \in Charged(o) \/ Reserve(x)
  <2>1. UNCHANGED jan /\ \A j \in Items \ {i} : place'[j] = place[j] /\ upload'[j] = upload[j]
    BY <1>3 DEF StreamFails, Put, Goto, Staged, Types
  <2>2. i \in Items /\ place[i] \in {"tmp", "staged"}
    BY <1>3, ItemKinds DEF StreamFails, Located
  <2> QED
    BY <2>1, <2>2 DEF Charged
<1>4. ASSUME NEW f \in Fids, UploadCheck(f) \/ WriteMeta(f) PROVE x \in Charged(o)
  \/ Reserve(x)
  <2>1. UNCHANGED <<place, jan>> /\ \A j \in Items : upload'[j] = "fail" =>
    upload[j] = "fail"
    BY <1>4, ItemKinds DEF UploadCheck, WriteMeta, files, Goto, Types
  <2> QED
    BY <2>1 DEF Charged
<1>5. ASSUME NEW f \in Fids, Stage(f) PROVE x \in Charged(o) \/ Reserve(x)
  <2>1. UNCHANGED jan /\ \A j \in Items \ {f} : place'[j] = place[j] /\ upload'[j] = upload[j]
    BY <1>5 DEF Stage, Put, Goto, Staged, Types
  <2>2. f \in Items /\ place[f] \in {"tmp", "staged"}
    BY <1>5, ItemKinds DEF Stage, Located
  <2> QED
    BY <2>1, <2>2 DEF Charged
<1>6. ASSUME NEW f \in Fids, MetaFails(f) PROVE x \in Charged(o) \/ Reserve(x)
  BY <1>6 DEF MetaFails, Sound
<1>7. ASSUME NEW t \in Thumbs, NEW f \in Fids, ThumbCheck(t, f) PROVE x \in
  Charged(o) \/ Reserve(x)
  <2>1. UNCHANGED <<place, jan>> /\ \A j \in Items : upload'[j] = "fail" =>
    upload[j] = "fail"
    BY <1>7, ItemKinds DEF ThumbCheck, files, Goto, Types
  <2> QED
    BY <2>1 DEF Charged
<1>8. ASSUME NEW t \in Thumbs, LinkThumb(t) PROVE x \in Charged(o) \/ Reserve(x)
  <2>1. UNCHANGED jan /\ \A j \in Items \ {t} : place'[j] = place[j] /\ upload'[j] = upload[j]
    BY <1>8 DEF LinkThumb, Put, Goto, Staged, Types
  <2>2. t \in Items /\ place[t] \in {"tmp", "staged"}
    BY <1>8, ItemKinds DEF LinkThumb, Located
  <2> QED
    BY <2>1, <2>2 DEF Charged
<1>9. ASSUME NEW t \in Thumbs, ReadMeta(t) \/ Record(t) PROVE x \in Charged(o) \/
  Reserve(x)
  <2>1. UNCHANGED <<place, jan>> /\ \A j \in Items : upload'[j] = "fail" =>
    upload[j] = "fail"
    BY <1>9, ItemKinds DEF ReadMeta, Record, files, Goto, Types
  <2> QED
    BY <2>1 DEF Charged
<1>10. ASSUME NEW t \in Thumbs, Unlink(t) PROVE x \in Charged(o) \/ Reserve(x)
  <2>1. UNCHANGED jan /\ \A i \in Items \ {t} : place'[i] = place[i] /\ upload'[i] = upload[i]
    BY <1>10 DEF Unlink, Put, Goto, Staged, Types
  <2>2. thumb[on[t]] = "none" \/ place[t] = "staged"
    BY <1>10, ItemKinds DEF Unlink, Staged, Sound, Types
  <2>3. t \in Items /\ place[t] = "staged"
    BY <1>10, <2>2, ItemKinds DEF Unlink, Paired
  <2> QED
    BY <2>1, <2>3 DEF Charged
<1>11. ASSUME NEW m \in Sends, NEW F \in SUBSET Fids, Validate(m, F) PROVE x \in
  Charged(o) \/ Reserve(x)
  <2>1. UNCHANGED <<place, upload, jan>>
    BY <1>11 DEF Validate, files, requests
  <2> QED
    BY <2>1 DEF Charged
<1>12. ASSUME NEW m \in Sends, NEW f \in Fids, Move(m, f) PROVE x \in Charged(o)
  \/ Reserve(x)
  <2>1. UNCHANGED <<upload, jan>>
    BY <1>12 DEF Move, requests
  <2>2. \A i \in Items : place'[i] = place[i] \/ place'[i] = "gone" \/ place[i] =
    "staged"
    BY <1>12 DEF Move, Put, AttachedTo, Staged, Previews, Types
  <2> QED
    BY <2>1, <2>2, PlacesAssumption DEF Charged
<1>13. ASSUME NEW m \in Sends, SendAborts(m) \/ BounceFails(m) \/ PruneRejected(m)
  PROVE x \in Charged(o) \/ Reserve(x)
  <2>1. UNCHANGED <<upload, jan>>
    BY <1>13 DEF SendAborts, BounceFails, PruneRejected, requests
  <2>2. \A i \in Items : place'[i] = place[i] \/ place'[i] = "gone" \/ place[i] =
    "staged"
    BY <1>13 DEF SendAborts, BounceFails, PruneRejected, Put, AttachedTo, Staged,
      Previews, Types
  <2> QED
    BY <2>1, <2>2, PlacesAssumption DEF Charged
<1>14. ASSUME NEW m \in Sends, Spool(m) \/ Route(m) \/ Archive(m) PROVE x \in
  Charged(o) \/ Reserve(x)
  <2>1. UNCHANGED <<place, upload, jan>>
    BY <1>14 DEF Spool, Route, Archive, files, requests
  <2> QED
    BY <2>1 DEF Charged
<1>15. ASSUME NEW d \in Deleters, NEW m \in Sends, Size(d, m) PROVE x \in
  Charged(o) \/ Reserve(x)
  <2>1. UNCHANGED <<place, upload, jan>>
    BY <1>15 DEF Size, files, requests
  <2> QED
    BY <2>1 DEF Charged
<1>16. ASSUME NEW d \in Deleters, ClaimTombstone(d) \/ RemoveFails(d) \/
  DeleteFails(d) \/ DeleteCredit(d) PROVE x \in Charged(o) \/ Reserve(x)
  <2>1. UNCHANGED <<place, upload, jan>>
    BY <1>16 DEF ClaimTombstone, RemoveFails, DeleteFails, DeleteCredit, files,
      requests
  <2> QED
    BY <2>1 DEF Charged
<1>17. ASSUME NEW d \in Deleters, Remove(d) PROVE x \in Charged(o) \/ Reserve(x)
  <2>1. UNCHANGED <<upload, jan>>
    BY <1>17 DEF Remove
  <2>2. \A i \in Items : place'[i] = place[i] \/ place'[i] = "gone" \/ place[i] =
    "staged"
    BY <1>17 DEF Remove, Put, AttachedTo, Staged, Previews, Types
  <2> QED
    BY <2>1, <2>2, PlacesAssumption DEF Charged
<1>18. ASSUME SweepBegins \/ PruneCredit \/ CountStaged \/ CountIncoming \/
  CountGroups \/ CountRejected \/ WriteTotal \/ WriteTotalFails \/ SweepEnds PROVE
  x \in Charged(o) \/ Reserve(x)
  <2>1. UNCHANGED <<place, upload>> /\ jan'.pc # "credit"
    BY <1>18, AtRestType DEF SweepBegins, PruneCredit, CountStaged, CountIncoming,
      CountGroups, CountRejected, WriteTotal, WriteTotalFails, SweepEnds,
      JanitorTo, Count, files, requests, Types, Tally
  <2>2. /\ x \in Items
        /\ \/ place'[x] \in Sends \cup {"tmp", "staged"}
           \/ upload'[x] = "fail"
           \/ jan'.pc = "credit"
           \/ \E m \in Sends : x \in o[m]
    BY DEF Charged
  <2> QED
    BY <2>1, <2>2 DEF Charged
<1>19. ASSUME NEW i \in Items, PruneLook(i) PROVE x \in Charged(o) \/ Reserve(x)
  <2>1. UNCHANGED <<place, upload>> /\ jan'.pc # "credit"
    BY <1>19, AtRestType DEF PruneLook, JanitorTo, Count, files, requests, Types,
      Tally
  <2>2. /\ x \in Items
        /\ \/ place'[x] \in Sends \cup {"tmp", "staged"}
           \/ upload'[x] = "fail"
           \/ jan'.pc = "credit"
           \/ \E m \in Sends : x \in o[m]
    BY DEF Charged
  <2> QED
    BY <2>1, <2>2 DEF Charged
<1>20. ASSUME PruneUnlink PROVE x \in Charged(o) \/ Reserve(x)
  <2>1. jan' = [jan EXCEPT !.pc = "credit"] /\ jan \in Tally /\ jan.pc = "unlink" /\ UNCHANGED upload
    BY <1>20 DEF PruneUnlink, JanitorAt, JanitorTo, requests, Types
  <2>2. jan'.of = jan.of /\ place[jan.of] = "staged"
    BY <2>1 DEF Tally, Seen, Sound
  <2>3. \A i \in Items : place'[i] = place[i] \/ place'[i] = "expired"
    BY <1>20 DEF PruneUnlink, Put, Types
  <2>4. "expired" \notin Sends \cup {"tmp", "staged"}
    BY PlacesAssumption
  <2>5. x \in Items /\ (jan'.of = x => place[x] = "staged")
    BY <2>2 DEF Charged
  <2> QED
    BY <2>1, <2>3, <2>4, <2>5 DEF Charged
<1>21. ASSUME NEW f \in Fids, PruneMeta(f) PROVE x \in Charged(o) \/ Reserve(x)
  <2>1. UNCHANGED <<place, upload, jan>>
    BY <1>21 DEF PruneMeta, files, requests
  <2> QED
    BY <2>1 DEF Charged
<1>22. ASSUME Crash PROVE x \in Charged(o) \/ Reserve(x)
  <2>1. \A i \in Items : place'[i] = place[i] \/ place'[i] = "gone"
    BY <1>22 DEF Crash, Put, Types
  <2>2. jan'.pc = "idle" /\ \A i \in Items : upload'[i] # "fail"
    BY <1>22, AtRestType DEF Crash
  <2>3. "gone" \notin Sends \cup {"tmp", "staged"}
    BY PlacesAssumption
  <2>4. /\ x \in Items
        /\ \/ place'[x] \in Sends \cup {"tmp", "staged"}
           \/ upload'[x] = "fail"
           \/ jan'.pc = "credit"
           \/ \E m \in Sends : x \in o[m]
    BY DEF Charged
  <2> QED
    BY <2>1, <2>2, <2>3, <2>4 DEF Charged
<1>23. ASSUME UNCHANGED vars PROVE x \in Charged(o) \/ Reserve(x)
  <2>1. UNCHANGED <<place, upload, jan>>
    BY <1>23 DEF vars, files, requests
  <2> QED
    BY <2>1 DEF Charged
<1> QED
  BY <1>1, <1>2, <1>3, <1>4, <1>5, <1>6, <1>7, <1>8, <1>9, <1>10, <1>11, <1>12,
    <1>13, <1>14, <1>15, <1>16, <1>17, <1>18, <1>19, <1>20, <1>21, <1>22, <1>23,
    StepCases

(* What the counter covers, it still covers when less is charged to it, ... *)
LEMMA CoverShrinks ==
    ASSUME NEW S \in SUBSET Items, NEW T \in SUBSET S, NEW a \in Nat, NEW b \in Nat,
           Cardinality(S) <= a, a <= b
    PROVE  Cardinality(T) <= b
<1>1. Cardinality(T) <= Cardinality(S) /\ Cardinality(T) \in Nat /\ Cardinality(S) \in Nat
  BY Sizes, FS_Subset
<1> QED
  BY <1>1

(* ... and when what is credited is not charged any more. *)
LEMMA CoverDrops ==
    ASSUME NEW S \in SUBSET Items, NEW D \in SUBSET S, NEW T \in SUBSET (S \ D),
           NEW a \in Nat, NEW n \in Nat, Cardinality(S) <= a, n <= Cardinality(D)
    PROVE  n <= a /\ Cardinality(T) <= a - n
<1>1. IsFiniteSet(S) /\ IsFiniteSet(D) /\ IsFiniteSet(S \ D) /\ S \cap D = D
  BY Sizes, FS_Subset
<1>2. Cardinality(S \ D) = Cardinality(S) - Cardinality(D)
  BY <1>1, FS_Difference
<1>3. Cardinality(T) <= Cardinality(S \ D) /\ Cardinality(D) <= Cardinality(S)
  BY <1>1, FS_Subset
<1>4. PICK s \in Nat, e \in Nat, t \in Nat :
        s = Cardinality(S) /\ e = Cardinality(D) /\ t = Cardinality(T)
  BY <1>1, FS_Subset, FS_CardinalityType
<1>5. t <= s - e /\ e <= s /\ s <= a /\ n <= e
  BY <1>2, <1>3, <1>4
<1>6. n <= a /\ t <= a - n
  BY <1>5
<1> QED
  BY <1>4, <1>6

LEMMA ChargedType == \A o : Charged(o) \in SUBSET Items
  BY DEF Charged

(* Only these steps touch the counter or a delete request. *)
LEMMA ChargingCases ==
    ASSUME [Next]_vars
    PROVE  \/ UNCHANGED <<used, del>>
           \/ \E i \in Items : Reserve(i) \/ ReleaseReservation(i)
           \/ \E d \in Deleters, m \in Sends : Size(d, m)
           \/ \E d \in Deleters : ClaimTombstone(d) \/ Remove(d) \/ RemoveFails(d)
                                  \/ DeleteFails(d) \/ DeleteCredit(d)
           \/ PruneCredit \/ WriteTotal \/ Crash
<1>1. ASSUME NEW i \in Items, Refuse(i) \/ StreamFails(i) \/ PruneLook(i)
      PROVE  UNCHANGED <<used, del>>
  BY <1>1 DEF Refuse, StreamFails, PruneLook, requests
<1>2. ASSUME NEW f \in Fids,
             UploadCheck(f) \/ Stage(f) \/ WriteMeta(f) \/ MetaFails(f) \/ PruneMeta(f)
      PROVE  UNCHANGED <<used, del>>
  BY <1>2 DEF UploadCheck, Stage, WriteMeta, MetaFails, PruneMeta, requests
<1>3. ASSUME NEW t \in Thumbs,
             \/ LinkThumb(t) \/ ReadMeta(t) \/ Record(t) \/ Unlink(t)
             \/ \E f \in Fids : ThumbCheck(t, f)
      PROVE  UNCHANGED <<used, del>>
  BY <1>3 DEF LinkThumb, ReadMeta, Record, Unlink, ThumbCheck
<1>4. ASSUME NEW m \in Sends,
             \/ SendAborts(m) \/ Spool(m) \/ Route(m) \/ BounceFails(m)
             \/ PruneRejected(m) \/ Archive(m)
             \/ \E F \in SUBSET Fids : Validate(m, F)
             \/ \E f \in Fids : Move(m, f)
      PROVE  UNCHANGED <<used, del>>
  BY <1>4 DEF SendAborts, Spool, Route, BounceFails, PruneRejected, Archive, Validate,
     Move, requests
<1>5. ASSUME \/ SweepBegins \/ PruneUnlink \/ CountStaged \/ CountIncoming \/ CountGroups
             \/ CountRejected \/ WriteTotalFails \/ SweepEnds
      PROVE  UNCHANGED <<used, del>>
  BY <1>5 DEF SweepBegins, PruneUnlink, CountStaged, CountIncoming, CountGroups,
     CountRejected, WriteTotalFails, SweepEnds, requests
<1>6. ASSUME UNCHANGED vars PROVE UNCHANGED <<used, del>>
  BY <1>6 DEF vars, requests
<1> QED
  BY <1>1, <1>2, <1>3, <1>4, <1>5, <1>6, StepCases

(* Removed bytes stay removed, ... *)
LEMMA OwesKept ==
    ASSUME Types, Targets, Located, Paired, [Next]_vars, Sound', NEW o \in Removed, Owes(o)
    PROVE  Owes(o)'
<1>1. ASSUME NEW m \in Sends, NEW i \in o[m] PROVE place'[i] = "gone" /\ upload'[i] # "fail"
  <2>1. i \in Items /\ place[i] = "gone" /\ upload[i] # "fail"
    BY DEF Removed, Owes
  <2> QED
    BY <2>1, GoneStays
<1> QED
  BY <1>1 DEF Owes

(* ... and a delete request that does nothing keeps what backs its credit. *)
LEMMA BackedKept ==
    ASSUME Types, Targets, Located, Claims, [Next]_vars, NEW o \in Removed, NEW d \in Deleters,
           Backed(o, d), del'[d] = del[d],
           ~ \E e \in Deleters : Remove(e) /\ del[e].of = del[d].of
    PROVE  Backed(o, d)'
<1> SUFFICES ASSUME Credits(d) PROVE Backed(o, d)'
  BY DEF Backed, Credits
<1>1. PICK k \in Sends : k = del[d].of
  BY DEF Credits, Targets
<1>2. msg[k] \in {"group", "archive"}
  BY <1>1 DEF Credits, Claims, Claimed
<1>3. AttachedTo({k})' = AttachedTo({k})
  BY <1>1, <1>2, AttachedStay
<1>4. del'[d].of = k /\ del'[d].over = del[d].over /\ del'[d].freed = del[d].freed
  BY <1>1
<1>5. AttachedTo({del[d].of})' = AttachedTo({k})
  BY <1>3, <1>4 DEF AttachedTo
<1> QED
  BY <1>1, <1>4, <1>5 DEF Backed

LEMMA ChargesKept ==
    ASSUME Types, Targets, Located, Paired, Seen, [Next]_vars, Sound, Sound', NEW o \in Removed,
           ~ \E i \in Items : Reserve(i)
    PROVE  Charged(o)' \subseteq Charged(o)
<1>1. Charged(o)' \subseteq Items
  BY DEF Charged
<1> QED
  BY <1>1, ChargedShrinks

(* What a step does to one delete request. *)
LEMMA DeleteCases ==
    ASSUME Types, [Next]_vars, NEW d \in Deleters
    PROVE  \/ del'[d] = del[d]
           \/ del'[d].pc \in {"idle", "claim", "done"}
           \/ ClaimTombstone(d) \/ Remove(d) \/ RemoveFails(d)
<1>1. ASSUME NEW i \in Items, Reserve(i) \/ ReleaseReservation(i) PROVE del'[d] = del[d]
  BY <1>1 DEF Reserve, ReleaseReservation
<1>2. ASSUME NEW e \in Deleters, NEW m \in Sends, Size(e, m)
      PROVE  del'[d] = del[d] \/ del'[d].pc = "claim"
  BY <1>2 DEF Size, Types
<1>3. ASSUME NEW e \in Deleters, e # d, ClaimTombstone(e) \/ Remove(e) \/ RemoveFails(e)
      PROVE  del'[d] = del[d]
  BY <1>3 DEF ClaimTombstone, Remove, RemoveFails, Types
<1>4. ASSUME NEW e \in Deleters, DeleteFails(e) \/ DeleteCredit(e)
      PROVE  del'[d] = del[d] \/ del'[d].pc = "done"
  BY <1>4 DEF DeleteFails, DeleteCredit, Done, NoDelete, Types
<1>5. ASSUME PruneCredit \/ WriteTotal PROVE del'[d] = del[d]
  BY <1>5 DEF PruneCredit, WriteTotal, requests
<1>6. ASSUME Crash PROVE del'[d].pc \in {"idle", "done"}
  BY <1>6 DEF Crash, NoDelete
<1> QED
  BY <1>1, <1>2, <1>3, <1>4, <1>5, <1>6, ChargingCases

LEMMA RemoveIs ==
    ASSUME Types, Targets, NEW d \in Deleters, Remove(d)
    PROVE  /\ del[d].of \in Sends /\ del[d].pc = "remove"
           /\ del'[d].of = del[d].of /\ del'[d].pc = "credit" /\ del'[d].first = del[d].first
           /\ del'[d].over = del[d].over /\ del'[d].freed = del[d].freed
           /\ \A e \in Deleters \ {d} : del'[e] = del[e]
           /\ \A i \in Items : place'[i] = IF place[i] = del[d].of THEN "gone" ELSE place[i]
           /\ UNCHANGED <<used, upload, jan>>
<1>1. del[d].of \in Sends /\ del[d].pc = "remove"
  BY DEF Remove, At, Targets
<1> QED
  BY <1>1 DEF Remove, Put, AttachedTo, Types, Deletion

(* A delete request with a message that is not there any more is left with none. *)
LEMMA EmptyStays ==
    ASSUME Types, Targets, Located, [Next]_vars, NEW k \in Sends,
           msg[k] \in {"group", "archive"}, AttachedTo({k}) = {}
    PROVE  AttachedTo({k})' = {}
<1>1. ASSUME NEW d \in Deleters, Remove(d), del[d].of = k PROVE AttachedTo({k})' = {}
  BY <1>1, RemoveIs, PlacesAssumption DEF AttachedTo
<1> QED
  BY <1>1, AttachedStay

LEMMA FreedKept ==
    ASSUME Types, Targets, Located, Paired, Claims, [Next]_vars, Sound', Freed
    PROVE  Freed'
<1>1. ASSUME NEW i \in Items, upload'[i] = "fail" PROVE place'[i] = "gone"
  BY <1>1, GoneStays DEF Freed
<1>2. ASSUME NEW d \in Deleters, Credits(d)', del'[d].pc = "credit"
      PROVE  AttachedTo({del[d].of})' = {}
  <2>1. CASE del'[d] = del[d]
    <3>1. PICK k \in Sends : k = del[d].of
      BY <1>2, <2>1 DEF Targets
    <3>2. msg[k] \in {"group", "archive"} /\ AttachedTo({k}) = {}
      BY <1>2, <2>1, <3>1 DEF Claims, Claimed, Freed, Credits
    <3>3. AttachedTo({k})' = {}
      BY <3>2, EmptyStays
    <3> QED
      BY <2>1, <3>1, <3>3 DEF AttachedTo
  <2>2. CASE ClaimTombstone(d)
    BY <1>2, <2>2 DEF ClaimTombstone, Types, Deletion
  <2>3. CASE Remove(d)
    BY <2>3, RemoveIs, PlacesAssumption DEF AttachedTo
  <2>4. CASE RemoveFails(d)
    BY <2>4 DEF RemoveFails, Sound
  <2> QED
    BY <1>2, <2>1, <2>2, <2>3, <2>4, DeleteCases
<1> QED
  BY <1>1, <1>2 DEF Freed

(* Delete requests that do nothing are backed when no message is removed. *)
LEMMA OthersBacked ==
    ASSUME Types, Targets, Located, Claims, [Next]_vars, NEW o \in Removed,
           \A e \in Deleters : Backed(o, e), \A e \in Deleters : ~Remove(e)
    PROVE  \A e \in Deleters : del'[e] = del[e] => Backed(o, e)'
  BY BackedKept

LEMMA RemoveMoves ==
    ASSUME Types, Targets, NEW d \in Deleters, Remove(d)
    PROVE  del[d].pc = "remove" /\ del'[d].pc = "credit"
  BY RemoveIs

(* A step that credits nothing is covered as before. *)
LEMMA CoversKept ==
    ASSUME Types, Targets, Located, Paired, Seen, [Next]_vars, Sound, Sound',
           NEW o \in Removed, Covers(o),
           ~ \E i \in Items : Reserve(i), used' = used, \A d \in Deleters : Backed(o, d)'
    PROVE  Covers(o)'
<1>1. Owes(o)'
  BY OwesKept DEF Covers
<1>2. Charged(o)' \in SUBSET Charged(o) /\ Charged(o) \in SUBSET Items
  BY ChargesKept, ChargedType
<1>3. Cardinality(Charged(o)') <= used
  BY <1>2, CoverShrinks DEF Covers, Types
<1> QED
  BY <1>1, <1>3 DEF Covers

LEMMA ReserveCovers ==
    ASSUME Types, Targets, Located, Paired, Seen, Claims, [Next]_vars, Sound, Sound',
           NEW o \in Removed, Covers(o), NEW i \in Items, Reserve(i)
    PROVE  Covers(o)'
<1>1. used' = used + 1 /\ del' = del /\ upload[i] = "reserve"
  BY DEF Reserve
<1>2. \A e \in Deleters : ~Remove(e)
  BY <1>1, RemoveMoves
<1>3. Owes(o)' /\ \A d \in Deleters : Backed(o, d)'
  BY <1>1, <1>2, OwesKept, OthersBacked DEF Covers
<1>4. \A x \in Charged(o)' : x \in Charged(o) \/ Reserve(x)
  BY ChargedShrinks
<1>5. \A x \in Items : Reserve(x) => x = i
  <2> SUFFICES ASSUME NEW x \in Items, Reserve(x), x # i PROVE FALSE
    OBVIOUS
  <2>1. upload'[x] = "stream" /\ upload'[x] = upload[x] /\ upload[x] = "reserve"
    BY DEF Reserve, Goto, Types
  <2> QED
    BY <2>1
<1>6. Charged(o)' \subseteq Charged(o) \cup {i}
  BY <1>4, <1>5, ChargedType DEF Charged
<1>7. /\ IsFiniteSet(Charged(o)) /\ Cardinality(Charged(o)) \in Nat
      /\ Charged(o) \cup {i} \in SUBSET Items
  BY ChargedType, Sizes
<1>8. Cardinality(Charged(o) \cup {i}) <= Cardinality(Charged(o)) + 1
  BY <1>7, FS_AddElement
<1>9. PICK c \in Nat : c = Cardinality(Charged(o) \cup {i})
  BY <1>7, Sizes
<1>10. PICK b \in Nat : b = Cardinality(Charged(o))
  BY <1>7
<1>11. PICK u \in Nat : u = used
  BY DEF Types
<1>12. b <= u /\ c <= b + 1
  BY <1>8, <1>9, <1>10, <1>11 DEF Covers
<1>13. c <= u + 1
  BY <1>12
<1>14. Cardinality(Charged(o)') <= u + 1
  BY <1>6, <1>7, <1>9, <1>13, CoverShrinks
<1> QED
  BY <1>1, <1>3, <1>11, <1>14 DEF Covers

(* A step that credits n bytes stops charging as many. *)
LEMMA CreditCovers ==
    ASSUME Types, Targets, Located, Paired, Seen, [Next]_vars, Sound, Sound',
           NEW o \in Removed, Covers(o), NEW p \in Removed, Owes(p)',
           \A d \in Deleters : Backed(p, d)',
           NEW n \in Nat, used' = Credited(n), NEW D \in SUBSET Charged(o),
           n <= Cardinality(D), Charged(p)' \subseteq Charged(o) \ D
    PROVE  Covers(p)'
<1>1. Charged(o) \in SUBSET Items /\ used \in Nat /\ Cardinality(Charged(o)) <= used
  BY ChargedType DEF Types, Covers
<1>2. n <= used /\ Cardinality(Charged(p)') <= used - n
  BY <1>1, CoverDrops
<1>3. used' = used - n
  BY <1>1, <1>2 DEF Credited
<1> QED
  BY <1>2, <1>3 DEF Covers

LEMMA ReleaseCovers ==
    ASSUME Types, Targets, Located, Paired, Seen, Claims, Freed, [Next]_vars, Sound, Sound',
           NEW o \in Removed, Covers(o), NEW i \in Items, ReleaseReservation(i)
    PROVE  Covers(o)'
<1>1. upload[i] = "fail" /\ upload'[i] = "done" /\ del' = del /\ UNCHANGED <<place, jan>>
  BY DEF ReleaseReservation, Goto, files, Types
<1>2. \A e \in Deleters : ~Remove(e)
  BY <1>1, RemoveMoves
<1>3. Owes(o)' /\ \A d \in Deleters : Backed(o, d)'
  BY <1>1, <1>2, OwesKept, OthersBacked DEF Covers
<1>4. ~ \E x \in Items : Reserve(x)
  <2> SUFFICES ASSUME NEW x \in Items, Reserve(x) PROVE FALSE
    OBVIOUS
  <2>1. upload[x] = "reserve" /\ upload'[x] = "stream"
    BY DEF Reserve, Goto, Types
  <2>2. upload'[x] = upload[x] \/ x = i
    BY DEF ReleaseReservation, Goto, Types
  <2> QED
    BY <1>1, <2>1, <2>2
<1>5. CASE used' = used
  BY <1>3, <1>4, <1>5, CoversKept
<1>6. CASE used' = Credited(1)
  <2>1. {i} \in SUBSET Charged(o) /\ 1 <= Cardinality({i})
    BY <1>1, FS_Singleton DEF Charged
  <2>2. Charged(o)' \subseteq Charged(o)
    BY <1>4, ChargesKept
  <2>3. place[i] = "gone" /\ "gone" \notin Sends \cup {"tmp", "staged"}
    BY <1>1, PlacesAssumption DEF Freed
  <2>4. ~(jan.pc = "credit" /\ jan.of = i)
    BY <1>1 DEF Located
  <2>5. \A m \in Sends : i \notin o[m]
    BY <1>1 DEF Covers, Owes
  <2>6. i \notin Charged(o)'
    BY <1>1, <2>3, <2>4, <2>5 DEF Charged
  <2>7. Charged(o)' \subseteq Charged(o) \ {i}
    BY <2>2, <2>6
  <2> QED
    BY <1>3, <1>6, <2>1, <2>7, CreditCovers
<1> QED
  BY <1>5, <1>6 DEF ReleaseReservation

LEMMA PruneCovers ==
    ASSUME Types, Targets, Located, Paired, Seen, Claims, [Next]_vars, Sound, Sound',
           NEW o \in Removed, Covers(o), PruneCredit
    PROVE  Covers(o)'
<1>1. /\ jan.pc = "credit" /\ jan'.pc = "prune" /\ del' = del /\ jan.total \in Nat
      /\ UNCHANGED <<place, upload>>
  BY AtRestType DEF PruneCredit, JanitorAt, files, requests, Types, Tally
<1>2. \A e \in Deleters : ~Remove(e)
  BY <1>1, RemoveMoves
<1>3. Owes(o)' /\ \A d \in Deleters : Backed(o, d)'
  BY <1>1, <1>2, OwesKept, OthersBacked DEF Covers
<1>4. ~ \E x \in Items : Reserve(x)
  <2> SUFFICES ASSUME NEW x \in Items, Reserve(x) PROVE FALSE
    OBVIOUS
  <2>1. upload[x] = "reserve" /\ upload'[x] = "stream"
    BY DEF Reserve, Goto, Types
  <2> QED
    BY <1>1, <2>1
<1>5. Charged(o)' \subseteq Charged(o)
  BY <1>4, ChargesKept
<1>6. CASE used' = used
  BY <1>3, <1>4, <1>6, CoversKept
<1>7. CASE used' = Credited(jan.total)
  <2>1. CASE jan.total = 0
    <3>1. {} \in SUBSET Charged(o) /\ jan.total <= Cardinality({})
      BY <2>1, FS_EmptySet
    <3> QED
      BY <1>1, <1>3, <1>5, <1>7, <3>1, CreditCovers
  <2>2. CASE jan.total = 1
    <3>1. jan.of \in Items /\ place[jan.of] = "expired" /\ upload[jan.of] = "done"
      BY <1>1 DEF Targets, Seen, Sound, Located
    <3>2. {jan.of} \in SUBSET Charged(o) /\ jan.total <= Cardinality({jan.of})
      <4>1. jan.of \in Charged(o)
        BY <1>1, <2>2, <3>1 DEF Charged
      <4>2. Cardinality({jan.of}) = 1
        BY FS_Singleton
      <4> QED
        BY <2>2, <4>1, <4>2
    <3>3. \A m \in Sends : jan.of \notin o[m]
      BY <3>1 DEF Covers, Owes
    <3>4. jan.of \notin Charged(o)'
      BY <1>1, <3>1, <3>3, PlacesAssumption DEF Charged
    <3>5. Charged(o)' \subseteq Charged(o) \ {jan.of}
      BY <1>5, <3>4
    <3> QED
      BY <1>1, <1>3, <1>7, <3>2, <3>5, CreditCovers
  <2> QED
    BY <1>1, <2>1, <2>2 DEF Located
<1> QED
  BY <1>6, <1>7 DEF PruneCredit

(* Delete requests are backed by what is attached to the message they remove, ... *)
LEMMA ClaimCovers ==
    ASSUME Types, Targets, Located, Paired, Seen, Claims, [Next]_vars, Sound, Sound',
           NEW o \in Removed, Covers(o), NEW d \in Deleters, ClaimTombstone(d)
    PROVE  Covers(o)'
<1>1. PICK k \in Sends : k = del[d].of
  BY DEF ClaimTombstone, At, Targets
<1>2. /\ del[d].pc = "claim" /\ msg[k] = "group" /\ UNCHANGED <<used, upload, place>>
      /\ del'[d].pc = "remove" /\ del'[d].of = k /\ del'[d].freed = del[d].freed
      /\ del'[d].over = del[d].over /\ del'[d].first = (k \notin tomb)
      /\ \A e \in Deleters \ {d} : del'[e] = del[e]
  BY <1>1 DEF ClaimTombstone, At, files, Types, Deletion
<1>3. \A e \in Deleters : ~Remove(e)
  <2> SUFFICES ASSUME NEW e \in Deleters, Remove(e) PROVE FALSE
    OBVIOUS
  <2>1. del[e].pc = "remove" /\ del'[e].pc = "credit"
    BY RemoveMoves
  <2> QED
    BY <1>2, <2>1
<1>4. ~ \E i \in Items : Reserve(i)
  <2> SUFFICES ASSUME NEW i \in Items, Reserve(i) PROVE FALSE
    OBVIOUS
  <2>1. used' = used + 1 /\ used \in Nat
    BY DEF Reserve, Types
  <2> QED
    BY <1>2, <2>1
<1>5. Backed(o, d)'
  <2> SUFFICES ASSUME k \notin tomb, ~del[d].over
               PROVE  del[d].freed <= Cardinality(o[k] \cup AttachedTo({k}))
    <3>1. AttachedTo({k})' = AttachedTo({k})
      BY <1>2 DEF AttachedTo
    <3> QED
      BY <1>2, <3>1 DEF Backed, Credits
  <2>1. del[d].freed <= Cardinality(AttachedTo({k}))
    BY <1>1, <1>2 DEF Claims, Claimed
  <2>2. o[k] \cup AttachedTo({k}) \in SUBSET Items
    BY ItemSets DEF Removed
  <2>3. AttachedTo({k}) \in SUBSET (o[k] \cup AttachedTo({k}))
    OBVIOUS
  <2>4. PICK a \in Nat, b \in Nat :
          a = Cardinality(AttachedTo({k})) /\ b = Cardinality(o[k] \cup AttachedTo({k}))
    BY <2>2, Sizes, ItemSets
  <2>5. a <= b
    BY <2>2, <2>3, <2>4, Sizes, FS_Subset
  <2>6. del[d].freed \in Nat
    BY DEF Types, Deletion
  <2> QED
    BY <2>1, <2>4, <2>5, <2>6
<1>6. \A e \in Deleters : Backed(o, e)'
  BY <1>2, <1>3, <1>5, OthersBacked DEF Covers
<1> QED
  BY <1>2, <1>4, <1>6, CoversKept

(* ... and by the bytes themselves when it has been removed. *)
LEMMA RemoveCovers ==
    ASSUME Types, Targets, Located, Paired, Seen, Claims, Freed, [Next]_vars, Sound, Sound',
           NEW o \in Removed, Covers(o), NEW d \in Deleters, Remove(d)
    PROVE  \E p \in Removed : Covers(p)'
<1>1. PICK k \in Sends : k = del[d].of
  BY RemoveIs
<1>2. PICK A \in SUBSET Items : A = AttachedTo({k})
  BY ItemSets
<1>3. \A i \in A : i \in Items /\ place[i] = k /\ place'[i] = "gone" /\ upload'[i] = upload[i]
  BY <1>1, <1>2, RemoveIs DEF AttachedTo
<1>4. PICK p \in Removed : p[k] = o[k] \cup A /\ \A m \in Sends \ {k} : p[m] = o[m]
  <2>1. [o EXCEPT ![k] = @ \cup A] \in Removed
    BY DEF Removed
  <2> QED
    BY <2>1 DEF Removed
<1>5. k # "gone" /\ k \in Sends
  BY PlacesAssumption
<1>6. \A i \in A : upload'[i] # "fail" /\ \A m \in Sends : i \notin o[m]
  BY <1>3, <1>5, RemoveIs DEF Freed, Covers, Owes
<1>7. Owes(o)'
  BY OwesKept DEF Covers
<1>8. Owes(p)'
  <2>1. \A m \in Sends : \A i \in p[m] : place'[i] = "gone" /\ upload'[i] # "fail"
    BY <1>3, <1>4, <1>6, <1>7 DEF Owes
  <2>2. \A m, n \in Sends : m # n => p[m] \cap p[n] = {}
    BY <1>4, <1>6, <1>7 DEF Owes
  <2> QED
    BY <2>1, <2>2 DEF Owes
<1>9. \A x \in Charged(p)' : x \in Charged(o)
  <2> SUFFICES ASSUME NEW x \in Charged(p)' PROVE x \in Charged(o)
    OBVIOUS
  <2>1. x \in A \/ x \in Charged(o)'
    BY <1>4 DEF Charged
  <2>2. ASSUME x \in A PROVE x \in Charged(o)
    BY <1>3, <1>5, <2>2 DEF Charged
  <2>3. ASSUME x \in Charged(o)' PROVE x \in Charged(o)
    <3>1. ~Reserve(x)
      <4> SUFFICES ASSUME Reserve(x) PROVE FALSE
        OBVIOUS
      <4>1. used' = used + 1 /\ used' = used /\ used \in Nat
        BY RemoveIs DEF Reserve, Types
      <4> QED
        BY <4>1
    <3> QED
      BY <2>3, <3>1, ChargedShrinks
  <2> QED
    BY <2>1, <2>2, <2>3
<1>10. Cardinality(Charged(p)') <= used'
  <2>1. Charged(p)' \in SUBSET Charged(o) /\ Charged(o) \in SUBSET Items
    BY <1>9, ChargedType
  <2> QED
    BY <2>1, CoverShrinks, RemoveIs DEF Covers, Types
<1>11. ASSUME NEW e \in Deleters PROVE Backed(p, e)'
  <2> SUFFICES ASSUME Credits(e)', ~del'[e].over
               PROVE  del'[e].freed
                        <= Cardinality(p[del'[e].of] \cup AttachedTo({del[e].of})')
    BY DEF Backed
  <2>1. del'[e].of = del[e].of /\ del'[e].freed = del[e].freed /\ del'[e].over = del[e].over
    BY RemoveIs
  <2>2. Credits(e)
    BY RemoveIs DEF Credits
  <2>3. del[e].freed <= Cardinality(o[del[e].of] \cup AttachedTo({del[e].of}))
    BY <2>1, <2>2 DEF Covers, Backed
  <2>4. CASE del[e].of = k
    <3>1. AttachedTo({k})' = {}
      BY <1>1, <1>5, RemoveIs DEF AttachedTo
    <3>4. p[k] \cup {} = o[k] \cup A
      BY <1>4
    <3>2. AttachedTo({del[e].of})' = AttachedTo({k})'
      BY <2>4, <1>1, <2>1 DEF AttachedTo
    <3> QED
      BY <1>2, <2>1, <2>3, <2>4, <3>1, <3>2, <3>4
  <2>5. CASE del[e].of # k
    <3>1. PICK j \in Sends : j = del[e].of
      BY <2>2 DEF Credits, Targets
    <3>2. AttachedTo({j})' = AttachedTo({j})
      BY <1>1, <2>5, <3>1, <1>5, RemoveIs, PlacesAssumption DEF AttachedTo
    <3>3. AttachedTo({del[e].of})' = AttachedTo({j})'
      BY <2>1, <3>1 DEF AttachedTo
    <3>4. p[j] = o[j]
      BY <1>4, <2>5, <3>1
    <3> QED
      BY <2>1, <2>3, <3>1, <3>2, <3>3, <3>4
  <2> QED
    BY <2>4, <2>5
<1> QED
  BY <1>4, <1>8, <1>10, <1>11 DEF Covers


(* A delete request that is not going to credit anything needs no backing. *)
LEMMA RestCovers ==
    ASSUME Types, Targets, Located, Paired, Seen, Claims, [Next]_vars, Sound, Sound',
           NEW o \in Removed, Covers(o), used' = used, NEW d \in Deleters,
           ~Credits(d)', del'[d].pc # "credit", \A e \in Deleters \ {d} : del'[e] = del[e]
    PROVE  Covers(o)'
<1>1. \A e \in Deleters : ~Remove(e)
  <2> SUFFICES ASSUME NEW e \in Deleters, Remove(e) PROVE FALSE
    OBVIOUS
  <2>1. del[e].pc = "remove" /\ del'[e].pc = "credit"
    BY RemoveMoves
  <2> QED
    BY <2>1
<1>2. ~ \E i \in Items : Reserve(i)
  <2> SUFFICES ASSUME NEW i \in Items, Reserve(i) PROVE FALSE
    OBVIOUS
  <2>1. used' = used + 1 /\ used \in Nat
    BY DEF Reserve, Types
  <2> QED
    BY <2>1
<1>3. Backed(o, d)'
  BY DEF Backed
<1>4. \A e \in Deleters : Backed(o, e)'
  BY <1>1, <1>3, OthersBacked DEF Covers
<1> QED
  BY <1>2, <1>4, CoversKept

LEMMA DeleteCovers ==
    ASSUME Types, Targets, Located, Paired, Seen, Claims, Freed, [Next]_vars, Sound, Sound',
           NEW o \in Removed, Covers(o), NEW d \in Deleters, DeleteCredit(d)
    PROVE  \E p \in Removed : Covers(p)'
<1>1. /\ del[d].pc = "credit" /\ del'[d].pc = "done" /\ ~del'[d].first
      /\ \A e \in Deleters \ {d} : del'[e] = del[e]
      /\ UNCHANGED <<place, upload, jan>>
  BY AtRestType DEF DeleteCredit, At, Done, files, Types, Deletion
<1>2. ~Credits(d)'
  BY <1>1 DEF Credits
<1>3. CASE ~del[d].first
  <2>1. used' = used
    BY <1>3 DEF DeleteCredit
  <2> QED
    BY <1>1, <1>2, <2>1, RestCovers
<1>4. CASE del[d].first
  <2>1. Credits(d) /\ ~del[d].over
    BY <1>1, <1>4 DEF Credits, DeleteCredit, Sound
  <2>2. PICK k \in Sends : k = del[d].of
    BY <1>1 DEF Targets
  <2>3. PICK n \in Nat : n = del[d].freed
    BY DEF Types, Deletion
  <2>4. used' = Credited(n)
    BY <1>4, <2>3 DEF DeleteCredit
  <2>5. AttachedTo({del[d].of}) = {}
    BY <1>1, <2>1 DEF Freed
  <2>6. n <= Cardinality(o[k])
    <3>1. n <= Cardinality(o[k] \cup AttachedTo({del[d].of}))
      BY <2>1, <2>2, <2>3 DEF Covers, Backed
    <3> QED
      BY <2>5, <3>1
  <2>7. PICK p \in Removed : p[k] = {} /\ \A m \in Sends \ {k} : p[m] = o[m]
    <3>1. [o EXCEPT ![k] = {}] \in Removed
      BY DEF Removed
    <3> QED
      BY <3>1 DEF Removed
  <2>8. Owes(o)'
    BY OwesKept DEF Covers
  <2>9. Owes(p)'
    BY <2>7, <2>8 DEF Owes
  <2>10. ~ \E i \in Items : Reserve(i)
    <3> SUFFICES ASSUME NEW i \in Items, Reserve(i) PROVE FALSE
      OBVIOUS
    <3>1. upload[i] = "reserve" /\ upload'[i] = "stream"
      BY DEF Reserve, Goto, Types
    <3> QED
      BY <1>1, <3>1
  <2>11. Charged(p)' \subseteq Charged(o)
    <3>1. Charged(o)' \subseteq Charged(o)
      BY <2>10, ChargesKept
    <3>2. \A m \in Sends : p[m] \subseteq o[m]
      BY <2>7
    <3>3. Charged(p)' \subseteq Charged(o)'
      BY <3>2 DEF Charged
    <3> QED
      BY <3>1, <3>3
  <2>12. ASSUME NEW i \in o[k] PROVE i \notin Charged(p)'
    <3>1. i \in Items /\ place[i] = "gone" /\ upload[i] # "fail"
      BY DEF Removed, Covers, Owes
    <3>2. ~(jan.pc = "credit" /\ jan.of = i)
      BY <3>1 DEF Seen, Sound
    <3>3. \A m \in Sends : i \notin p[m]
      BY <2>7 DEF Covers, Owes
    <3> QED
      BY <1>1, <3>1, <3>2, <3>3, PlacesAssumption DEF Charged
  <2>13. Charged(p)' \subseteq Charged(o) \ o[k]
    BY <2>11, <2>12
  <2>14. o[k] \in SUBSET Charged(o)
    BY DEF Charged, Removed
  <2>15. ASSUME NEW e \in Deleters PROVE Backed(p, e)'
    <3> SUFFICES ASSUME Credits(e)' PROVE Backed(p, e)'
      BY DEF Backed
    <3>1. e # d /\ del'[e] = del[e] /\ Credits(e)
      BY <1>1, <1>2 DEF Credits
    <3>2. PICK j \in Sends : j = del[e].of
      BY <3>1 DEF Credits, Targets
    <3>3. j # k
      BY <2>1, <2>2, <3>1, <3>2 DEF Claims
    <3>4. p[j] = o[j]
      BY <2>7, <3>3
    <3>5. AttachedTo({del[e].of})' = AttachedTo({del[e].of})
      BY <1>1, <3>1 DEF AttachedTo
    <3>6. Backed(o, e)
      BY DEF Covers
    <3> QED
      BY <3>1, <3>2, <3>4, <3>5, <3>6 DEF Backed
  <2> QED
    BY <2>4, <2>6, <2>9, <2>13, <2>14, <2>15, CreditCovers
<1> QED
  BY <1>1, <1>3, <1>4 DEF Types, Deletion

(* Who is at work dies with the process, and nobody else credits anything. *)
LEMMA CrashCovers ==
    ASSUME Types, Targets, Located, Paired, Seen, [Next]_vars, Sound, Sound',
           NEW o \in Removed, Covers(o), Crash
    PROVE  \E p \in Removed : Covers(p)'
<1>1. \A d \in Deleters : ~Credits(d)'
  BY AtRestType DEF Crash, Credits, NoDelete
<1>2. PICK p \in Removed : p = [m \in Sends |-> {}]
  BY DEF Removed
<1>3. ~ \E i \in Items : Reserve(i)
  <2> SUFFICES ASSUME NEW i \in Items, Reserve(i) PROVE FALSE
    OBVIOUS
  <2>1. upload'[i] = "stream"
    BY DEF Reserve, Goto, Types
  <2> QED
    BY <2>1 DEF Crash
<1>4. Charged(o)' \subseteq Charged(o) /\ Charged(p)' \subseteq Charged(o)'
  BY <1>2, <1>3, ChargesKept DEF Charged
<1>5. Charged(p)' \in SUBSET Charged(o) /\ Charged(o) \in SUBSET Items
  BY <1>4, ChargedType
<1>6. used' = used
  BY DEF Crash
<1>7. Cardinality(Charged(p)') <= used'
  BY <1>5, <1>6, CoverShrinks DEF Covers, Types
<1>8. Owes(p)' /\ \A d \in Deleters : Backed(p, d)'
  BY <1>1, <1>2 DEF Owes, Backed
<1> QED
  BY <1>7, <1>8 DEF Covers

(* A recount that nothing overlaps starts from what is on disk. *)
LEMMA WriteCovers ==
    ASSUME Types, Located, Quiet, Seen, Tallied, WriteTotal, Sound'
    PROVE  Freed' /\ \E p \in Removed : Covers(p)'
<1>1. /\ jan.pc = "write" /\ ~overlap /\ used' = jan.total
      /\ jan'.pc = "archive" /\ UNCHANGED <<place, upload, del>>
  BY AtRestType DEF WriteTotal, JanitorAt, Sound, files, requests
<1>2. /\ \A i \in Items : upload[i] \in {"idle", "reserve", "done"}
      /\ \A d \in Deleters : del[d].pc \in {"idle", "claim", "done"}
  BY <1>1 DEF Quiet, Sweeping
<1>3. jan.total = Cardinality(OnDisk)
  BY <1>1, TotalIsExact
<1>4. PICK p \in Removed : p = [m \in Sends |-> {}]
  BY DEF Removed
<1>5. Charged(p)' = OnDisk
  BY <1>1, <1>2, <1>4 DEF Charged, OnDisk, Staged, AttachedTo
<1>6. Cardinality(OnDisk) \in Nat
  BY ItemSets, Sizes
<1>7. Cardinality(Charged(p)') <= used'
  BY <1>1, <1>3, <1>5, <1>6
<1>8. \A d \in Deleters : ~Credits(d)'
  BY <1>1, <1>2 DEF Credits
<1>9. Owes(p)' /\ \A d \in Deleters : Backed(p, d)'
  BY <1>4, <1>8 DEF Owes, Backed
<1>10. Freed'
  BY <1>1, <1>2, <1>8 DEF Freed
<1> QED
  BY <1>7, <1>9, <1>10 DEF Covers


LEMMA SettledStays ==
    ASSUME Types, Targets, Located, Paired, Quiet, Seen, Tallied, Claims, Settled,
           [Next]_vars
    PROVE  Settled'
<1> SUFFICES ASSUME Sound' PROVE Freed' /\ \E p \in Removed : Covers(p)'
  BY DEF Settled
<1>1. CASE WriteTotal
  BY <1>1, WriteCovers
<1>2. CASE ~WriteTotal
  <2>1. Sound /\ Freed
    BY <1>2, SoundBefore DEF Settled
  <2>2. PICK o \in Removed : Covers(o)
    BY <2>1 DEF Settled
  <2>3. Freed'
    BY <2>1, FreedKept
  <2>4. ASSUME UNCHANGED <<used, del>> PROVE Covers(o)'
    <3>1. \A e \in Deleters : ~Remove(e)
      BY <2>4, RemoveMoves
    <3>2. ~ \E i \in Items : Reserve(i)
      <4> SUFFICES ASSUME NEW i \in Items, Reserve(i) PROVE FALSE
        OBVIOUS
      <4>1. used' = used + 1 /\ used \in Nat
        BY DEF Reserve, Types
      <4> QED
        BY <2>4, <4>1
    <3>3. \A e \in Deleters : Backed(o, e)'
      BY <2>2, <2>4, <3>1, OthersBacked DEF Covers
    <3> QED
      BY <2>1, <2>2, <2>4, <3>2, <3>3, CoversKept
  <2>5. ASSUME NEW i \in Items, Reserve(i) \/ ReleaseReservation(i) PROVE Covers(o)'
    BY <2>1, <2>2, <2>5, ReserveCovers, ReleaseCovers
  <2>6. ASSUME NEW d \in Deleters, NEW m \in Sends, Size(d, m) PROVE Covers(o)'
    <3>1. /\ used' = used /\ del'[d].pc = "claim"
          /\ \A e \in Deleters \ {d} : del'[e] = del[e]
      BY <2>6 DEF Size, Types
    <3>2. ~Credits(d)'
      BY <3>1 DEF Credits
    <3> QED
      BY <2>1, <2>2, <3>1, <3>2, RestCovers
  <2>7. ASSUME NEW d \in Deleters, DeleteFails(d) PROVE Covers(o)'
    <3>1. /\ used' = used /\ del'[d].pc = "done"
          /\ \A e \in Deleters \ {d} : del'[e] = del[e]
      BY <2>7 DEF DeleteFails, Done, NoDelete, Types
    <3>2. ~Credits(d)'
      BY <3>1 DEF Credits
    <3> QED
      BY <2>1, <2>2, <3>1, <3>2, RestCovers
  <2>8. ASSUME NEW d \in Deleters, RemoveFails(d) PROVE FALSE
    BY <2>8 DEF RemoveFails, Sound
  <2>9. ASSUME NEW d \in Deleters, ClaimTombstone(d) \/ Remove(d) \/ DeleteCredit(d)
        PROVE  \E p \in Removed : Covers(p)'
    BY <2>1, <2>2, <2>9, ClaimCovers, RemoveCovers, DeleteCovers
  <2>10. ASSUME PruneCredit \/ Crash PROVE \E p \in Removed : Covers(p)'
    BY <2>1, <2>2, <2>10, PruneCovers, CrashCovers
  <2> QED
    BY <1>2, <2>2, <2>3, <2>4, <2>5, <2>6, <2>7, <2>8, <2>9, <2>10, ChargingCases
<1> QED
  BY <1>1, <1>2

LEMMA Start == Init => IInv
<1> SUFFICES ASSUME Init PROVE IInv
  OBVIOUS
<1>1. PICK case \in Cases :
        /\ upload = [i \in Items |-> Starts(i, case)]
        /\ del = [d \in Deleters |-> [NoDelete EXCEPT !.pc = Starts(d, case)]]
  BY DEF Init
<1>2. \A r : Starts(r, case) \in {"idle", "done"}
  BY DEF Starts
<1>3. /\ \A i \in Items : upload[i] \in {"idle", "done"} /\ place[i] = "none"
      /\ \A d \in Deleters : del[d] \in Deletion /\ del[d].pc \in {"idle", "done"}
  BY <1>1, <1>2, AtRestType DEF Init, Deletion
<1>4. /\ used = 0 /\ meta = {} /\ thumb = [f \in Fids |-> "none"]
      /\ on = [t \in Thumbs |-> "none"] /\ msg = [m \in Sends |-> "none"]
      /\ jan = AtRest /\ ~overlap /\ ~drift
  BY DEF Init
<1>5. "none" \notin Sends \cup {"tmp", "staged"} /\ "none" # "expired" /\ "none" # "staged"
  BY PlacesAssumption
<1>6. Types
  <2>1. del \in [Deleters -> Deletion] /\ upload \in [Items -> Stages]
    BY <1>1, <1>3 DEF Stages
  <2>2. MaxFaults \in Nat /\ MaxCrashes \in Nat
    BY BoundsAssumption
  <2>3. faults \in 0..MaxFaults /\ crashes \in 0..MaxCrashes
    BY <2>2 DEF Init
  <2>4. wants \in [Sends -> SUBSET Fids] /\ tomb \subseteq Sends
    BY DEF Init
  <2>5. place \in [Items -> Places] /\ msg \in [Sends -> Dirs]
    BY <1>4 DEF Init, Places, Dirs
  <2>6. /\ used \in Nat /\ meta \subseteq Fids /\ overlap \in BOOLEAN /\ drift \in BOOLEAN
        /\ jan \in Tally
    BY <1>4, AtRestType DEF Init
  <2>7. thumb \in [Fids -> Thumbs \cup {"none"}] /\ on \in [Thumbs -> Fids \cup {"none"}]
    BY <1>4
  <2> QED
    BY <2>1, <2>3, <2>4, <2>5, <2>6, <2>7 DEF Types
<1>7. Targets /\ Located
  BY <1>3, <1>4, <1>5, AtRestType, ItemKinds DEF Targets, Located
<1>8. Paired /\ PreviewMatches
  BY <1>3, <1>4, <1>5, ItemKinds DEF Paired, PreviewMatches
<1>9. Quiet /\ Seen /\ Tallied
  BY <1>3, <1>4, AtRestType DEF Quiet, Sweeping, Seen, Tallied, Counting
<1>10. Claims
  BY <1>3 DEF Claims, Claimed, Credits
<1>11. Settled
  <2>1. Freed /\ \A d \in Deleters : ~Credits(d)
    BY <1>3 DEF Freed, Credits
  <2>2. PICK p \in Removed : p = [m \in Sends |-> {}]
    BY DEF Removed
  <2>3. Charged(p) = {}
    BY <1>3, <1>4, <1>5, <2>2, AtRestType DEF Charged
  <2>4. Cardinality(Charged(p)) <= used
    BY <1>4, <2>3, FS_EmptySet
  <2>5. Owes(p) /\ \A d \in Deleters : Backed(p, d)
    BY <2>1, <2>2 DEF Owes, Backed
  <2> QED
    BY <2>1, <2>4, <2>5 DEF Settled, Covers
<1> QED
  BY <1>6, <1>7, <1>8, <1>9, <1>10, <1>11 DEF IInv

LEMMA Step == IInv /\ [Next]_vars => IInv'
<1> SUFFICES ASSUME IInv, [Next]_vars PROVE IInv'
  OBVIOUS
<1>1. Types' /\ Targets' /\ Located'
  BY TypesStay, TargetsStay, LocatedStays DEF IInv
<1>2. Paired' /\ PreviewMatches'
  BY PairedStays DEF IInv
<1>3. Quiet' /\ Seen' /\ Tallied'
  BY QuietStays, SeenStays, TalliedStays DEF IInv
<1>4. Claims'
  BY ClaimsStay DEF IInv
<1>5. Settled'
  BY SettledStays DEF IInv
<1> QED
  BY <1>1, <1>2, <1>3, <1>4, <1>5 DEF IInv

(* The invariant that the theorems below are read off. *)
THEOREM QuotaInvariance == Spec => []IInv
<1> QED
  BY Start, Step, PTL DEF Spec

(* The counter is a number, and every file, request and message is in one of its
   places, in all of its behaviours. *)
THEOREM TypeCorrect == Spec => []TypeOK
<1>1. IInv => TypeOK
  BY TypesAre DEF IInv
<1> QED
  BY <1>1, QuotaInvariance, PTL

(* While no sweep was overlapped and no .meta or rmtree failed, storage_used is
   at least what the user has on disk, whatever uploads, sends, deletes, pruning
   and crashes have raced. *)
THEOREM CounterIsCovering == Spec => []CounterCovers
<1>1. IInv => CounterCovers
  <2> SUFFICES ASSUME IInv, ~drift, ~overlap PROVE Cardinality(OnDisk) <= used
    BY DEF CounterCovers
  <2>1. PICK o \in Removed : Covers(o)
    BY DEF IInv, Settled, Sound
  <2>2. OnDisk \in SUBSET Charged(o) /\ Charged(o) \in SUBSET Items
    BY ChargedType DEF OnDisk, Staged, AttachedTo, Charged
  <2> QED
    BY <2>1, <2>2, CoverShrinks DEF IInv, Types, Covers
<1> QED
  BY <1>1, QuotaInvariance, PTL

(* The preview that a message serves is the one its .meta names, however many
   previews of the upload raced each other, the janitor and the send. *)
THEOREM PreviewIsNamed == Spec => []PreviewMatches
<1>1. IInv => PreviewMatches
  BY DEF IInv
<1> QED
  BY <1>1, QuotaInvariance, PTL

(* recount_all_storage writes exactly what is on disk if no request ran into it,
   though the janitor reads one directory after the other and the router moves
   messages between them. *)
THEOREM RecountIsExact == Spec => RecountExact
<1>1. IInv /\ [Next]_vars => [WriteTotal /\ ~overlap => used' = Cardinality(OnDisk)]_vars
  <2> SUFFICES ASSUME IInv, [Next]_vars, WriteTotal, ~overlap
               PROVE  used' = Cardinality(OnDisk)
    OBVIOUS
  <2>1. jan.pc = "write" /\ used' = jan.total
    BY DEF WriteTotal, JanitorAt
  <2> QED
    BY <2>1, TotalIsExact DEF IInv
<1> QED
  BY <1>1, QuotaInvariance, PTL DEF Spec, RecountExact

=============================================================================
