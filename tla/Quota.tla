------------------------------- MODULE Quota -------------------------------
(* The storage quota of one user: bytes are reserved before an upload streams,
   travel with the upload from staged/ into a message, and are given back when
   it is pruned or deleted.  The counter storage_used is only a cache: the
   janitor overwrites it every hour with what it finds on disk, while requests
   and the router move what it counts.  A preview is charged on its own, and
   goes with its upload if the upload's .meta names it by then.

   Every upload and every preview is one byte long.                           *)
EXTENDS Naturals, FiniteSets

CONSTANTS
    Fids,       \* uploads the user makes
    Thumbs,     \* previews the user uploads for them
    Sends,      \* messages the user sends; an id is also the message's
    Deleters,   \* delete requests of the user
    Quota,      \* USER_STORAGE_QUOTA
    MaxStaged,  \* MAX_STAGED
    Cases,      \* bound: which of these requests come in one behaviour
    MaxFaults,  \* bound: disk operations that fail
    MaxCrashes  \* bound: crashes of the process

ASSUME SetsAssumption ==
    /\ IsFiniteSet(Fids) /\ IsFiniteSet(Thumbs) /\ IsFiniteSet(Sends)
    /\ Fids \cap Thumbs = {} /\ "none" \notin Fids \cup Thumbs
ASSUME PlacesAssumption == Sends \cap {"none", "tmp", "staged", "gone", "expired"} = {}
ASSUME CasesAssumption == Cases \subseteq SUBSET (Fids \cup Thumbs \cup Deleters)
ASSUME BoundsAssumption == {Quota, MaxStaged, MaxFaults, MaxCrashes} \subseteq Nat

VARIABLES
    used,     \* storage_used
    place,    \* where the bytes of an item are: tmp/, staged/ or a message
    meta,     \* uploads with their .meta in staged/
    thumb,    \* the preview an upload's .meta names
    on,       \* the upload a preview is for
    upload,   \* where the item's request is
    msg,      \* the directory a message is in
    wants,    \* the uploads a send has validated
    tomb,     \* messages with the deleted marker
    del,      \* what a delete request is at
    jan,      \* what the janitor is at
    overlap,  \* history: something was deleted or charged during this sweep
    drift,    \* history: the counter may be short since then
    faults, crashes

files == <<place, meta, thumb>>
requests == <<upload, on, wants, del>>
history == <<overlap, drift>>
env == <<faults, crashes>>
vars == <<used, files, requests, msg, tomb, jan, history, env>>

NoDelete == [pc |-> "idle", of |-> "none", freed |-> 0, over |-> FALSE,
             first |-> FALSE]
AtRest == [pc |-> "idle", of |-> "none", total |-> 0, counted |-> {}]

Items == Fids \cup Thumbs
Staged == {i \in Items : place[i] = "staged"}
AttachedTo(M) == {i \in Items : place[i] \in M}
Previews(f) == {t \in Thumbs : on[t] = f}
InDirectory(d) == {m \in Sends : msg[m] = d}
OnDisk == Staged \cup AttachedTo(Sends \cup {"tmp"})

(* A request that never comes is over from the start. *)
Starts(r, case) == IF r \in case THEN "idle" ELSE "done"

Init == \E case \in Cases :
    /\ used = 0
    /\ place = [i \in Items |-> "none"]
    /\ meta = {}
    /\ thumb = [f \in Fids |-> "none"]
    /\ on = [t \in Thumbs |-> "none"]
    /\ upload = [i \in Items |-> Starts(i, case)]
    /\ msg = [m \in Sends |-> "none"]
    /\ wants = [m \in Sends |-> {}]
    /\ tomb = {}
    /\ del = [d \in Deleters |-> [NoDelete EXCEPT !.pc = Starts(d, case)]]
    /\ jan = AtRest
    /\ overlap = FALSE
    /\ drift = FALSE
    /\ faults = 0
    /\ crashes = 0

Sweeping == jan.pc \notin {"idle", "archive"}

(* A request, or a bounce that fails, changes the disk or the counter. *)
Touch == overlap' = (overlap \/ Sweeping) /\ UNCHANGED drift

Fault == faults < MaxFaults /\ faults' = faults + 1 /\ UNCHANGED crashes

Credited(n) == IF used < n THEN 0 ELSE used - n
Goto(i, where) == upload' = [upload EXCEPT ![i] = where]
Put(I, where) == place' = [i \in Items |-> IF i \in I THEN where ELSE place[i]]

-----------------------------------------------------------------------------
(* Api.upload                                                                *)

(* The staged files are counted before anything is reserved ... *)
UploadCheck(f) ==
    /\ upload[f] = "idle"
    /\ Cardinality(Staged \cap Fids) < MaxStaged
    /\ Goto(f, "reserve")
    /\ UNCHANGED <<used, files, on, wants, del, msg, tomb, jan, history, env>>

(* ... then reserve_storage checks and charges in one step, or answers 413. *)
Reserve(f) ==
    /\ upload[f] = "reserve"
    /\ used + 1 <= Quota
    /\ used' = used + 1
    /\ Goto(f, "stream")
    /\ Put({f}, "tmp")
    /\ Touch
    /\ UNCHANGED <<meta, thumb, on, wants, del, msg, tomb, jan, env>>

Refuse(f) ==
    /\ upload[f] = "reserve"
    /\ used + 1 > Quota
    /\ Goto(f, "idle")
    /\ UNCHANGED <<used, files, on, wants, del, msg, tomb, jan, history, env>>

(* The client stops sending, or the disk stops taking. *)
StreamFails(f) ==
    /\ upload[f] = "stream"
    /\ Put({f}, "gone")
    /\ Goto(f, "fail")
    /\ Touch
    /\ UNCHANGED <<used, meta, thumb, on, wants, del, msg, tomb, jan, env>>

Stage(f) ==
    /\ upload[f] = "stream"
    /\ Put({f}, "staged")
    /\ Goto(f, "meta")
    /\ Touch
    /\ UNCHANGED <<used, meta, thumb, on, wants, del, msg, tomb, jan, env>>

WriteMeta(f) ==
    /\ upload[f] = "meta"
    /\ meta' = meta \cup {f}
    /\ Goto(f, "done")
    /\ Touch
    /\ UNCHANGED <<used, place, thumb, on, wants, del, msg, tomb, jan, env>>

(* The bytes stay in staged/, but the reservation is going to be released. *)
MetaFails(f) ==
    /\ upload[f] = "meta"
    /\ Fault
    /\ Goto(f, "fail")
    /\ overlap' = (overlap \/ Sweeping)
    /\ drift' = TRUE
    /\ UNCHANGED <<used, files, on, wants, del, msg, tomb, jan>>

(* Every failure after the reservation releases it. *)
ReleaseReservation(f) ==
    /\ upload[f] = "fail"
    /\ \/ used' = Credited(1) /\ UNCHANGED env
       \/ Fault /\ UNCHANGED used
    /\ Goto(f, "done")
    /\ Touch
    /\ UNCHANGED <<files, on, wants, del, msg, tomb, jan>>

-----------------------------------------------------------------------------
(* Api.upload_thumb                                                          *)

ThumbCheck(t, f) ==
    /\ upload[t] = "idle"
    /\ f \in Staged \cap meta
    /\ Previews(f) \cap Staged = {}
    /\ on' = [on EXCEPT ![t] = f]
    /\ Goto(t, "reserve")
    /\ UNCHANGED <<used, files, wants, del, msg, tomb, jan, history, env>>

(* Slip: the name is not claimed, and a preview takes the place of another. *)
LinkOver(t) ==
    /\ upload[t] = "stream"
    /\ place' = [i \in Items |-> IF i = t THEN "staged"
                                 ELSE IF i \in Previews(on[t]) \cap Staged THEN "gone"
                                 ELSE place[i]]
    /\ Goto(t, "read")
    /\ Touch
    /\ UNCHANGED <<used, meta, thumb, on, wants, del, msg, tomb, jan, env>>

(* One of the previews that passed the check gets the name. *)
LinkThumb(t) ==
    /\ upload[t] = "stream"
    /\ IF Previews(on[t]) \cap Staged = {}
       THEN Put({t}, "staged") /\ Goto(t, "read")
       ELSE Put({t}, "gone") /\ Goto(t, "fail")
    /\ Touch
    /\ UNCHANGED <<used, meta, thumb, on, wants, del, msg, tomb, jan, env>>

(* The .meta is read ... *)
ReadMeta(t) ==
    /\ upload[t] = "read"
    /\ on[t] \in meta
    /\ Goto(t, "record")
    /\ UNCHANGED <<used, files, on, wants, del, msg, tomb, jan, history, env>>

(* ... and replaced.  If a send has taken the upload since, this .meta is left
   behind, and so is the preview. *)
Record(t) ==
    /\ upload[t] = "record"
    /\ meta' = meta \cup {on[t]}
    /\ thumb' = IF on[t] \in Staged \cap meta THEN [thumb EXCEPT ![on[t]] = t] ELSE thumb
    /\ Goto(t, "done")
    /\ Touch
    /\ UNCHANGED <<used, place, on, wants, del, msg, tomb, jan, env>>

(* The upload is gone, or the disk fails: the preview is removed, unless a send
   took it for one that expired. *)
Unlink(t) ==
    /\ \/ upload[t] = "read" /\ on[t] \notin meta /\ UNCHANGED env
       \/ upload[t] \in {"read", "record"} /\ Fault
    /\ Put({t} \cap Staged, "gone")
    /\ Goto(t, "fail")
    /\ overlap' = (overlap \/ Sweeping)
    /\ drift' = (drift \/ (t \notin Staged /\ thumb[on[t]] # "none"))
    /\ UNCHANGED <<used, meta, thumb, on, wants, del, msg, tomb, jan>>

-----------------------------------------------------------------------------
(* Store.spool_message and the router                                        *)

(* A send with attachments finds all of them staged. *)
Validate(m, F) ==
    /\ msg[m] = "none"
    /\ F # {}
    /\ F \subseteq Staged \cap meta
    /\ wants' = [wants EXCEPT ![m] = F]
    /\ msg' = [msg EXCEPT ![m] = "tmp"]
    /\ Touch
    /\ UNCHANGED <<used, files, upload, on, del, tomb, jan, env>>

(* The blob, its .meta and, if that names one, whatever preview is there. *)
Move(m, f) ==
    /\ msg[m] = "tmp"
    /\ f \in wants[m] \cap Staged \cap meta
    /\ Put({f} \cup (IF thumb[f] = "none" THEN {} ELSE Previews(f) \cap Staged), m)
    /\ meta' = meta \ {f}
    /\ Touch
    /\ UNCHANGED <<used, thumb, requests, msg, tomb, jan, env>>

(* An upload is gone, to the janitor or another send, or the disk fails: the
   message is deleted with what has been moved, and nothing is credited. *)
SendAborts(m) ==
    /\ msg[m] = "tmp"
    /\ \/ wants[m] \ (Staged \cup AttachedTo({m})) # {} /\ UNCHANGED env
       \/ Fault
    /\ msg' = [msg EXCEPT ![m] = "gone"]
    /\ Put(AttachedTo({m}), "gone")
    /\ Touch
    /\ UNCHANGED <<used, meta, thumb, requests, tomb, jan>>

Spool(m) ==
    /\ msg[m] = "tmp"
    /\ wants[m] \subseteq AttachedTo({m})
    /\ msg' = [msg EXCEPT ![m] = "incoming"]
    /\ Touch
    /\ UNCHANGED <<used, files, requests, tomb, jan, env>>

(* The router moves the message to its group, or bounces it. *)
Route(m) ==
    /\ msg[m] = "incoming"
    /\ \E d \in {"group", "rejected"} : msg' = [msg EXCEPT ![m] = d]
    /\ UNCHANGED <<used, files, requests, tomb, jan, history, env>>

(* A message that cannot be moved to rejected/ is deleted. *)
BounceFails(m) ==
    /\ msg[m] = "incoming"
    /\ Fault
    /\ msg' = [msg EXCEPT ![m] = "gone"]
    /\ Put(AttachedTo({m}), "gone")
    /\ Touch
    /\ UNCHANGED <<used, meta, thumb, requests, tomb, jan>>

-----------------------------------------------------------------------------
(* Api.delete_message                                                        *)

At(d, where) == del[d].pc = where
Done(d) == del' = [del EXCEPT ![d] = [NoDelete EXCEPT !.pc = "done"]]

(* What the .meta files of a message say that there is. *)
Named(m) ==
    LET F == AttachedTo({m}) \cap Fids
    IN Cardinality(F) + Cardinality({f \in F : thumb[f] # "none"})

(* The attachments are sized before the claim ... *)
Size(d, m) ==
    /\ At(d, "idle")
    /\ msg[m] = "group"
    /\ del' = [del EXCEPT ![d] = [pc |-> "claim", of |-> m, first |-> FALSE,
                                  freed |-> Named(m),
                                  over |-> Named(m) > Cardinality(AttachedTo({m}))]]
    /\ UNCHANGED <<used, files, upload, on, wants, msg, tomb, jan, history, env>>

(* Slip: the marker is taken by whoever comes. *)
ClaimShared(d) ==
    /\ At(d, "claim")
    /\ msg[del[d].of] = "group"
    /\ tomb' = tomb \cup {del[d].of}
    /\ del' = [del EXCEPT ![d].pc = "remove", ![d].first = TRUE]
    /\ Touch
    /\ UNCHANGED <<used, files, upload, on, wants, msg, jan, env>>

(* ... which is exclusive; who loses it still cleans up. *)
ClaimTombstone(d) ==
    /\ At(d, "claim")
    /\ msg[del[d].of] = "group"
    /\ tomb' = tomb \cup {del[d].of}
    /\ del' = [del EXCEPT ![d].pc = "remove", ![d].first = del[d].of \notin tomb]
    /\ Touch
    /\ UNCHANGED <<used, files, upload, on, wants, msg, jan, env>>

Remove(d) ==
    /\ At(d, "remove")
    /\ msg[del[d].of] = "group"
    /\ Put(AttachedTo({del[d].of}), "gone")
    /\ del' = [del EXCEPT ![d].pc = "credit"]
    /\ Touch
    /\ UNCHANGED <<used, meta, thumb, upload, on, wants, msg, tomb, jan, env>>

(* rmtree ignores its errors. *)
RemoveFails(d) ==
    /\ At(d, "remove")
    /\ msg[del[d].of] = "group"
    /\ Fault
    /\ del' = [del EXCEPT ![d].pc = "credit"]
    /\ overlap' = (overlap \/ Sweeping)
    /\ drift' = TRUE
    /\ UNCHANGED <<used, files, upload, on, wants, msg, tomb, jan>>

(* The message was archived meanwhile, or a write fails: 503 or 500. *)
DeleteFails(d) ==
    /\ del[d].pc \in {"claim", "remove", "credit"}
    /\ \/ msg[del[d].of] # "group" /\ UNCHANGED env
       \/ At(d, "credit") /\ Fault
    /\ Done(d)
    /\ Touch
    /\ UNCHANGED <<used, files, upload, on, wants, msg, tomb, jan>>

(* A preview that expired before its upload was sent is credited again. *)
DeleteCredit(d) ==
    /\ At(d, "credit")
    /\ used' = IF del[d].first THEN Credited(del[d].freed) ELSE used
    /\ Done(d)
    /\ overlap' = (overlap \/ Sweeping)
    /\ drift' = (drift \/ (del[d].first /\ del[d].over))
    /\ UNCHANGED <<files, upload, on, wants, msg, tomb, jan, env>>

-----------------------------------------------------------------------------
(* Janitor.clean                                                             *)

Busy == \/ \E i \in Items : upload[i] \notin {"idle", "reserve", "done"}
        \/ InDirectory("tmp") # {}
        \/ \E d \in Deleters : del[d].pc \notin {"idle", "done"}

JanitorAt(where) == jan.pc = where
JanitorTo(where) == jan' = [jan EXCEPT !.pc = where]

SweepBegins ==
    /\ JanitorAt("idle")
    /\ JanitorTo("prune")
    /\ overlap' = Busy
    /\ UNCHANGED <<used, files, requests, msg, tomb, drift, env>>

(* Messages in rejected/ for three days go, and credit nothing. *)
PruneRejected(m) ==
    /\ JanitorAt("prune")
    /\ msg[m] = "rejected"
    /\ msg' = [msg EXCEPT ![m] = "gone"]
    /\ Put(AttachedTo({m}), "gone")
    /\ UNCHANGED <<used, meta, thumb, requests, tomb, jan, history, env>>

(* _prune_staged: the size of an upload a day old is read from its .meta, that
   of a preview from the file, ... *)
PruneLook(i) ==
    /\ JanitorAt("prune")
    /\ i \in Staged
    /\ upload[i] = "done"
    /\ jan' = [jan EXCEPT !.pc = "unlink", !.of = i,
                          !.total = IF i \in meta \cup Thumbs THEN 1 ELSE 0]
    /\ UNCHANGED <<used, files, requests, msg, tomb, history, env>>

(* ... both are unlinked, if they are still there, ... *)
PruneUnlink ==
    /\ JanitorAt("unlink")
    /\ Put({jan.of} \cap Staged, "expired")
    /\ meta' = meta \ {jan.of}
    /\ JanitorTo("credit")
    /\ UNCHANGED <<used, thumb, requests, msg, tomb, history, env>>

(* ... and the size is credited. *)
PruneCredit ==
    /\ JanitorAt("credit")
    /\ \/ used' = Credited(jan.total) /\ UNCHANGED env
       \/ Fault /\ UNCHANGED used
    /\ jan' = [AtRest EXCEPT !.pc = "prune"]
    /\ UNCHANGED <<files, requests, msg, tomb, history>>

(* The .meta that a late preview wrote back goes after a day. *)
PruneMeta(f) ==
    /\ JanitorAt("prune")
    /\ f \in meta \ Staged
    /\ \A t \in Previews(f) : upload[t] \in {"idle", "done"}
    /\ meta' = meta \ {f}
    /\ UNCHANGED <<used, place, thumb, requests, msg, tomb, jan, history, env>>

(* An upload is older than its preview, and expires in the same sweep. *)
Due == {f \in Staged \cap Fids : thumb[f] # "none" /\ place[thumb[f]] = "expired"}

(* recount_all_storage: staged/ first, ... *)
CountStaged ==
    /\ JanitorAt("prune")
    /\ \/ Due = {} /\ UNCHANGED env
       \/ Fault
    /\ jan' = [jan EXCEPT !.pc = "incoming", !.total = Cardinality(Staged)]
    /\ UNCHANGED <<used, files, requests, msg, tomb, history>>

Count(M, where) == jan' =
    [jan EXCEPT !.pc = where, !.total = @ + Cardinality(AttachedTo(M)),
                !.counted = @ \cup M]

(* ... then incoming/, under the lock that the router moves messages with, ... *)
CountIncoming ==
    /\ JanitorAt("incoming")
    /\ Count(InDirectory("incoming"), "groups")
    /\ UNCHANGED <<used, files, requests, msg, tomb, history, env>>

(* Slip: what was counted in incoming/ is counted again. *)
CountGroupsAgain ==
    /\ JanitorAt("groups")
    /\ Count(InDirectory("group") \cup InDirectory("archive"), "rejected")
    /\ UNCHANGED <<used, files, requests, msg, tomb, history, env>>

(* ... then what was not seen there, in groups/ and archive/ ... *)
CountGroups ==
    /\ JanitorAt("groups")
    /\ Count((InDirectory("group") \cup InDirectory("archive")) \ jan.counted,
             "rejected")
    /\ UNCHANGED <<used, files, requests, msg, tomb, history, env>>

(* ... and in rejected/. *)
CountRejected ==
    /\ JanitorAt("rejected")
    /\ Count(InDirectory("rejected") \ jan.counted, "write")
    /\ UNCHANGED <<used, files, requests, msg, tomb, history, env>>

(* The total replaces the counter, whatever became of it since. *)
WriteTotal ==
    /\ JanitorAt("write")
    /\ used' = jan.total
    /\ jan' = [AtRest EXCEPT !.pc = "archive"]
    /\ drift' = overlap
    /\ overlap' = FALSE
    /\ UNCHANGED <<files, requests, msg, tomb, env>>

(* Slip: the exception ends the janitor's thread. *)
JanitorDies ==
    /\ JanitorAt("write")
    /\ Fault
    /\ JanitorTo("dead")
    /\ UNCHANGED <<used, files, requests, msg, tomb, history>>

(* Its failure is ignored until the next sweep. *)
WriteTotalFails ==
    /\ JanitorAt("write")
    /\ Fault
    /\ jan' = [AtRest EXCEPT !.pc = "archive"]
    /\ drift' = (drift \/ overlap)
    /\ overlap' = FALSE
    /\ UNCHANGED <<used, files, requests, msg, tomb>>

(* Old days and member-less groups move to archive/, which is still counted. *)
Archive(m) ==
    /\ JanitorAt("archive")
    /\ msg[m] = "group"
    /\ msg' = [msg EXCEPT ![m] = "archive"]
    /\ UNCHANGED <<used, files, requests, tomb, jan, history, env>>

SweepEnds ==
    /\ JanitorAt("archive")
    /\ jan' = AtRest
    /\ UNCHANGED <<used, files, requests, msg, tomb, history, env>>

-----------------------------------------------------------------------------
(* What was being written to tmp/ is not attributed to anyone any more. *)
Crash ==
    /\ crashes < MaxCrashes
    /\ crashes' = crashes + 1
    /\ Put(AttachedTo(InDirectory("tmp") \cup {"tmp"}), "gone")
    /\ msg' = [m \in Sends |-> IF msg[m] = "tmp" THEN "gone" ELSE msg[m]]
    /\ upload' = [i \in Items |-> IF upload[i] = "idle" THEN "idle" ELSE "done"]
    /\ del' = [d \in Deleters |-> IF At(d, "idle") THEN NoDelete
                                  ELSE [NoDelete EXCEPT !.pc = "done"]]
    /\ jan' = AtRest
    /\ drift' = (drift \/ overlap)
    /\ overlap' = FALSE
    /\ UNCHANGED <<used, meta, thumb, on, wants, tomb, faults>>

Receiving(i) ==
    Reserve(i) \/ Refuse(i) \/ StreamFails(i) \/ ReleaseReservation(i)

Uploading(f) ==
    UploadCheck(f) \/ Receiving(f) \/ Stage(f) \/ WriteMeta(f) \/ MetaFails(f)

Previewing(t) ==
    Receiving(t) \/ LinkThumb(t) \/ ReadMeta(t) \/ Record(t) \/ Unlink(t)

Sending(m) ==
    \/ SendAborts(m) \/ Spool(m) \/ \E f \in Fids : Move(m, f)

Deleting(d) ==
    \/ ClaimTombstone(d) \/ Remove(d) \/ RemoveFails(d) \/ DeleteFails(d)
    \/ DeleteCredit(d)

Sweep ==
    \/ SweepBegins \/ PruneUnlink \/ PruneCredit \/ CountStaged \/ CountIncoming
    \/ CountGroups \/ CountRejected \/ WriteTotal \/ WriteTotalFails \/ SweepEnds

Pruning ==
    \/ \E m \in Sends : PruneRejected(m) \/ Archive(m)
    \/ \E i \in Items : PruneLook(i)
    \/ \E f \in Fids : PruneMeta(f)

Next ==
    \/ \E f \in Fids : Uploading(f) \/ \E t \in Thumbs : ThumbCheck(t, f)
    \/ \E t \in Thumbs : Previewing(t)
    \/ \E m \in Sends :
        \/ Sending(m) \/ Route(m) \/ BounceFails(m)
        \/ \E F \in SUBSET Fids : Validate(m, F)
    \/ \E d \in Deleters : Deleting(d) \/ \E m \in Sends : Size(d, m)
    \/ Sweep \/ Pruning \/ Crash

Spec == Init /\ [][Next]_vars

(* A request that has begun runs to its end, the janitor sweeps every hour. *)
Fairness ==
    /\ \A f \in Fids : WF_vars(upload[f] # "idle" /\ Uploading(f))
    /\ \A t \in Thumbs : WF_vars(Previewing(t))
    /\ \A m \in Sends : WF_vars(Sending(m))
    /\ \A d \in Deleters : WF_vars(Deleting(d))
    /\ WF_vars(Sweep \/ \E f \in Due : PruneLook(f))

FairSpec == Spec /\ Fairness

-----------------------------------------------------------------------------
TypeOK ==
    /\ used \in Nat
    /\ place \in [Items -> {"none", "tmp", "staged", "gone", "expired"} \cup Sends]
    /\ meta \subseteq Fids
    /\ thumb \in [Fids -> Thumbs \cup {"none"}]
    /\ on \in [Thumbs -> Fids \cup {"none"}]
    /\ upload \in [Items -> {"idle", "reserve", "stream", "meta", "read", "record",
                            "fail", "done"}]
    /\ msg \in [Sends -> {"none", "tmp", "incoming", "group", "archive", "rejected",
                          "gone"}]
    /\ wants \in [Sends -> SUBSET Fids]
    /\ tomb \subseteq Sends
    /\ del \in [Deleters -> [pc : {"idle", "claim", "remove", "credit", "done"},
                             of : Sends \cup {"none"}, freed : Nat, over : BOOLEAN,
                             first : BOOLEAN]]
    /\ jan \in [pc : {"idle", "prune", "unlink", "credit", "incoming", "groups",
                      "rejected", "write", "archive"},
                of : Items \cup {"none"}, total : Nat, counted : SUBSET Sends]
    /\ overlap \in BOOLEAN /\ drift \in BOOLEAN
    /\ faults \in 0..MaxFaults /\ crashes \in 0..MaxCrashes

(* The counter is never short of the bytes that are charged to it, through
   parallel uploads, aborted sends, racing deletes, failed releases and crashes:
   only a sweep during which a request runs can bring it below them, or a
   failing .meta or rmtree, and the next sweep that runs alone ends that. *)
CounterCovers == ~drift /\ ~overlap => Cardinality(OnDisk) <= used

(* A recount during which no request runs is exact, wherever the router takes
   the messages while it counts. *)
RecountExact == [][WriteTotal /\ ~overlap => used' = Cardinality(OnDisk)]_vars

(* The preview a message serves is the one its .meta describes, with several
   previews of one upload racing each other and the send; the .meta of an upload
   whose preview expired before it was sent describes none that is there. *)
PreviewMatches ==
    \A f \in Fids, t \in Thumbs :
        place[f] \in Sends /\ place[t] = place[f] /\ on[t] = f
            => t = thumb[f] \/ (thumb[f] # "none" /\ place[thumb[f]] = "expired")

(* Whatever made the counter drift costs sweeps, not the allowance: when the
   requests stop, the counter is what is on disk. *)
DriftEnds == <>[](used = Cardinality(OnDisk))

-----------------------------------------------------------------------------
(* Two statements one might read into comments of the code, which it does not
   keep.                                                                     *)

(* "RESERVE the bytes under the lock before streaming, so concurrent uploads
   can't collectively overshoot the quota": what the user has on disk and in
   progress fits the quota. *)
QuotaHolds == Cardinality(OnDisk) <= Quota

(* "a "thumb" key implies the file": a message whose .meta names a preview has
   it.  The janitor may have pruned the preview and not yet the upload. *)
KeyImpliesFile ==
    \A m \in Sends, f \in Fids :
        msg[m] = "incoming" /\ place[f] = m /\ thumb[f] # "none" => place[thumb[f]] = m
=============================================================================
