---------------------------- MODULE ContentProofs ----------------------------
(***************************************************************************)
(* Proofs about Content, for every set of members, edits, deletes and      *)
(* reactions, and any number of refused writes and removals and restarts.  *)
(***************************************************************************)
EXTENDS Content, TLAPS

(* A member who has begun to read since the claim reads of a tombstone,     *)
(* which is never taken back, and is past no look at it from before.        *)
Hidden == \A u \in Members \cap fresh :
    /\ deleted # "no" /\ client[u] # "content"
    /\ client[u] = "shown" => shown[u] = None
    /\ client[u] = "fetched" => got[u] = [Nothing EXCEPT !.edited = got[u].edited]

(* What a delete has cleaned so far stays clean, but for what the disk did  *)
(* not let it remove, and what the requests that were past their check at   *)
(* the claim write.                                                         *)
TextGone == text \in {Blank} \cup past
ReactionGone == reaction \in {None} \cup past
Cleaned(t) ==
    /\ pc[t] \in {"blank", "stamp", "fanout", "ok"} => ~blobs \/ "blobs" \in kept[t]
    /\ pc[t] \in {"stamp", "fanout", "ok"} => TextGone
    /\ pc[t] \in {"rmdir", "blobs", "blank", "stamp", "fanout", "ok"}
          => ReactionGone \/ "reactions" \in kept[t]
    /\ pc[t] = "unlink" /\ listed[t] = None => ReactionGone

Destroyed ==
    /\ ~rdir => reaction = None
    /\ deleted = "no" => \A t \in Deletes : pc[t] = "idle"
    /\ deleted # "no" => \A t \in Edits \cup Reactions : pc[t] \in Unfinished => t \in past
    /\ \A t \in Deletes : Cleaned(t)

IInv == TypeOK /\ Hidden /\ Destroyed

LEMMA Removals ==
    /\ DOMAIN Then = {"list", "unlink", "rmdir", "blobs"}
    /\ \A step \in DOMAIN Then : /\ Then[step] \in {"rmdir", "blobs", "blank"}
                                 /\ Remains[step] \subseteq {"reactions", "blobs"}
    /\ Then["list"] = "blobs" /\ Then["unlink"] = "rmdir"
    /\ Then["rmdir"] = "blobs" /\ Then["blobs"] = "blank"
    /\ Remains["list"] = {"reactions"} /\ Remains["unlink"] = {"reactions"}
    /\ Remains["rmdir"] = {} /\ Remains["blobs"] = {"blobs"}
  BY DEF Then, Remains

(* A request, and a client, leaves the other's variables alone. *)
LEMMA Apart ==
    /\ \A t \in Requests : Change(t) \/ Fail(t) => UNCHANGED clients /\ UNCHANGED fresh
    /\ \A u \in Members : Client(u) => UNCHANGED <<files, requests, past, failures>>
  BY DEF Change, Fail, EditChecks, EditWrites, EditStamps, ReactChecks, ReactMakesDir,
    ReactWrites, Claim, ClaimOr, ListReactions, UnlinkReactions, RemoveDir, DropBlobs,
    RemovalFails, BlankText, Stamp, Answer, history, Client, ReadBegins, FetchBlobs, FetchText,
    FetchReaction, FetchEdited, FetchMark, FetchEnds, Fetch, SearchLooks, SearchReads, LastReads,
    LastLooks, ReadEnds, Look

(* The types. *)
LEMMA RequestTypes ==
    ASSUME TypeOK, NEW t \in Requests, Change(t) \/ Fail(t)
    PROVE  TypeOK'
<1>1. UNCHANGED <<client, got, shown, fresh>>
  BY Apart DEF clients
<1>2. \A step \in Steps : Goto(t, step) => pc' \in [Requests -> Steps]
  BY DEF TypeOK, Goto
<1> USE Removals DEF TypeOK, Steps, Unfinished, Ended, files, history
<1>3. ASSUME t \in Edits, EditChecks(t) PROVE TypeOK'
  BY <1>1, <1>2, <1>3 DEF EditChecks
<1>4. ASSUME t \in Edits, EditWrites(t) PROVE TypeOK'
  BY <1>1, <1>2, <1>4 DEF EditWrites
<1>5. ASSUME t \in Edits, EditStamps(t) PROVE TypeOK'
  BY <1>1, <1>2, <1>5 DEF EditStamps
<1>6. ASSUME t \in Reactions, ReactChecks(t) PROVE TypeOK'
  BY <1>1, <1>2, <1>6 DEF ReactChecks
<1>7. ASSUME t \in Reactions, ReactMakesDir(t) PROVE TypeOK'
  BY <1>1, <1>2, <1>7 DEF ReactMakesDir
<1>8. ASSUME t \in Reactions, ReactWrites(t) PROVE TypeOK'
  <2>1. Goto(t, "failed") \/ Goto(t, "fanout")
    BY <1>8 DEF ReactWrites
  <2>2. reaction' \in Reactions \cup {None}
    BY <1>8 DEF ReactWrites
  <2> QED
    BY <1>1, <1>2, <1>8, <2>1, <2>2 DEF ReactWrites
<1>9. ASSUME t \in Deletes, Claim(t) PROVE TypeOK'
  BY <1>1, <1>2, <1>9 DEF Claim, ClaimOr
<1>10. ASSUME t \in Deletes, ListReactions(t) PROVE TypeOK'
  BY <1>1, <1>2, <1>10 DEF ListReactions
<1>11. ASSUME t \in Deletes, UnlinkReactions(t) PROVE TypeOK'
  BY <1>1, <1>2, <1>11 DEF UnlinkReactions
<1>12. ASSUME t \in Deletes, RemoveDir(t) PROVE TypeOK'
  BY <1>1, <1>2, <1>12 DEF RemoveDir
<1>13. ASSUME t \in Deletes, DropBlobs(t) PROVE TypeOK'
  BY <1>1, <1>2, <1>13 DEF DropBlobs
<1>14. ASSUME t \in Deletes, RemovalFails(t) PROVE TypeOK'
  BY <1>1, <1>2, <1>14, ContentAssumption DEF RemovalFails
<1>15. ASSUME t \in Deletes, BlankText(t) PROVE TypeOK'
  BY <1>1, <1>2, <1>15 DEF BlankText
<1>16. ASSUME t \in Deletes, Stamp(t) PROVE TypeOK'
  BY <1>1, <1>2, <1>16 DEF Stamp
<1>17. ASSUME Answer(t) PROVE TypeOK'
  BY <1>1, <1>2, <1>17 DEF Answer
<1>18. ASSUME Fail(t) PROVE TypeOK'
  BY <1>1, <1>2, <1>18, ContentAssumption DEF Fail
<1> QED
  BY <1>3, <1>4, <1>5, <1>6, <1>7, <1>8, <1>9, <1>10, <1>11, <1>12, <1>13, <1>14, <1>15, <1>16,
    <1>17, <1>18 DEF Change

LEMMA ClientTypes ==
    ASSUME TypeOK, NEW u \in Members, Client(u)
    PROVE  TypeOK'
<1>1. UNCHANGED <<files, requests, past, failures>>
  BY Apart
<1>2. /\ got[u] \in Shown /\ Nothing \in Shown /\ Content \in Edits \cup {Original, None}
      /\ text \in Edits \cup {Original, Blank} /\ blobs \in BOOLEAN
      /\ reaction \in Reactions \cup {None} /\ edited \in Edits \cup {None}
  BY DEF TypeOK, Nothing, Shown, Content
<1>3. /\ [got[u] EXCEPT !.blobs = blobs] \in Shown /\ [got[u] EXCEPT !.text = text] \in Shown
      /\ [got[u] EXCEPT !.reaction = reaction] \in Shown
      /\ [got[u] EXCEPT !.edited = edited] \in Shown /\ Render(got[u]) \in Shown
  BY <1>2 DEF Shown, Render, Nothing
<1>4. CASE ReadBegins(u)
  BY <1>1, <1>4 DEF ReadBegins, TypeOK, files, requests
<1>5. ASSUME NEW step, NEW g \in Shown,
             NEW next \in {"idle", "text", "reaction", "edited", "mark", "fetched"},
             Fetch(u, step, next, g)
      PROVE  TypeOK'
  <2>1. got' \in [Members -> Shown]
    BY <1>5 DEF Fetch, TypeOK
  <2> QED
    BY <1>1, <1>5, <2>1 DEF Fetch, TypeOK, files, requests, history
<1>6. CASE FetchBlobs(u) \/ FetchText(u) \/ FetchReaction(u)
  BY <1>3, <1>5, <1>6 DEF FetchBlobs, FetchText, FetchReaction
<1>7. CASE FetchEdited(u) \/ FetchMark(u) \/ FetchEnds(u)
  BY <1>2, <1>3, <1>5, <1>7 DEF FetchEdited, FetchMark, FetchEnds
<1>8. CASE SearchLooks(u) \/ SearchReads(u) \/ LastReads(u) \/ LastLooks(u) \/ ReadEnds(u)
  BY <1>1, <1>2, <1>8 DEF SearchLooks, SearchReads, LastReads, LastLooks, ReadEnds, Look,
    TypeOK,
    files, requests, history
<1> QED
  BY <1>4, <1>6, <1>7, <1>8 DEF Client

LEMMA TypesStay == TypeOK /\ [Next]_vars => TypeOK'
<1> SUFFICES ASSUME TypeOK, [Next]_vars PROVE TypeOK'
  OBVIOUS
<1>1. CASE Restart
  BY <1>1, ContentAssumption DEF Restart, Ended, Nothing, files, history, TypeOK, Steps, Shown
<1>2. CASE UNCHANGED vars
  BY <1>2 DEF vars, files, requests, clients, history, TypeOK
<1> QED
  BY <1>1, <1>2, RequestTypes, ClientTypes DEF Next

(* What readers are shown. *)
LEMMA HiddenStays == TypeOK /\ Hidden /\ [Next]_vars => Hidden'
<1> SUFFICES ASSUME TypeOK, Hidden, [Next]_vars PROVE Hidden'
  OBVIOUS
<1>1. ASSUME NEW t \in Requests, Change(t) \/ Fail(t) PROVE Hidden'
  <2>1. deleted # "no" => deleted' # "no"
    BY <1>1 DEF Change, Fail, EditChecks, EditWrites, EditStamps, ReactChecks, ReactMakesDir,
      ReactWrites, Claim, ClaimOr, ListReactions, UnlinkReactions, RemoveDir, DropBlobs,
      RemovalFails, BlankText, Stamp, Answer, files
  <2> QED
    BY <1>1, <2>1, Apart DEF Hidden, clients
<1>2. ASSUME NEW u \in Members, Client(u) PROVE Hidden'
  <2>1. deleted' = deleted
    BY <1>2, Apart DEF files
  <2>2. CASE ReadBegins(u)
    BY <2>1, <2>2 DEF ReadBegins, TypeOK, Hidden
  <2>3. CASE FetchBlobs(u) \/ FetchText(u) \/ FetchReaction(u) \/ FetchEdited(u) \/ FetchEnds(u)
    BY <2>1, <2>3 DEF FetchBlobs, FetchText, FetchReaction, FetchEdited, FetchEnds, Fetch,
      history,
      TypeOK, Hidden
  <2>4. CASE FetchMark(u)
    <3>1. u \in fresh => got'[u] = [Nothing EXCEPT !.edited = got'[u].edited]
      <4>1. got'[u] = Render(got[u])
        BY <2>4 DEF FetchMark, Fetch, TypeOK
      <4> QED
        BY <4>1 DEF Hidden, Render, Nothing
    <3> QED
      BY <2>1, <2>4, <3>1 DEF FetchMark, Fetch, history, TypeOK, Hidden
  <2>5. CASE SearchLooks(u) \/ SearchReads(u) \/ LastReads(u) \/ LastLooks(u) \/ ReadEnds(u)
    BY <2>1, <2>5 DEF SearchLooks, SearchReads, LastReads, LastLooks, ReadEnds, Look, history,
      TypeOK, Hidden
  <2> QED
    BY <1>2, <2>2, <2>3, <2>4, <2>5 DEF Client
<1>3. CASE Restart
  BY <1>3 DEF Restart, files, history, Hidden
<1>4. CASE UNCHANGED vars
  BY <1>4 DEF vars, files, clients, history, Hidden
<1> QED
  BY <1>1, <1>2, <1>3, <1>4 DEF Next

(* What deletes destroy. *)
LEMMA DestroyedStays == TypeOK /\ Destroyed /\ [Next]_vars => Destroyed'
<1> SUFFICES ASSUME TypeOK /\ Destroyed, [Next]_vars PROVE Destroyed'
  OBVIOUS
<1>1. ASSUME NEW t \in Edits, EditChecks(t) PROVE Destroyed'
  BY <1>1, ContentAssumption DEF EditChecks, Goto, files, history, TypeOK, Destroyed,
    Unfinished, Cleaned, TextGone, ReactionGone
<1>2. ASSUME NEW t \in Edits, EditWrites(t) PROVE Destroyed'
  BY <1>2 DEF EditWrites, Goto, history, TypeOK, Destroyed, Unfinished, Cleaned, TextGone,
    ReactionGone
<1>3. ASSUME NEW t \in Edits, EditStamps(t) PROVE Destroyed'
  BY <1>3, ContentAssumption DEF EditStamps, Goto, history, TypeOK, Destroyed, Unfinished,
    Cleaned, TextGone, ReactionGone
<1>4. ASSUME NEW t \in Reactions, ReactChecks(t) PROVE Destroyed'
  BY <1>4, ContentAssumption DEF ReactChecks, Goto, files, history, TypeOK, Destroyed,
    Unfinished, Cleaned, TextGone, ReactionGone
<1>5. ASSUME NEW t \in Reactions, ReactMakesDir(t) PROVE Destroyed'
  BY <1>5 DEF ReactMakesDir, Goto, history, TypeOK, Destroyed, Unfinished, Cleaned,
    TextGone, ReactionGone
<1>6. ASSUME NEW t \in Reactions, ReactWrites(t) PROVE Destroyed'
  <2>1. CASE pc' = [pc EXCEPT ![t] = "failed"] /\ UNCHANGED reaction
    BY <1>6, <2>1 DEF ReactWrites, history, TypeOK, Destroyed, Unfinished, Cleaned,
      TextGone, ReactionGone
  <2>2. CASE pc' = [pc EXCEPT ![t] = "fanout"] /\ reaction' = None
    BY <1>6, <2>2, ContentAssumption DEF ReactWrites, history, TypeOK, Destroyed,
      Unfinished, Cleaned, TextGone, ReactionGone
  <2>3. CASE pc' = [pc EXCEPT ![t] = "fanout"] /\ reaction' = t /\ rdir
    BY <1>6, <2>3, ContentAssumption DEF ReactWrites, history, TypeOK, Destroyed,
      Unfinished, Cleaned, TextGone, ReactionGone
  <2> QED
    BY <1>6, <2>1, <2>2, <2>3 DEF ReactWrites, Goto
<1>7. ASSUME NEW t \in Deletes, Claim(t) PROVE Destroyed'
  BY <1>7, ContentAssumption DEF Claim, ClaimOr, Requests, Goto, TypeOK, Destroyed, Cleaned,
    TextGone, ReactionGone
<1>8. ASSUME NEW t \in Deletes, ListReactions(t) PROVE Destroyed'
  BY <1>8, ContentAssumption DEF ListReactions, Goto, files, history, TypeOK, Destroyed,
    Cleaned, TextGone, ReactionGone
<1>9. ASSUME NEW t \in Deletes, UnlinkReactions(t) PROVE Destroyed'
  BY <1>9, ContentAssumption DEF UnlinkReactions, Goto, history, TypeOK, Destroyed, Cleaned,
    TextGone, ReactionGone
<1>10. ASSUME NEW t \in Deletes, RemoveDir(t) PROVE Destroyed'
  BY <1>10, ContentAssumption DEF RemoveDir, Goto, history, TypeOK, Destroyed, Cleaned,
    TextGone, ReactionGone
<1>11. ASSUME NEW t \in Deletes, DropBlobs(t) PROVE Destroyed'
  BY <1>11, ContentAssumption DEF DropBlobs, Goto, history, TypeOK, Destroyed, Cleaned,
    TextGone, ReactionGone
<1>12. ASSUME NEW t \in Deletes, RemovalFails(t) PROVE Destroyed'
  <2>1. /\ pc' = [pc EXCEPT ![t] = Then[pc[t]]] /\ UNCHANGED <<files, listed, past>>
        /\ kept' = [kept EXCEPT ![t] = kept[t] \cup Remains[pc[t]]]
        /\ pc[t] \in {"list", "unlink", "rmdir", "blobs"}
    BY <1>12, Removals DEF RemovalFails, Goto, history
  <2>2. ASSUME NEW x \in Deletes PROVE Cleaned(x)'
    <3>1. CASE x # t
      BY <2>1, <3>1 DEF Destroyed, Cleaned, TextGone, ReactionGone, TypeOK, Requests, files
    <3>2. CASE x = t
      <4>1. pc'[t] = Then[pc[t]] /\ kept'[t] = kept[t] \cup Remains[pc[t]]
        BY <2>1 DEF TypeOK, Requests
      <4>2. Cleaned(t)
        BY DEF Destroyed
      <4> QED
        BY <2>1, <3>2, <4>1, <4>2, Removals DEF Cleaned, TextGone, ReactionGone, files
    <3> QED
      BY <3>1, <3>2
  <2>3. \A x \in Edits \cup Reactions : pc'[x] = pc[x]
    BY <2>1, ContentAssumption DEF TypeOK, Requests
  <2> QED
    BY <2>1, <2>2, <2>3 DEF Destroyed, files
<1>13. ASSUME NEW t \in Deletes, BlankText(t) PROVE Destroyed'
  BY <1>13, ContentAssumption DEF BlankText, Goto, history, TypeOK, Destroyed, Cleaned,
    TextGone, ReactionGone
<1>14. ASSUME NEW t \in Deletes, Stamp(t) PROVE Destroyed'
  BY <1>14, ContentAssumption DEF Stamp, Goto, history, TypeOK, Destroyed, Cleaned, TextGone,
    ReactionGone
<1>15. ASSUME NEW t \in Requests, Answer(t) PROVE Destroyed'
  BY <1>15 DEF Answer, Goto, files, history, TypeOK, Destroyed, Unfinished, Cleaned, TextGone,
    ReactionGone
<1>16. ASSUME NEW t \in Requests, Fail(t) PROVE Destroyed'
  BY <1>16 DEF Fail, Goto, files, history, TypeOK, Destroyed, Unfinished, Cleaned, TextGone,
    ReactionGone
<1>17. ASSUME NEW u \in Members, Client(u) PROVE Destroyed'
  BY <1>17, Apart DEF files, requests, Destroyed, Cleaned, TextGone, ReactionGone
<1>18. CASE Restart
  BY <1>18 DEF Restart, Requests, Ended, files, history, TypeOK, Destroyed, Unfinished, Cleaned,
    TextGone, ReactionGone
<1>19. CASE UNCHANGED vars
  BY <1>19 DEF vars, files, requests, history, Destroyed, Cleaned, TextGone, ReactionGone
<1> QED
  BY <1>1, <1>2, <1>3, <1>4, <1>5, <1>6, <1>7, <1>8, <1>9, <1>10, <1>11, <1>12, <1>13, <1>14,
    <1>15, <1>16, <1>17, <1>18, <1>19 DEF Next, Change

-----------------------------------------------------------------------------
LEMMA InitHolds == Init => IInv
<1> SUFFICES ASSUME Init PROVE IInv
  OBVIOUS
<1>1. TypeOK
  <2>1. Nothing \in Shown
    BY DEF Nothing, Shown
  <2>2. failures \in 0..MaxFailures
    BY ContentAssumption DEF Init
  <2> QED
    BY <2>1, <2>2 DEF Init, TypeOK, Steps, Ended
<1>2. Hidden /\ Destroyed
  BY DEF Init, Hidden, Destroyed, Cleaned, Requests
<1> QED
  BY <1>1, <1>2 DEF IInv

(* The inductive invariant: what a delete has cleaned stays clean, and who  *)
(* reads after the claim is shown nothing.                                  *)
THEOREM Invariance == Spec => []IInv
<1>1. IInv /\ [Next]_vars => IInv'
  BY TypesStay, HiddenStays, DestroyedStays DEF IInv
<1> QED
  BY <1>1, InitHolds, PTL DEF Spec

(* The state stays within its type, whatever the requests interleave.       *)
THEOREM TypeCorrect == Spec => []TypeOK
<1>1. IInv => TypeOK
  BY DEF IInv
<1> QED
  BY <1>1, Invariance, PTL

(* No read that begins after the claim of the tombstone returns content     *)
(* (api.py:646, :837, :935, :965, :1118, :1179).                            *)
THEOREM DeletedStaysHidden == Spec => []DeletedIsHidden
<1>1. IInv => DeletedIsHidden
  BY DEF IInv, Hidden, DeletedIsHidden
<1> QED
  BY <1>1, Invariance, PTL

(* A delete that answers ok has destroyed the content, also as a retry or   *)
(* as the loser of the claim (api.py:620-636), but for what the disk did    *)
(* not let it remove and what requests past their check write back.         *)
THEOREM DeletesDestroy == Spec => []OkMeansGone
<1>1. IInv => OkMeansGone
  BY DEF IInv, Destroyed, Cleaned, TextGone, ReactionGone, OkMeansGone
<1> QED
  BY <1>1, Invariance, PTL

=============================================================================
