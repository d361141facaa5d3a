-------------------------------- MODULE Content --------------------------------
(***************************************************************************)
(* api.py: what becomes of one message while its author edits and deletes  *)
(* it, members react to it, and clients fetch it and look at it otherwise  *)
(* (search, a group's last message, a quoted reply, a download).  One      *)
(* action per file the code reads or writes.  What tells the clients to    *)
(* fetch is in UpdateEvents.                                               *)
(***************************************************************************)
EXTENDS Naturals, FiniteSets

CONSTANTS
    Members,                      \* the members the model follows, each with one client
    Edits, Deletes, Reactions,    \* the requests, each a thread
    Original, Blank, None,        \* the text as sent, the empty one, nothing
    MaxFailures                   \* bound on refused writes, removals and restarts

ASSUME ContentAssumption ==
    /\ Cardinality({Original, Blank, None}) = 3
    /\ Edits \cap Deletes = {} /\ Edits \cap Reactions = {} /\ Deletes \cap Reactions = {}
    /\ MaxFailures \in Nat

Requests == Edits \cup Deletes \cup Reactions
VARIABLES
    text, edited,     \* message.txt and edited: who wrote them
    deleted,          \* the tombstone: "no", "claimed" or "stamped"
    rdir, reaction,   \* reactions/ and the reactor's file in it
    blobs,            \* attachments/ has its files
    pc,               \* where each request is
    listed,           \* the reactions a delete's rmtree has listed
    client,           \* what each client is doing
    got,              \* what its fetch has read so far, and then returns
    shown,            \* what its last search, download, ... has returned
    past,             \* history: requests past their check at the claim
    fresh,            \* history: members whose present read began after the claim
    kept,             \* history: what the disk has not let a delete remove
    failures

files == <<text, edited, deleted, rdir, reaction, blobs>>
requests == <<pc, listed, kept>>
clients == <<client, got, shown>>
history == <<past, fresh>>
vars == <<files, requests, clients, history, failures>>

Nothing == [text |-> Blank, edited |-> None, reaction |-> None, blobs |-> FALSE, deleted |-> TRUE]

(***************************************************************************)
(* What render_msg makes of what it has read, and of the tombstone.        *)
(***************************************************************************)
Render(g) == IF deleted # "no" THEN [Nothing EXCEPT !.edited = g.edited]
                               ELSE [g EXCEPT !.deleted = FALSE]
Init ==
    /\ text = Original /\ edited = None /\ deleted = "no"
    /\ rdir = FALSE /\ reaction = None /\ blobs = TRUE
    /\ pc = [t \in Requests |-> "idle"]
    /\ listed = [t \in Deletes |-> None]
    /\ client = [u \in Members |-> "idle"]
    /\ got = [u \in Members |-> Nothing]
    /\ shown = [u \in Members |-> None]
    /\ past = {} /\ fresh = {} /\ kept = [t \in Deletes |-> {}]
    /\ failures = 0

Goto(t, step) == pc' = [pc EXCEPT ![t] = step]

-----------------------------------------------------------------------------
(***************************************************************************)
(* edit_message: the checks, the text, the stamp of the edit.              *)
(***************************************************************************)
EditChecks(t) ==
    /\ pc[t] = "idle"
    /\ Goto(t, IF deleted = "no" THEN "text" ELSE "refused")
    /\ UNCHANGED <<files, listed, kept, clients, history, failures>>

EditWrites(t) ==
    /\ pc[t] = "text"
    /\ text' = t
    /\ Goto(t, "edited")
    /\ UNCHANGED <<edited, deleted, rdir, reaction, blobs, listed, kept, clients,
                   history, failures>>

EditStamps(t) ==
    /\ pc[t] = "edited"
    /\ edited' = t
    /\ Goto(t, "fanout")
    /\ UNCHANGED <<text, deleted, rdir, reaction, blobs, listed, kept, clients, history,
                   failures>>

(***************************************************************************)
(* react: the checks, reactions/, the file in it.  A reaction whose        *)
(* directory went away since is a failed request.                          *)
(***************************************************************************)
ReactChecks(t) ==
    /\ pc[t] = "idle"
    /\ Goto(t, IF deleted = "no" THEN "rdir" ELSE "refused")
    /\ UNCHANGED <<files, listed, kept, clients, history, failures>>

ReactMakesDir(t) ==
    /\ pc[t] = "rdir"
    /\ rdir' = TRUE
    /\ Goto(t, "reaction")
    /\ UNCHANGED <<text, edited, deleted, reaction, blobs, listed, kept, clients,
                   history, failures>>

ReactWrites(t) ==
    /\ pc[t] = "reaction"
    /\ \E on \in BOOLEAN :
        IF on /\ ~rdir
        THEN Goto(t, "failed") /\ UNCHANGED reaction
        ELSE Goto(t, "fanout") /\ reaction' = IF on THEN t ELSE None
    /\ UNCHANGED <<text, edited, deleted, rdir, blobs, listed, kept, clients, history,
                   failures>>

(***************************************************************************)
(* delete_message: the claim of the tombstone, which all but the first     *)
(* lose and none turns back at; then the clean-up, file by file.           *)
(***************************************************************************)
Unfinished == {"text", "edited", "rdir", "reaction"}

ClaimOr(t, loser) ==
    /\ pc[t] = "idle"
    /\ IF deleted = "no"
       THEN /\ deleted' = "claimed"
            /\ past' = {x \in Requests : pc[x] \in Unfinished}
            /\ Goto(t, "list")
       ELSE /\ Goto(t, loser)
            /\ UNCHANGED <<deleted, past>>
    /\ UNCHANGED <<text, edited, rdir, reaction, blobs, listed, kept, clients,
                   fresh, failures>>

ClaimSlip(t) == ClaimOr(t, "ok")
Claim(t) == ClaimOr(t, "list")

ListReactions(t) ==
    /\ pc[t] = "list"
    /\ listed' = [listed EXCEPT ![t] = reaction]
    /\ Goto(t, IF rdir THEN "unlink" ELSE "blobs")
    /\ UNCHANGED <<files, kept, clients, history, failures>>

UnlinkReactions(t) ==
    /\ pc[t] = "unlink"
    /\ reaction' = IF listed[t] # None THEN None ELSE reaction
    /\ listed' = [listed EXCEPT ![t] = None]
    /\ Goto(t, "rmdir")
    /\ UNCHANGED <<text, edited, deleted, rdir, blobs, kept, clients, history, failures>>

RemoveDir(t) ==
    /\ pc[t] = "rmdir"
    /\ rdir' = (rdir /\ reaction # None)
    /\ Goto(t, "blobs")
    /\ UNCHANGED <<text, edited, deleted, reaction, blobs, listed, kept, clients, history,
                   failures>>

DropBlobs(t) ==
    /\ pc[t] = "blobs"
    /\ blobs' = FALSE
    /\ Goto(t, "blank")
    /\ UNCHANGED <<text, edited, deleted, rdir, reaction, listed, kept, clients, history,
                   failures>>

(* ignore_errors: what the disk refuses to remove stays, the delete goes on. *)
Then == [list |-> "blobs", unlink |-> "rmdir", rmdir |-> "blobs", blobs |-> "blank"]
Remains == [list |-> {"reactions"}, unlink |-> {"reactions"}, rmdir |-> {}, blobs |-> {"blobs"}]

RemovalFails(t) ==
    /\ pc[t] \in DOMAIN Then
    /\ failures < MaxFailures
    /\ failures' = failures + 1
    /\ kept' = [kept EXCEPT ![t] = @ \cup Remains[pc[t]]]
    /\ Goto(t, Then[pc[t]])
    /\ UNCHANGED <<files, listed, clients, history>>

BlankText(t) ==
    /\ pc[t] = "blank"
    /\ text' = Blank
    /\ Goto(t, "stamp")
    /\ UNCHANGED <<edited, deleted, rdir, reaction, blobs, listed, kept, clients,
                   history, failures>>

StampSlip(t) ==
    /\ pc[t] = "stamp"
    /\ \E gone \in BOOLEAN :
        IF gone THEN deleted' = "no" /\ UNCHANGED pc
        ELSE deleted' = "stamped" /\ Goto(t, "fanout")
    /\ UNCHANGED <<text, edited, rdir, reaction, blobs, listed, kept, clients, history,
                   failures>>

Stamp(t) ==
    /\ pc[t] = "stamp"
    /\ deleted' = "stamped"
    /\ Goto(t, "fanout")
    /\ UNCHANGED <<text, edited, rdir, reaction, blobs, listed, kept, clients, history,
                   failures>>

(***************************************************************************)
(* The members are told, and the request is answered.  A write that fails  *)
(* before that ends it; what it has written stays.                         *)
(***************************************************************************)
Answer(t) ==
    /\ pc[t] = "fanout"
    /\ Goto(t, "ok")
    /\ UNCHANGED <<files, listed, kept, clients, history, failures>>

Ended == {"idle", "ok", "refused", "failed"}

Fail(t) ==
    /\ pc[t] \in {"text", "edited", "rdir", "reaction", "blank", "stamp", "fanout"}
    /\ failures < MaxFailures
    /\ failures' = failures + 1
    /\ Goto(t, "failed")
    /\ UNCHANGED <<files, listed, kept, clients, history>>

Change(t) ==
    \/ t \in Edits /\ (EditChecks(t) \/ EditWrites(t) \/ EditStamps(t))
    \/ t \in Reactions /\ (ReactChecks(t) \/ ReactMakesDir(t) \/ ReactWrites(t))
    \/ t \in Deletes /\ \/ Claim(t) \/ ListReactions(t) \/ UnlinkReactions(t) \/ RemoveDir(t)
                        \/ DropBlobs(t) \/ RemovalFails(t) \/ BlankText(t) \/ Stamp(t)
    \/ Answer(t)

-----------------------------------------------------------------------------
(***************************************************************************)
(* A client fetches the message: render_msg reads the tombstone last.      *)
(***************************************************************************)
ReadBegins(u) ==
    /\ client[u] = "idle"
    /\ client' = [client EXCEPT ![u] = "read"]
    /\ fresh' = IF deleted # "no" THEN fresh \cup {u} ELSE fresh \ {u}
    /\ UNCHANGED <<files, requests, got, shown, past, failures>>

Fetch(u, step, next, g) ==
    /\ client[u] = step
    /\ client' = [client EXCEPT ![u] = next]
    /\ got' = [got EXCEPT ![u] = g]
    /\ UNCHANGED <<files, requests, shown, history, failures>>

FetchBlobs(u) == Fetch(u, "read", "text", [got[u] EXCEPT !.blobs = blobs])
FetchText(u) == Fetch(u, "text", "reaction", [got[u] EXCEPT !.text = text])
FetchReaction(u) == Fetch(u, "reaction", "edited", [got[u] EXCEPT !.reaction = reaction])
FetchEdited(u) == Fetch(u, "edited", "mark", [got[u] EXCEPT !.edited = edited])
FetchMark(u) == Fetch(u, "mark", "fetched", Render(got[u]))
FetchEnds(u) == Fetch(u, "fetched", "idle", Nothing)

(***************************************************************************)
(* The member's other reads.  A search, a quoted reply and a download look *)
(* at the tombstone and then at the content; a group's last message is     *)
(* read and then hidden.                                                   *)
(***************************************************************************)
Content == IF text # Blank THEN text ELSE IF blobs THEN Original ELSE None

Look(u, step, next, result) ==
    /\ client[u] = step
    /\ client' = [client EXCEPT ![u] = next]
    /\ shown' = [shown EXCEPT ![u] = result]
    /\ UNCHANGED <<files, requests, got, history, failures>>

SearchLooks(u) == Look(u, "read", IF deleted = "no" THEN "content" ELSE "shown", None)
SearchReads(u) == Look(u, "content", "shown", Content)
LastReads(u) == Look(u, "read", "tombstone", Content)
LastLooks(u) == Look(u, "tombstone", "shown", IF deleted = "no" THEN shown[u] ELSE None)

ReadEnds(u) == Look(u, "shown", "idle", None)

Client(u) ==
    \/ ReadBegins(u)
    \/ FetchBlobs(u) \/ FetchText(u) \/ FetchReaction(u) \/ FetchEdited(u) \/ FetchMark(u)
    \/ FetchEnds(u)
    \/ SearchLooks(u) \/ SearchReads(u) \/ LastReads(u) \/ LastLooks(u) \/ ReadEnds(u)

-----------------------------------------------------------------------------
(***************************************************************************)
(* The server stops and starts: running requests end where they are, and   *)
(* the clients begin again.                                                *)
(***************************************************************************)
Restart ==
    /\ failures < MaxFailures
    /\ failures' = failures + 1
    /\ pc' = [t \in Requests |-> IF pc[t] \in Ended THEN pc[t] ELSE "failed"]
    /\ client' = [u \in Members |-> "idle"]
    /\ got' = [u \in Members |-> Nothing] /\ shown' = [u \in Members |-> None]
    /\ UNCHANGED <<files, listed, kept, history>>

Next ==
    \/ \E t \in Requests : Change(t) \/ Fail(t)
    \/ \E u \in Members : Client(u)
    \/ Restart

Spec == Init /\ [][Next]_vars

-----------------------------------------------------------------------------
Steps == Unfinished \cup Ended \cup DOMAIN Then \cup {"blank", "stamp", "fanout"}
Shown == [text : Edits \cup {Original, Blank}, edited : Edits \cup {None},
          reaction : Reactions \cup {None}, blobs : BOOLEAN, deleted : BOOLEAN]

TypeOK ==
    /\ text \in Edits \cup {Original, Blank} /\ edited \in Edits \cup {None}
    /\ deleted \in {"no", "claimed", "stamped"}
    /\ rdir \in BOOLEAN /\ reaction \in Reactions \cup {None} /\ blobs \in BOOLEAN
    /\ pc \in [Requests -> Steps]
    /\ listed \in [Deletes -> Reactions \cup {None}]
    /\ kept \in [Deletes -> SUBSET {"reactions", "blobs"}]
    /\ client \in [Members -> {"idle", "read", "text", "reaction", "edited", "mark", "fetched",
                               "content", "tombstone", "shown"}]
    /\ got \in [Members -> Shown]
    /\ shown \in [Members -> Edits \cup {Original, None}]
    /\ past \subseteq Requests /\ fresh \subseteq Members
    /\ failures \in 0..MaxFailures

(***************************************************************************)
(* What is deleted stays hidden (api.py:646, :837, :935, :965, :1118,      *)
(* :1179): a read that begins after the claim of the tombstone returns     *)
(* none of the message's content, however far the delete has come, whether *)
(* or not it was interrupted or left something on the disk, and although   *)
(* an edit or a reaction that had passed its check may still write content *)
(* back.                                                                   *)
(***************************************************************************)
DeletedIsHidden ==
    \A u \in Members \cap fresh :
        /\ client[u] = "shown" => shown[u] = None
        /\ client[u] = "fetched" => got[u] = [Nothing EXCEPT !.edited = got[u].edited]

(***************************************************************************)
(* A delete that answers ok has destroyed the content, also when it is the *)
(* retry of an interrupted one or has lost the claim to one that is still  *)
(* running (api.py:620-636).  Two things can leave some of it on the disk, *)
(* where nobody is shown it: the disk refused this delete the removal of   *)
(* the reactions or of the attachments, which rmtree ignores (api.py:656), *)
(* or an edit or a reaction was past its check at the claim.               *)
(***************************************************************************)
OkMeansGone ==
    \A t \in Deletes : pc[t] = "ok" =>
        /\ blobs => "blobs" \in kept[t]
        /\ text \in {Blank} \cup past
        /\ reaction \in {None} \cup past \/ "reactions" \in kept[t]
=============================================================================
