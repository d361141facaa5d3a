----------------------------- MODULE NonceSend -----------------------------
(* One client sending one message under one nonce, possibly many times:
   retries, a second device, a request whose answer was lost.  Each request is
   a thread in Store.spool_message; they meet at the nonce file and at the
   staged uploads the message is to consume.  The janitor prunes both, and the
   process can crash between any two steps.

   The id a request mints is the request itself.                             *)
EXTENDS Naturals, FiniteSets

CONSTANTS
    Requests,    \* the requests made under the nonce
    Fids,        \* file ids the client may name
    MaxFaults,   \* bound: disk operations that fail
    MaxCrashes,  \* bound: crashes of the process
    MaxWeeks     \* bound: times the nonce gets seven days old

ASSUME BoundsAssumption == {MaxFaults, MaxCrashes, MaxWeeks} \subseteq Nat
ASSUME SetsAssumption == IsFiniteSet(Requests) /\ IsFiniteSet(Fids)

Absent == "absent"
Empty == "empty"
Errors == {"400", "500", "503", "lost"}
NoAnswer == "none"
ASSUME AnswersAssumption ==
    Requests \cap (Errors \cup {Absent, Empty, NoAnswer}) = {}

VARIABLES
    files,     \* the file ids in the body, the same in every request
    nonce,     \* the nonce file: absent, an empty claim, or the id in it
    age,       \* its age
    staged,    \* uploads in staged/ with their .meta
    incoming,  \* messages in incoming/, or moved on by the router
    built,     \* uploads moved into the message directory of a request
    pc,        \* where the thread of a request is
    answer,    \* what it answers or is about to answer
    pruned,    \* uploads the janitor pruned
    destroyed, \* uploads deleted by a send that failed, or orphaned by a crash
    forgotten, \* messages sent whose id is in no nonce file any more
    faults, crashes, weeks

disk == <<nonce, age, staged, incoming>>
threads == <<built, pc, answer>>
history == <<pruned, destroyed, forgotten>>
env == <<faults, crashes, weeks>>
vars == <<files, disk, threads, history, env>>

Fault == faults < MaxFaults /\ faults' = faults + 1 /\ UNCHANGED <<crashes, weeks>>

Goto(r, where) == pc' = [pc EXCEPT ![r] = where]
Answer(r, a) == answer' = [answer EXCEPT ![r] = a]

Init ==
    /\ files \in SUBSET Fids
    /\ nonce = Absent
    /\ age = "fresh"
    /\ staged \in SUBSET Fids
    /\ incoming = {}
    /\ built = [r \in Requests |-> {}]
    /\ pc = [r \in Requests |-> "idle"]
    /\ answer = [r \in Requests |-> NoAnswer]
    /\ pruned = {}
    /\ destroyed = {}
    /\ forgotten = {}
    /\ faults = 0
    /\ crashes = 0
    /\ weeks = 0

(* Slip: the claim is not exclusive. *)
ClaimAnyway(r) ==
    /\ pc[r] = "idle"
    /\ nonce' = Empty
    /\ age' = "fresh"
    /\ Goto(r, "check")
    /\ UNCHANGED <<files, staged, incoming, built, answer, history, env>>

(* Slip: the id is in the file from the start. *)
ClaimWithId(r) ==
    /\ pc[r] = "idle"
    /\ nonce = Absent
    /\ nonce' = r
    /\ age' = "fresh"
    /\ Goto(r, "check")
    /\ UNCHANGED <<files, staged, incoming, built, answer, history, env>>

(* O_CREAT | O_EXCL: the nonce file is created empty ... *)
Claim(r) ==
    /\ pc[r] = "idle"
    /\ nonce = Absent
    /\ nonce' = Empty
    /\ age' = "fresh"
    /\ Goto(r, "check")
    /\ UNCHANGED <<files, staged, incoming, built, answer, history, env>>

(* ... or was there already: wait for what its claimer makes of it. *)
Wait(r) ==
    /\ pc[r] = "idle"
    /\ nonce # Absent
    /\ Goto(r, "await")
    /\ UNCHANGED <<files, disk, built, answer, history, env>>

(* Slip: the file is taken to be there. *)
AwaitUnhandled(r) ==
    /\ pc[r] = "await"
    /\ nonce # Empty
    /\ Goto(r, "done")
    /\ Answer(r, nonce)
    /\ UNCHANGED <<files, disk, built, history, env>>

(* _await_nonce reads the file up to 100 times. *)
AwaitAnswer(r) ==
    /\ pc[r] = "await"
    /\ nonce # Empty
    /\ Goto(r, "done")
    /\ Answer(r, IF nonce = Absent THEN "503" ELSE nonce)
    /\ UNCHANGED <<files, disk, built, history, env>>

(* Slip: it waits for as long as it takes. *)
AwaitForever(r) == pc[r] = "await" /\ nonce = Empty /\ UNCHANGED vars

AwaitTimeout(r) ==
    /\ pc[r] = "await"
    /\ nonce = Empty
    /\ Goto(r, "done")
    /\ Answer(r, "503")
    /\ UNCHANGED <<files, disk, built, history, env>>

(* Slip: the ids are not validated before the first move. *)
CheckNothing(r) ==
    /\ pc[r] = "check"
    /\ Goto(r, "move")
    /\ UNCHANGED <<files, disk, built, answer, history, env>>

(* Every staged input is looked at before any is moved. *)
Check(r) ==
    /\ pc[r] = "check"
    /\ IF files \subseteq staged THEN Goto(r, "move") /\ UNCHANGED answer
                                 ELSE Goto(r, "release") /\ Answer(r, "400")
    /\ UNCHANGED <<files, disk, built, history, env>>

(* The directory cannot be built: nothing has been moved, 500. *)
BuildFails(r) ==
    /\ pc[r] = "check"
    /\ files \subseteq staged
    /\ Fault
    /\ Goto(r, "release")
    /\ Answer(r, "500")
    /\ UNCHANGED <<files, disk, built, history>>

(* The blob and its .meta are renamed into the message directory. *)
Move(r, f) ==
    /\ pc[r] = "move"
    /\ f \in files \cap staged
    /\ staged' = staged \ {f}
    /\ built' = [built EXCEPT ![r] = @ \cup {f}]
    /\ UNCHANGED <<files, nonce, age, incoming, pc, answer, history, env>>

(* A rename fails: the directory and the uploads moved so far are deleted. *)
Abort(r, lost) ==
    /\ destroyed' = destroyed \cup built[r] \cup lost
    /\ staged' = staged \ lost
    /\ built' = [built EXCEPT ![r] = {}]
    /\ Goto(r, "release")
    /\ Answer(r, "503")
    /\ UNCHANGED <<files, nonce, age, incoming, pruned, forgotten>>

(* ... because the janitor pruned the upload after it was looked at ... *)
MoveGone(r, f) ==
    /\ pc[r] = "move"
    /\ f \in files \ (staged \cup built[r])
    /\ Abort(r, {})
    /\ UNCHANGED env

(* ... or the disk failed, at the blob or between the blob and its .meta. *)
MoveFails(r, f) ==
    /\ pc[r] = "move"
    /\ f \in files \cap staged
    /\ Fault
    /\ \E lost \in {{}, {f}} : Abort(r, lost)

(* The directory goes to incoming/: the message is durable. *)
Spool(r) ==
    /\ pc[r] = "move"
    /\ built[r] = files
    /\ incoming' = incoming \cup {r}
    /\ Goto(r, "publish")
    /\ UNCHANGED <<files, nonce, age, staged, built, answer, history, env>>

SpoolFails(r) ==
    /\ pc[r] = "move"
    /\ built[r] = files
    /\ Fault
    /\ Abort(r, {})

(* The handler of every failure unlinks the nonce, then the error goes out. *)
Release(r) ==
    /\ pc[r] = "release"
    /\ nonce' = Absent
    /\ Goto(r, "done")
    /\ UNCHANGED <<files, age, staged, incoming, built, answer, history, env>>

(* The id is written into the nonce file and answered ... *)
Publish(r) ==
    /\ pc[r] = "publish"
    /\ nonce' = r
    /\ age' = "fresh"
    /\ Goto(r, "done")
    /\ Answer(r, r)
    /\ UNCHANGED <<files, staged, incoming, built, history, env>>

(* ... or, when that fails, the claim is released and the id still answered. *)
PublishFails(r) ==
    /\ pc[r] = "publish"
    /\ Fault
    /\ nonce' = Absent
    /\ forgotten' = forgotten \cup {r}
    /\ Goto(r, "done")
    /\ Answer(r, r)
    /\ UNCHANGED <<files, age, staged, incoming, built, pruned, destroyed>>

-----------------------------------------------------------------------------
(* Time, the janitor and the process.                                        *)

Running(r) == pc[r] \notin {"idle", "done"}

(* An hour or seven days pass for the nonce file.  No request takes an hour. *)
GrowOld ==
    /\ \A r \in Requests : ~Running(r)
    /\ nonce # Absent
    /\ \/ age = "fresh" /\ age' = "hour" /\ UNCHANGED weeks
       \/ age # "week" /\ age' = "week" /\ weeks < MaxWeeks /\ weeks' = weeks + 1
    /\ UNCHANGED <<files, nonce, staged, incoming, threads, history, faults,
                   crashes>>

(* Slip: only files with an id in them are looked at. *)
PruneFilled ==
    /\ nonce \in Requests
    /\ age = "week"
    /\ nonce' = Absent
    /\ forgotten' = forgotten \cup ({nonce} \cap incoming)
    /\ UNCHANGED <<files, age, staged, incoming, threads, pruned, destroyed, env>>

(* _prune_nonces: an empty file after an hour, a filled one after a week. *)
PruneNonce ==
    /\ nonce # Absent
    /\ age # "fresh"
    /\ nonce # Empty => age = "week"
    /\ nonce' = Absent
    /\ forgotten' = forgotten \cup ({nonce} \cap incoming)
    /\ UNCHANGED <<files, age, staged, incoming, threads, pruned, destroyed, env>>

(* _prune_staged: an upload is a day old. *)
PruneStaged(f) ==
    /\ f \in staged
    /\ staged' = staged \ {f}
    /\ pruned' = pruned \cup {f}
    /\ UNCHANGED <<files, nonce, age, incoming, threads, destroyed, forgotten, env>>

(* Requests in progress end without an answer; what they built in tmp/ is
   never looked at again. *)
Crash ==
    /\ crashes < MaxCrashes
    /\ crashes' = crashes + 1
    /\ pc' = [r \in Requests |-> IF Running(r) THEN "done" ELSE pc[r]]
    /\ answer' = [r \in Requests |-> IF Running(r) THEN "lost" ELSE answer[r]]
    /\ built' = [r \in Requests |-> IF r \in incoming THEN built[r] ELSE {}]
    /\ destroyed' = destroyed \cup UNION {built[r] : r \in Requests \ incoming}
    /\ forgotten' = forgotten \cup {r \in Requests : pc[r] = "publish"}
    /\ UNCHANGED <<files, disk, pruned, faults, weeks>>

Step(r) ==
    \/ Claim(r) \/ Wait(r) \/ AwaitAnswer(r) \/ AwaitTimeout(r) \/ Check(r)
    \/ Spool(r) \/ Release(r) \/ Publish(r)
    \/ \E f \in Fids : Move(r, f) \/ MoveGone(r, f)

DiskFails(r) ==
    \/ BuildFails(r) \/ SpoolFails(r) \/ PublishFails(r)
    \/ \E f \in Fids : MoveFails(r, f)

Next ==
    \/ \E r \in Requests : Step(r) \/ DiskFails(r)
    \/ GrowOld \/ PruneNonce \/ Crash
    \/ \E f \in Fids : PruneStaged(f)

Spec == Init /\ [][Next]_vars

(* A request that has begun is run to its end, hours pass and the janitor
   comes by every hour. *)
Fairness == /\ \A r \in Requests : WF_vars(pc[r] # "idle" /\ Step(r))
            /\ WF_vars(GrowOld) /\ WF_vars(PruneNonce)

FairSpec == Spec /\ Fairness

-----------------------------------------------------------------------------
TypeOK ==
    /\ files \subseteq Fids /\ staged \subseteq Fids
    /\ nonce \in Requests \cup {Absent, Empty}
    /\ age \in {"fresh", "hour", "week"}
    /\ incoming \subseteq Requests
    /\ built \in [Requests -> SUBSET Fids]
    /\ pc \in [Requests -> {"idle", "await", "check", "move", "release", "publish",
                            "done"}]
    /\ answer \in [Requests -> Requests \cup Errors \cup {NoAnswer}]
    /\ pruned \subseteq Fids /\ destroyed \subseteq Fids
    /\ forgotten \subseteq Requests
    /\ faults \in 0..MaxFaults /\ crashes \in 0..MaxCrashes /\ weeks \in 0..MaxWeeks

(* Retries do not duplicate: of the messages sent under a nonce, at most one has
   not been forgotten, and a message is forgotten only when the nonce file
   expires after a week, cannot be written, or the process dies before it is. *)
AtMostOnce == Cardinality(incoming \ forgotten) <= 1

(* 200 means durable and whole: the answered id, whoever minted it, is of a
   message in incoming/ with every attachment the client named. *)
AcknowledgedIsSent ==
    \A r \in Requests : answer[r] \in Requests =>
        answer[r] \in incoming /\ built[answer[r]] = files

(* A bad or expired id in the list costs the client none of its other uploads,
   as long as no rename fails and no upload expires during the send. *)
BadIdDestroysNothing == faults + crashes = 0 /\ pruned = {} => destroyed = {}

(* An empty claim does not block the nonce for good, whoever left it. *)
ClaimEnds == nonce = Empty ~> nonce # Empty

(* Every request is answered, also while it waits for another one's claim. *)
Answered == \A r \in Requests : Running(r) ~> pc[r] = "done"

-----------------------------------------------------------------------------
(* What API.md says and the code does not keep.                              *)

(* "Same nonce retried: same id back, no duplicate." *)
SameNonceSameMessage == Cardinality(incoming) <= 1
=============================================================================
