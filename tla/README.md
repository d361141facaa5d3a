# Internal chat server: TLA+ models, checks and proofs

The server (`src/internalchat`) keeps all of its state in files below one data
directory. HTTP handler threads (`api.py`, `store.py`), one router thread and one
janitor thread (`router.py`) share that directory; a step of any of them is a
rename, a symlink, an unlink or a small write, and between two steps the others
may run or the process may die. The models take one action per such step.

## The system

| component | state it keeps | operations | what makes it correct |
|---|---|---|---|
| spool and id clock (`store.py`) | `id_hwm`, `tmp/`, `incoming/`, `users/<u>/nonces/` | `next_ts`, `next_mid`, `spool_message`, `spool_system`, `_await_nonce` | a 200 is durable; one message per nonce; ids and join stamps from one clock |
| router (`router.py`) | `_unfinished`, `groups/<g>/<day>/<mid>`, `.routed`, `rejected/` | `drain`, `_retry_unfinished`, `_route`, `_finish`, `_bounce`, `_recover` | every accepted message is stored once and reaches every recipient, or its sender is told |
| janitor (`router.py`) | ages of files | retention, prunes, member-less groups, quota recount | removes only what is expired; never harms work in progress |
| queue API (`api.py`) | `users/<u>/queue/*`, `deliveredto/`, `readby/`, `_handed` | `list_queue`, `peek`, `confirm`, `viewed`, `_stamp` | an entry is retired only when the client has what it stands for; read implies delivered |
| membership (`api.py`, `store.py`) | `groups/<g>/members/*` | `create_group`, `ensure_dm`, `modify_members`, `can_see` | nothing from before a join, or after a leave, is shown |
| message changes (`api.py`) | `message.txt`, `edited`, `deleted`, `reactions/` | `react`, `edit_message`, `delete_message`, `_fanout_event` | no change is lost; what is deleted stays deleted |
| uploads and quota (`api.py`, `store.py`) | `staged/`, `storage_used` | `upload`, `upload_thumb`, `reserve_storage`, `recount_all_storage` | the counter never falls below the bytes on disk |
| sessions, roster (`store.py`, `roster.py`) | `sessions/*`, the passwd file and its cache | `login`, `session_user`, `change_password`, `set_password` | revocation reaches issued tokens |
| limiter, polls (`ratelimit.py`, `notifier.py`) | hit lists, parked polls, conditions | `check`, `sweep`, `wait`, `notify` | bounds hold; no wake-up is lost for longer than a second |
| HTTP server (`server.py`) | `_conn_slots` | `process_request`, `_handshake` | every connection gives its slot back |
| command line, helpers | none of their own | parsing, ranges, static files | only `cmd_passwd` is modelled |

API threads and the router meet only at the file system: `incoming/` (a message is
handed over by a rename and the `wake` event), `members/` (read by the router,
written by requests), and the queues (linked by the router and by `_stamp` and
`_fanout_event`, unlinked by `confirm`, `peek`, the leave sweep and the janitor).
Hard are the windows between two of these steps: a membership that changes during
a fan-out, a crash in it, a disk that fails for one recipient, retries of a send,
an update event that is confirmed while it is stamped again. `PROJECT.json` lists
them at their lines under `hazards`.

## Modules

| module | models | runs |
|---|---|---|
| `Delivery`, `MCDelivery` | one group: `send`, `modify_members`, `peek`, `confirm`, the whole router, retention, crash and restart | `delivery_safety`, `delivery_recovery`, `delivery_join_stamp` |
| `Mailbox`, `DeliveryMailbox` | what delivery promises the members, and how `Delivery` implements it | `delivery_recovery` |
| `NonceSend` | `spool_message` and `_await_nonce` under one nonce, with the janitor's prunes | `nonce_send` |
| `Membership`, `MCMembership` | `create_group`, racing adds and leaves, the join gate of all reads, the id clock and its floor | `membership` |
| `UpdateEvents`, `MCUpdateEvents` | `_fanout_event`, the hand-out of update entries by polls, `confirm` of them | `update_events` |
| `Content`, `MCContent` | `edit_message`, `react`, `delete_message` against each other and against what reads show | `content` |
| `Ticks`, `MCTicks` | `confirm`, `viewed` and `_stamp`, the ticks of a sender | `ticks` |
| `Quota` | `upload`, the attachments of a send and of `delete_message`, the janitor's prunes and `recount_all_storage` | `quota` |
| `Sessions`, `MCSessions` | `login`, `session_user`, `change_password`, `cmd_passwd`, the user file and its cache | `sessions` |
| `RateLimiter`, `MCRateLimiter` | `check` and `sweep` | `limiter` |
| `Polls` | connection slots, `list_queue`, `Notifier` | `polls` |
| `DeliveryProofs`, `NonceProofs`, `MembershipProofs`, `SessionsProofs`, `ContentProofs`, `QuotaProofs` | theorems about the module of that name (`NonceSend` for the second); `DeliveryProofs` has the refinement too | |
| `LimitsProofs`, `QueueProofs` | theorems about `RateLimiter` and `Polls`, and about `Ticks` and `UpdateEvents` | |

Two modules whose theorems share a module cannot both have an `Init`: `RateLimiter` and `UpdateEvents` prefix the
names that every specification has (`LimiterInit`, `EventsSpec`, ...).

The modules share directories, not variables: each takes the others' effect on its files as
actions of its own (`Ticks` has `Archive`, `Content` leaves to `UpdateEvents` what tells
a client to fetch, `Delivery` draws ids the way `Membership` shows them to be
ordered). Where two parts interact closely they are one module: the router with membership
and queues, sends with the janitor's prunes, uploads with the recount, polls with connections.

A definition named as a "Slip" is a wrong variant of the one that follows it. No
specification uses it; it is there to show that the properties of the runs notice
such a bug (`mutants` in `PROJECT.json`).

### Delivery

A message id is the number the shared clock gave it, so ids and join stamps
compare as the code compares them. `place` says in which directory a message is;
`routed`, `delivered`, `queue`, `members`, `joined` are the marker files, `home` the
accounts that are provisioned. The router's program counter `pc` follows
`_route` → `_finish`: `move`, `dirs`, `fan`, and `park`, `tell` for `_bounce`; `phase` and
`work` are the loop it is in (`_recover`, `_retry_unfinished`, the listing of
`incoming/`), `mem` and `todo` the member list it read and the recipients left. Each
API request takes separate steps where others can come between: a send is minted and
then renamed (`Send`, `Spool`); an add checks, draws the stamp, writes the marker and
announces (`AddCheck`, `AddDraw`, `AddWrite`); a leave announces, unlinks and sweeps.
A disk operation of the router fails at a `Fault` site; `Crash` loses what is in
memory and in `tmp/` and starts `_recover`.

Four history variables make the guarantee precise: `since` is the value of the
clock when a marker was written (`joined` is what is in it), `skipped` the links
`queue_add` gave up on when it could not provision an account, `swept` the entries a
leave sweep removed, and `stranded` the stored messages without `.routed` that the process
has let go of.

Simplified: a membership check and the minting of the id are one step, as are an
announcement's minting and spooling and all of `confirm`; a user runs one membership
request at a time; days without messages are not counted; a message's `to` names an
existing group, its id was never routed before (`_route`'s duplicate branch) and the
accounts stay on the roster.

What the runs show. `delivery_safety` has two founders and a third account without
a directory, three stamps (three messages, or two and a join) and one failing operation
at any of the eight sites: `RoutedMeansQueued`, the contract of `.routed`,
`BouncedForCause`, `StoredStaysStored`, `NoRepush`. (A bounced sender may be a member again, with a
marker not older than the message: two members who add them at once draw two stamps, and the
message may lie between the two writes.) `delivery_recovery` has a founder
and an account that may be added, three stamps over three days with retention, two failures among the mkdirs, the
links and `.routed`, an `_unfinished` of one, and one crash at any step (425 665 states): `NothingForgotten`, and under
fairness `AcceptedIsRouted` and `RejectionIsTold`. Three messages on three days are what it takes for an
unfinished one to fall out of the two day folders that `_recover` scans, and two failing links for
`_unfinished` to overflow.

`NothingForgotten` and `AcceptedIsRouted` say exactly when the code leaves a stored message to a later restart, or for
good (`stranded`): an exception in `_finish` outside of its loop, at the mkdirs or at `.routed`; a message that finds
`_unfinished` full; and a restart when the group has two newer day folders. A restart takes up again what the first two
left, within its two days. The comments of `_retry_unfinished` concede the second and the third.

Fairness: the router loop runs on its own thread, catches every exception and waits
at most two seconds, so a `RouterStep` that stays possible is taken. Nothing is assumed of users, requests, the
janitor, faults and crashes. The failure of a step on an archived message counts as a router
step, because it is what the code does then, not a failing disk.

`RecipientsArePushed` states what documents say and the code does not keep; the run
`delivery_join_stamp` finds the counterexample: a join stamp is drawn before its marker is visible.
A message minted and routed in between is newer than the stamp, so the new member counts as
its recipient, but it is never pushed to them. (`RoutedMeansQueued` is the guarantee with
the time of the marker in place of the stamp.)

`RejectionIsTold` exempts a crash between the rename into `rejected/` and the `~x~` entry:
nothing rescans `rejected/`, so that sender is never told.

### Mailbox, and how Delivery implements it

`Mailbox` forgets spool, router, queues and recovery. A message has a status; it is `due` to
those who have been members without a break since before it was posted; it is `waiting` for a
user, `taken` by a confirm, or `lost`. `Settle` has the promise as its guard; there are two ways
to lose a message, `Miss` (the mailbox of a user who never had one cannot be opened) and
`Sweep` (a leave sweep that comes late upon a new membership); a push only comes before
`Settle`; what is stored is never refused; a restart abandons what is not accepted and
every sweep. `DeliveryMailbox` maps the files to it: `StatusOf` from the directory a message is in
and `.routed`, `DueTo` from the markers, `BoxedFor` from the queues. What is in a queue counts as
long as its message is in the group, since a poll drops dangling entries.

`ImplementsMailbox` is checked in `delivery_recovery`, where crashes, retries, failures and
retention occur, and proved for everything else. On the instance of `delivery_safety` it is out of
reach of a five-minute run.

### NonceSend

The requests a client makes under one nonce, each a thread in `spool_message`; the
id a request mints is the request. `nonce` is absent, an empty claim, or an id. Uploads
move one by one from `staged` into the message being `built`; a failing rename deletes
them (`Abort`), a crash orphans them in `tmp/`. `forgotten` names the sent messages whose
id is in no nonce file: it expired after seven days, could not be written, or the
process died first. `AtMostOnce` says these are the only ways to a duplicate.

`nonce_send` has three requests, two uploads that may or may not be named and staged,
one failure, one crash and one expiry: three requests let one crash, one wait and one
succeed. Fairness: a request that has begun runs on, hours pass, the janitor comes by.
No request takes an hour (`GrowOld`): the only waiting in one is the second of
`_await_nonce`. The duplicate that a crash before the id is written makes possible an hour
later is a counterexample to `SameNonceSameMessage` (`NonceDuplicate.cfg`).

### Membership

One group from `create_group` on. A message is the number of its minting and `id` what the clock
gave it, so that the order of mintings and the order of ids can be compared. `Draw` is `next_ts`
under a wall clock that may show anything at any time; the write of `id_hwm` may fail.
`Restart` begins with the larger of `id_hwm` and `_clock_floor`, which looks at the join stamps
and the stored messages. An add takes four steps: `AddCheck` (the size, the marker),
`AddDraw`, `AddOpen` (`write_text` creates or empties the file) and `AddWrite`; a leave in
between leaves the writer with an unlinked file (`orphan`). A read takes the two looks of
`can_see` and its kin: `IsMember`, `JoinedAt` (which falls back to the file's time for a
marker without a stamp, and to 0 without a marker), then `Show`.

`GateIsExact` is what a join stamp is for: in the marker of a member, it separates the messages
minted before it was drawn from those after. The history variable `base` is that number.
`stray` names the exception, messages that were in `incoming/` at a restart that set the clock
back, where the floor does not look. `ReadsAreGated` says the same of what a read shows, for
reads whose reader's marker stayed as it was (`disturbed`): a leave between the two looks opens
the gate. `OvershootBounded` bounds what racing adds can exceed the cap by.

`membership` has one founder and three others, two adds (two are a race, and the overshoot of
one), one leave, two messages (one on each side of a join), a clock of four, one lost write and
one restart. Left out: `ensure_dm` (a group of two, created as `create_group` does), groups that
the janitor archives when they have no members, several groups.

### UpdateEvents

One message, one actor: every change shares the entry `<mid>~u~<actor>` of each member.
`link` is its stamp, `handed` the table `_handed`, which the devices of a user share. A changing thread (a request of
one of the actor's devices) goes through the members by `FanLink` (`queue_add`), `FanRead` (the clock and `lstat`) and
`FanStamp` (`utime`); between any two of them a confirm may unlink the entry (`FanGone`). A device reads the stamp (`Poll`),
notes it and answers (`HandOut`), and confirms in steps: `LookEntry`, then `_superseded` as `ReadNote` and `Compare`, then
`Unlink` and `Forget`. What may go wrong: an OSError that `_fanout_event` passes over (`FanRefused`), an account that
`queue_add` gives up on (`FanGivesUp`), a request that ends in mid-fan-out (`FanFails`), a full table of hand-outs
(`HandOutFull`, with the shedding of notes whose entry is gone), an answer or a confirm that does not arrive (`Drop`), a restart.
`Float` is what `st_mtime` keeps of a stamp: `Ulp` nanoseconds fall into one value (238 in 2026; two in the runs, since
only "one is less than a float step" matters). A reading of the clock takes at least a float step.

`StaleIsTold`: a user to whom no device has been handed the latest change (`shown`) has the entry, or a fan-out will come
to them, or is in `missed`. That set is the list of ways in which this code loses a change, each of them a step of the model:
the fan-out was cut off, or refused, or found an entry that a confirm then unlinked before the re-stamp; the stamp was given
between the comparison and the unlink of a confirm; the stamp was not the latest (of two changes the one stamped first is set last)
or came after a step of the clock, and is no newer than a note; or a confirm had no note, because another device's confirm, a restart or
a full table took it. The next change that is stamped in time takes the user out of it. `missed` is computed from what was in the
files and notes when the stamp was set or the entry unlinked, never from `shown`, so the property fails as soon as
`confirm` loses a change in any other way. A hand-out counts as told: the client fetches the state after the answer, and a lost answer is
handed out again as long as the entry is there, which is the case until somebody confirms.
`QueueDrains` says the refusal to confirm never leaves an entry for good. Fairness: clients poll and confirm, requests
run to their end.

`NewerChangeIsKept`, the same without `missed`, is what the docstring of `_superseded` and `API.md` promise. It fails with two
devices, one changing thread and no failure or clock step (`UpdateNewer.cfg`): one device's confirm clears the note of
the stamp that the other was handed, a change is stamped, and the other's confirm retires it.

`update_events` has one user with two devices, two changing threads, two changes, a clock step and two failures
(624 478 states). Three changes (six to seven million states) and two members (14 million) were run by hand. Left out: the janitor's sweep of dangling
links in a queue, which finds them only once the message is archived, and the pages of a poll.

### Content

One message of one author. `text`, `edited`, `deleted`, `rdir` with `reaction` in it and `blobs` are its
files; edits, deletes and reactions are threads that read or write one file per action
(`pc`), and are answered after their fan-out, which is in `UpdateEvents`. The tombstone is `claimed` by an exclusive
create and `stamped` at the end; a delete that loses the claim does the clean-up as well, which is
how a retry resumes an interrupted one. The clean-up lists `reactions/`, unlinks what it listed and removes the directory, then
takes the attachments. `rmtree` ignores its errors, so any of these may be refused without ending the delete
(`RemovalFails`); `kept` names what was. `Fail` is a failing write, which ends the request, `Restart` ends all requests.
Clients fetch file by file in the order of `render_msg`, which looks at the tombstone last
(`FetchMark`); the member's other reads are `SearchLooks`/`SearchReads` (tombstone
first: search, quotes, downloads) and `LastReads`/`LastLooks` (content first: a group's last message).

`DeletedIsHidden` is about reads that begin after the claim (`fresh`), and holds whatever is left on the disk; `OkMeansGone` about what is
left there once any delete has answered: what the disk refused this delete to remove, and what requests past their
check at the claim (`past`) write back.

`content` has one edit, one reaction, two deletes, one member and two failures (7 232 703 states): an edit and a
reaction race a delete and its retry, and a delete may keep both the reactions and the attachments. Left out: several reactors,
`upload_thumb`'s previews; an unread message is fetched by the same `render_msg`.

### Ticks

The messages of one sender, and requests with a batch each. `flags` is `deliveredto/` and `readby/`,
`ticks` the `~d~` and `~r~` entries the sender's queue was given, `entries` the message entries
of the others. `confirm` looks, stamps `d`, unlinks; `viewed` looks (`can_see`), looks at
`readby/`, stamps `d` nested and only then `r`. `_stamp` is three steps: `StampLooks`, `StampTouches`
(the flag), `StampTells` (the entry). A message that retention moved away in between raises
`FileNotFoundError`, and the batch goes on (`Vanished`); any other error ends the request
(`StampFails`). A sender who is off the roster, or whose queue cannot be made, gets no tick, and the request goes on
(`StampGivesUp`).

`ReadImpliesDelivered` relates both directories and both entries; `FlagsAreTold` says that a flag,
which suppresses its tick from then on, has been told unless a crash, the disk, the archive or a sender
without a queue took the tick (`lost`); `ReceiptsAreKept` that an archived message costs the rest of its batch nothing.

`ticks` has one recipient, two messages, two requests, one leave, one archived message and one
failure or crash (3 250 313 states): two devices race on one message, or one archived message sits in a
batch of two. The messages of the server are left to an instance run by hand with
`System = {m2}` (719 014 states).

### Quota

The counter of one user, with uploads and previews (`Thumbs`) of one byte each. `place` says where the bytes
of an item are: in `tmp/`, in `staged/`, or in a message, whose directory is `msg`; `thumb` is the
preview an upload's `.meta` names, `on` the upload a preview is for; the
requests are threads whose steps are `upload`, `wants` (a send) and `del`, and `jan` is
the janitor between the reads of one file and the next: `PruneLook`, `PruneUnlink`,
`PruneCredit`, then `CountStaged`, `CountIncoming` (under `_route_lock`), `CountGroups`,
`CountRejected`, `WriteTotal`. The walk of one directory is one step; a blob and its `.meta`
move together, and with them the preview if the `.meta` names one. `upload_thumb` checks, reserves, links,
reads the `.meta` and replaces it, one step each, so that a send or a prune may come between any two: the
`.meta` may be written back after the upload is gone (`PruneMeta` reclaims it), the preview left behind.
What a crash leaves in `tmp/` for an hour is left out.

Two history variables say when the counter may be short. `overlap`: something was charged
or deleted while the present sweep counted. `drift`: such a sweep has written its total, or
a `.meta` or an `rmtree` failed, and no sweep that ran alone has followed. `drift` also names two
effects of a preview the janitor pruned before its upload: the `.meta` still names it, so that the delete of the message
credits it again, or a later preview goes with the message although its request gives the bytes
back. It takes a send of a day-old upload between two unlinks of one sweep. `CounterCovers`
is the counter's promise outside of these, through parallel reservations, aborted sends,
racing deletes and crashes. `RecountExact` is the sweep's own: it is exact while the router
moves messages under it. `DriftEnds` is the comment above `storage_used`, that drift costs an
interval of the janitor.

`PreviewMatches` is why `upload_thumb` claims the name with `os.link`, and the send moves a preview only
when the `.meta` it has moved names one: what a message serves is what its `.meta` describes. The proof of it
corrected the model: a `.meta` written back after the send took the upload (`Record`) is a new file in `staged/`, and
does not change the one in the message, which matters as soon as there are three previews.

`quota` has a quota of two, a message that takes one upload or both, one failure and one crash, and the
requests of one of two `Cases`: two uploads, with one staged file allowed (parallel uploads pass that check
together), and two deletes; or one upload, two previews of it and a delete. Fairness: a request that has begun runs on (sockets time
out), and the janitor, whose loop catches every exception, sweeps; nothing is assumed of its
prunes. That the quota itself can be exceeded needs no failure (`QuotaHolds`, `QuotaOvershoot.cfg`):
a recount that runs while an upload streams counts neither its bytes nor its reservation.

### Sessions

`file` is the user file, `stamp` what `stat` tells versions of it apart by, `cache` the
tuple `Roster._cache`, `holder` the owner of the sidecar lock. A password is the number of
times it has been set. Logins, authenticated requests (which may turn out to be a password
change) and resets from the command line are threads; `looked` is the stamp one got from
`stat`, `view` the entries it read, `passed` says that `session_user` let it through, `todo`
which markers its sweep has listed. A look at the roster is `Stat`, then `UseCache` or `Parse`
and `Store`, each a step, since no lock protects the cache; `Parse` is possible at any time,
which covers `STALE_AFTER`. A rewrite is `Lock`, `Read`, `Replace`. `Edit` is an operator who
disables or enables an account; it always changes the stamp (its inode, size and time in
nanoseconds make that so).

The history variables say which password a session was issued for (`issued`) and which its
account had when the marker was made (`born`), which one a writer has set (`set`), and whose
account has been disabled ever since the request began (`banned`). `RevocationReaches` is the
promise of `session_user` against a cache that another thread fills with old entries: the
old entries come with their old stamp. `ChangesStick` needs the lock and the read behind it;
`SweepIsComplete` says what a sweep achieves when sessions come and go under it.

`sessions` has two logins, one authenticated request, one reset (of the same or of another
account), two edits (one to disable, one to enable again) and one restart; two writers are
enough for a lost update and two markers for a listing that changes. A login that verified the
old password may touch its marker after the sweep listed the sessions: `OtherSessionsEnd` fails
without any edit or crash (`SessionsLate.cfg`).

Left out: wrong passwords and unknown users, which change nothing; the `must-change` flag;
unreadable files, which deny everyone; `add_entry` and the size cap; the second look of
`verify_password` for the cost of a hash, which fills the cache as any other look does. A hand
edit is one rename, so one made between `Read` and `Replace` is lost, as `_lock` documents.

### RateLimiter

An admission is its number in `log`; the list of a key is the set of its admissions that the
limiter still knows. `Begin` reads the clock before the lock, `LimiterCheck` is what happens under
it, so readings enter the lists out of order. The history variables are `seen`, the newest reading that
pruned a key's list, and `overtaken`, the keys that admitted a check older than it.

`WindowHolds` is the limit per window, through evictions and sweeps; `TableBounded` the bound of the
memory; `RefusedForCause` says a 429 for a full table means that every key in it is recent, so an
idle key shuts nobody out for longer than `EVICT_INTERVAL`. `limiter` has two keys for a table of one,
two threads, a limit and a window of two and a clock of four: enough for a window to pass, an
eviction to be due and one check to be overtaken. A larger instance (5.7 million states) was run
by hand.

### Polls

`free` is the semaphore of connections, `polls` the count per user, and each connection has a thread
that is in the accept loop, the handshake, between requests, or in `list_queue`: `Look`, `Park` (the cap),
`Pass` (the roster), `Check` (the queue, who is typing), `wait`, `Unpark` (the finally). `looks` counts
the looks at a queue since the user was revoked. Writers link first and notify later (`unnotified`);
a notify finds whoever is in `wait` at that moment. A thread may fail to start, which leaks its slot
(`leaked`), and the queue may be unreadable (`CheckFails`).

Fairness: a thread runs, and `Condition.wait` comes back after a second at most
(`notifier.py:21-24`); a deadline, a client or a writer need never come, and no notify is
assumed. `ParkedPollsEnd` therefore shows that the lost wake-up costs a second and nothing more.
`polls` has two connections of one user with a cap of one; three connections were run by hand.
Left out: what a poll answers, request parsing, TLS itself.

### Counterexamples

Six statements one might expect, and which the code does not keep, are kept with their
configurations: `UnfinishedIsRetried` (`DeliveryRetried.cfg`:
an exception in `_finish` outside its loop leaves a stored message that is not in `_unfinished`;
the next start heals it), `SameNonceSameMessage` (`NonceDuplicate.cfg`), `NewerChangeIsKept`
(`UpdateNewer.cfg`), `QuotaHolds` (`QuotaOvershoot.cfg`), `KeyImpliesFile` (`QuotaPreview.cfg`: a message whose `.meta` names
a preview that is pruned), `OtherSessionsEnd` (`SessionsLate.cfg`). Run
`tlc -config <cfg>` on the module's `MC` module where there is one, to see them.

The `TypeOK` of the modules whose configuration does not list it was checked in the same instance, and
is proved for all of them but `UpdateEvents`, for which `EventTypes` proves it without the bounds.

## Proofs

Every theorem is about all values of the constants that the assumptions allow. Few of the properties are
inductive; each proof module defines, at its head or before the theorem, what has to be known besides, and
has one step per action in the lemma that it is kept.

### Delivery

`TypeOK`, `RoutedMeansQueued`. The invariant `IInv` adds
`Clock` (stamps in markers and requests come from the clock and a marker is written
after its stamp), `Minted`, `Listed` (where the messages of the router's lists are),
`Current` (where its current message is, and that its snapshot of the members holds
everyone who was a member before the message) and `FanOut` (every such member is still to
be visited, has the message, or the fan-out is known to be incomplete). `FanOut` and
`todo = {}` give `RoutedMeansQueued` at `Mark`; a user who is added during the fan-out has
a marker younger than the message, which is why `since` and not `joined` appears. The
lemmas `ApiStep`, `RouterLoopStep` and `SystemStep` have one step per action and under it
one per conjunct that the action can disturb.

`BouncedForCause` needs `Caused`: a message about to be parked has a sender who was found to be no
member (`Foreign`), and that stays true because a marker written later gets a stamp that is not older.
`StoredStaysStored` follows from `IInv`, which says that the router moves only messages it has listed.
`NoRepush` needs `Traces` (queues name only stored messages) and `Untold`: whom the drain has still
to link has neither the entry nor confirmed it, because a link is the only way to an entry
(`OnlyLinks`) and an entry the only way to a confirm.

`NothingForgotten` is inductive together with `IInv`, which says that the router's lists name messages that are stored
or in `incoming/` (`Listed`) and that the message at hand is where its step expects it (`Current`). `KeptStep` follows one stored
message through every action: the router's own steps hand it from the listing to the fan-out and on to `.routed`,
`_unfinished` or `stranded`, and after a crash it is either in the listing of `_recover` or outside of the two newest days. No
assumption on failures, retention or the size of `_unfinished` is made.

`Refinement`: `Delivery!Spec` implies `ImplementsMailbox`. The initial states
map to the initial one, and under the invariant every action maps to one action of `Mailbox` or
to none (`ApiMaps`, `RouterMaps`, `SystemMaps`; `Quiet` covers the steps that nothing
mapped looks at, `MovesOn` and `Mints` the moves and the mintings). It needs `IInv`,
whose `FanOut` gives the guard of `Settle`, `Traces`, so that a message enters its place in the group
with nothing waiting, and `Fresh`: the router works on no message that is routed, and not for its sender, so that every
push comes before the settlement. `PromiseKept` is the promise of the mailbox, read of `Delivery` itself
through the mapping.

### Sends and membership

`NonceProofs`: `TypeOK`, `AtMostOnce`, `AcknowledgedIsSent` and `BadIdDestroysNothing`, for
any number of requests, uploads, failures, crashes and expiries. The invariant says
what a request has done at each of its steps (`Progress`), that at most one is between its
claim and its answer, with an empty nonce file too young to be pruned (`Exclusive`), that a
message not forgotten has its id in the file or a claimer about to write it (`Recorded`), and
that the uploads the claimer has looked at stay staged until it moves them (`Kept`). Two
messages would need two claims, and the first one's id in the file rules the second out.

`MembershipProofs`: `TypeOK`, `GateIsExact`, `OvershootBounded` and `ReadsAreGated`. A stamp is in use as a marker, in an add
that has yet to write it, or in a group under construction (`Drawn`); the invariant says of every
such stamp that it separates the messages (`AllExact`) and that the clock is ahead of it and of every
message not stranded by a lost high-water mark (`Ahead`), so that a new stamp lies after all there
are, and after a restart too. The overshoot is bounded because members, and adds past their check,
are together at most the cap and the number of adds less one (`CapInv`). A read carries the stamp it took away from the
marker, which may be gone since; `ReadInv` says that an undisturbed read's gate is as exact as the stamp was, and
`ExactStays` that exactness outlives the marker as long as the process does: later messages get larger ids.

### Sessions and content

`SessionsProofs`: `RevocationReaches`, `ChangesStick`, `SweepIsComplete`. `Fresh` says that who has read the user file
under the current stamp has the current file, in its hands or in the cache; `Revoked` that all a request of
a disabled account can still come to read, its own view, the cache under the stamp it looked up, and what other threads
are about to store there under that stamp, says disabled. A look at an old stamp is harmless because no `Parse`
ever pairs old entries with a new stamp. `Exclusive` is the lock: between `Read` and `Replace` a writer's copy knows
the password last set for every account. `Swept`: after the listing, an old marker that is left is still to be unlinked.

`ContentProofs`: `DeletedIsHidden`, `OkMeansGone`. `Hidden` follows a member's read from its first look;
`Destroyed` says what a delete has cleaned by each of its steps (`Cleaned`), but for what the disk refused it, and that whoever writes it
back had passed the check before the claim (`past`), also when two deletes clean in parallel.

### Quota

`QuotaProofs`: `TypeOK`, `PreviewMatches`, `RecountExact` and `CounterCovers`, for any uploads, previews, sends, delete
requests, faults and crashes. TLC checked `IInv` first, with two uploads and two deletes, and with three previews.

- `Located`, `Targets`: where the bytes of an item are for what its request is at; what is expired, or in a message, has no upload
  running.
- `Paired` gives `PreviewMatches`: of the previews of an upload one at most is staged, who is to write the `.meta` still
  has its preview there or comes after the send, and the one a `.meta` names is there as long as the upload is, or expired.
- `Quiet`, `Seen` and `Tallied` give `RecountExact`. While a sweep is not overlapped no request is where it could charge or
  delete; a message the janitor has not counted is in a directory it has still to read (messages move only forward through
  `incoming/`, `groups/`, `archive/` and `rejected/`, and `_route_lock` keeps them in place while `incoming/` is read); and the total is what is
  staged and what is attached to the counted messages. At `WriteTotal` every message with bytes is counted (`TotalIsExact`).
- `Settled` gives `CounterCovers`. The counter covers more than is on disk: reservations to be
  released, what the janitor has unlinked and will credit, and what deletes have removed and will credit. The last is
  the hard part, since a credit is a number that was read before the tombstone was claimed. `Covers(o)` has a
  witness for it: `o[m]` are the bytes removed with message `m`, no byte in two of them, and the one request that
  credits `m` (`Claims`: the tombstone is exclusive) credits no more than `o[m]` and what is still attached to `m` (`Backed`).
  Each credit then takes off the counter at most what stops being charged (`CreditCovers`), and only a reservation
  adds a charge (`ChargedShrinks`). A recount that nothing overlapped starts it anew (`WriteCovers`).

### Ticks and update events

`QueueProofs` has both.

`Ticks`: `ReadImpliesDelivered`, `FlagsAreTold`, `ReceiptsAreKept`. Together they are inductive with four
facts about a request at work (`Sound`): a read marker is stamped after the delivery marker only
(`DeliveredFirst`), who is about to tell has set the flag (`ToldIsSet`), what a viewed request has seen and not
archived is marked or is what it works on (`SeenIsMarked`), and an entry is unlinked after its delivery is on disk
(`UnlinksDelivered`). Flags are never removed, so other requests cannot disturb these (`OthersStay`).

`UpdateEvents`: `StaleIsTold`, for any number of members, devices, changing threads, changes, clock steps and failures. The
invariant has four parts. `Distinct`: the changes on their way have different numbers. `Guarded`: a user who is `Exposed`, that is whose entry is
gone, or is no newer than a note or a comparison that a confirm may use, or is about to be unlinked by a confirm that has compared, has been told of every change or has a
fan-out before them for each (`Covered`), or is in `missed`. `Clocked`: as long as the clock was not stepped
back, stamps are a float step apart and what was noted was a stamp of the entry. `EventTypes`: the types.
The core is `FanStamp` and `HandOut`. A stamp that is newer, as a float, than every note and comparison leaves nobody exposed, and `Unprotected`
names the others. A hand-out exposes an entry by noting its stamp, but tells the user of every change at that
moment, so that `Covered` holds; a later change is covered by its own fan-out until it stamps.

### The limiter and the polls

`LimitsProofs` has both.

`RateLimiter`: `WindowHolds`, `TableBounded` and `RefusedForCause`, for any limit, window, table and number of threads. For
a key that no check was overtaken on, its admissions are in the order of their stamps (`Ordered`), and
those that count at the newest reading are still in the table (`Remembered`): what an eviction or a
sweep drops has a last hit older than the window, so by `Ordered` all of it is. A refusal for a full
table needs `Survivors`: each such key has a newest admission in its list (an eviction and a pruning check
keep it, since the older ones cannot count without it), and that one lay in the
window of the last eviction, which is at most `EVICT_INTERVAL` ago.

`Polls`: `SlotsComeBack`, `PollsAreCounted`, `RevokedIsCut`. The first two are counted over sets of connections of any
finite size, and with `Named` (who polls is a user) they are inductive; `Cut` says that a revoked user's poll
that is to look next has not looked since.

### Assumptions

They are those of the modules, and TLC evaluates them in the runs: users are numbers (for `sorted()`), founders
have directories, bounds are naturals, a request is none of the error answers, an edit, a delete and a reaction are three requests,
connections, items and messages are finitely many, a message is no other place, there is a message. No theorem assumes more.

### Only model-checked

Liveness, since fairness is outside of the prover's reach: `AcceptedIsRouted`, `RejectionIsTold`, `ClaimEnds`, `Answered`, `QueueDrains`,
`DriftEnds`, `ParkedPollsEnd`. The bounds in `EventsTypeOK`: how far the clock
gets is a count of all readings of it. Every safety invariant and every action property of a passing run is a theorem.

## Bounds

Every bound is a CONSTANT that starts with `Max`, guarded in the actions that count against it: `MaxTs` (`Send`,
`AddDraw`, `AddWrite`, `LeaveAnnounce`; `Draw` in `Membership`), `MaxDay`, `MaxCrashes`, `MaxFaults`, `MaxWeeks`,
`MaxChanges`, `MaxSteps`, `MaxRestarts`, `MaxEdits`, `MaxClock` and `MaxChecks` (`RateLimiter`),
`MaxFailures` (`Content`, `UpdateEvents`), `MaxMessages`, `MaxLeaves`, `MaxArchived`, `MaxTyping`,
`MaxFailedStarts`; `Cases` (`Quota`, in `Init`) says which requests come together. Not bounds but constants of the code are `MaxUnfinished`, `Quota`, `MaxStaged`,
`MaxMembers`, `MaxKeys`, `MaxConnections` and `MaxPolls`, each set so small that it is reached. Deadlock is
checked in the runs of `Delivery`, `Quota`, `Content`, `Ticks` and `Polls`, where a router, a janitor, a
reader or a server thread never stops. The instances of `RateLimiter`, `Membership`, `NonceSend`, `Sessions` and
`UpdateEvents` end when their requests are answered or their bounds are used up, and there it is not.

## Not modelled

`ensure_dm`; member-less groups and their
archive, and the bounce of a message to one; paging, stars, matching and
order in history and search; the parsing of requests and responses, ranges, static files, TLS;
`add_entry` and the other commands of the command line; configuration and helpers, which have no state.
Several groups share nothing but queues, the limiter and the quota, and are not modelled together.

## Plan

To be modelled: the archive of member-less groups in `Delivery`, and a second reactor in `Content`.
