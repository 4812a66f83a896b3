# Dosi-Tracker: a verification project in TLA+

TLA+ models of how work is recorded by the Linux agent, with whose consent, and how
it travels to the server and is stored there; TLC configurations that check them on
small instances, and TLAPS proofs that hold for every instance. Paths are relative to
`src/clients/linux/src/` unless they start with `src/`; `PROJECT.json` maps every definition to its lines.

## 1. The system

A desktop agent records work in *blocks* (a few minutes of one project, with
captures), queues them durably and uploads them to an ASP.NET backend, where
managers read them. Three agents (Linux and Windows in Rust, macOS in Swift) speak
one contract, `src/docs/agent-api-contract.md`. The Linux agent is modelled.

| Component | State it keeps | Operations | Talks to |
|---|---|---|---|
| Outbox (`outbox.rs`) | SQLite rows: account, workspace, client id, pending or parked, images, attempts, age | enqueue (v1, v2), ack, fail, park, park scope, strip, enforce limits, purges | three connections: worker, uploader, command line; immediate transactions |
| Uploader (`agent/uploader.rs`) | account, not-before time, position in a pass, commands heard meanwhile | pass, final drain, apply a command, timed wait | worker by two channels, outbox, server |
| Sync pass, transport (`sync.rs`, `api.rs`) | the row on its way | load, verify, send, classify, settle | outbox, server |
| Worker (`agent/worker.rs`) | account, expired, revoked, suspended, the block in progress, unsigned blocks | record, sleep, sign in and out, switch, expire, events, quit | everything in the agent |
| Block engine (`agent/blocks.rs`) | the stretch: open block, held blocks, policies | start, tick, end, cut, policy | called by the worker |
| Token cell (`api.rs`), control task (`agent/control.rs`) | one access and refresh token per sign-in, a renewal lock | renew, invalidate, announce a rotation; check a sign-in, say goodbye | worker, uploader, token endpoint |
| Credentials (`credentials.rs`), persister (`agent/worker.rs`) | refresh token and signing key of each account | save, clear, load, unlock | worker, the desktop's Secret Service |
| Consent (`consent.rs`, `lifecycle.rs`) | consent file and its copy in memory; state, generation and policy of the acquisition | update, configure, start, stop, tickets | worker, sensors |
| Sensors (`tracking/tracker.rs`) | the listener, the screenshot being taken | apply a policy, capture, snapshot | worker, lifecycle, desktop |
| Server ingest (`ActivityAppService.cs`) | activities, their images in an object store | CreateAsync | database, blob store, a lock per member |
| Erasure (`TrackedDataEraser.cs`, `CaptureEraser.cs`) | ids of deleted blocks | delete a block, or its images | database, blob store |
| Session store, power events, IPC, window, other clients, rest of backend, frontend | | | not modelled, see section 8 |

What is hard, and what correctness means there:

* **Outbox**: three writers and limits. One row per block; parking is final; limits
  hold and drop the oldest.
* **Uploader and worker**: two threads, two channels and a shared store. Both agree
  on the account; commands during a pass are neither lost nor reordered; no wake-up
  is lost; signing out and quitting end.
* **Delivery**: lost, late and repeated requests, crashes, several accounts and
  workspaces. No block is taken for delivered that the server never had; none
  arrives under another account or workspace; none an owner deleted comes back.
* **Block engine**: late ticks, boundaries, idle time found out afterwards. No gaps,
  no work lost, no time away recorded.
* **Ingest**: concurrent uploads of a member, several server instances with and
  without shared locks, an owner who deletes meanwhile, images outside the
  transaction. What an agent is told is true, time is not counted twice, deleted
  blocks stay deleted, images are neither lost nor left behind.
* **Tokens and keyring**: two clients share a refresh token that is good for one use,
  a third thread saves it, the keyring locks. The agent never uses up its own sign-in,
  a dropped request does not keep the lock, the key that is saved is the one in use.
* **Consent**: a choice is narrowed, saved and widened while a screenshot is being
  taken, a save fails or the process dies. Nothing is recorded beyond the choice.

`PROJECT.json` lists each hazard at its line with the properties that cover it, or
the reason none does yet.

## 2. The modules

| Module | What it is |
|---|---|
| `OutboxStore` | The store as operators on sets of rows: what each SQL statement does. No variables; shared by the two below. |
| `Outbox` | The queue as a component: every call, in any order, with a clock in days. |
| `Delivery` | Abstract specification: what agent and server together promise for a block. |
| `Upload` | Worker, uploader, network and server, composed over `OutboxStore`; implements `Delivery`. |
| `Ingest` | `CreateAsync` statement by statement: several requests, instances and owners, the images, crashes. |
| `Blocks` | The block engine. |
| `Tokens` | Token cell, control task, persister, keyring, and the worker's sign-in as they see it; the token endpoint is external. |
| `Consent` | Consent file, lifecycle, worker, open block, listener and screenshot thread. |
| `OutboxStoreProofs` | Lemmas about the store's operators, cited by the two below. |
| `OutboxProofs`, `UploadProofs`, `DeliveryProofs`, `IngestProofs`, `BlocksProofs`, `TokensProofs`, `ConsentProofs` | Theorems and their proofs. |
| `MCOutbox`, `MCUpload`, `MCBlocks`, `MCIngest`, `MCTokens`, `MCConsent` | Instances for TLC. |

```
OutboxStore --> Outbox --> OutboxProofs       (both proofs: OutboxStoreProofs)
     |
     +--------> Upload --> UploadProofs
                   | == Promise ==> Delivery --> DeliveryProofs
                   |  (one upload at a time, one step each)
                   v
                Ingest --> IngestProofs
Blocks --> BlocksProofs    Tokens --> TokensProofs    Consent --> ConsentProofs
```

`Upload` takes the server's answer to a request as one step and a request's sign-in as
accepted or refused; `Ingest` and `Tokens` open these two up. `Blocks` has the times of
blocks and `Consent` what is recorded in them.

### Correspondence with the code

**OutboxStore / Outbox.** A row of `outbox_entries` is a record. `state` is the
`state` column; `parkedAt` and `enqueued` are days; `shots` says whether the row's
signature binds image digests, `bytes` what is left of the images. An operator such
as `Park(s, scope, cid, day)` is the effect of one `UPDATE` or `DELETE` with its
`WHERE`. A call that changes nothing (`RecordNotFound`, `Idempotent`,
`ConflictingIdentity`) is a stuttering step. `EnforceLimits` is one transaction: it
sheds images beyond the capture limits, then drops pending rows that are too old or
too many.

**Upload.** A step is what a thread does between two points where the other can
act: a transaction, a command taken, a request, an answer. `cmds` and `events` are
the two channels. `pc` says where the uploader's thread is:

| `pc` | Code |
|---|---|
| `idle` | top of `run`'s loop |
| `blocked`, `timed` | `recv`, `recv_timeout` up to `next_wake` |
| `unaware` | `recv` with rows queued: the look at the queue (`queue_summary`) failed and counted as no rows |
| `apply` | `apply` over the commands heard (`deferred`) |
| `scope` | top of `drain`'s loops, where `pass_listening` looks for commands |
| `peek`, `load` | `peek_ready`, then `load_captures` and the signature check |
| `wait`, `settle` | the request is out; its answer is there |
| `exited` | the thread has returned |

`mode` tells a pass from the final drain of a sign-out or a shutdown. A final drain
has a deadline instead of listening to commands, so it may end between any two rows.
The worker handles one event at a time, so each of its handlers is one action;
each of them that ends tracking first records the block in progress (`LastBlock`)
and sheds and drops in the same step. `ServerAnswer` evaluates `CreateAsync`'s checks
in its order and stores in the same step, which the ingest lock and the transaction
justify for one member; `NoAnswer` is an answer that never came, whether or not the
server acted, and `late` holds requests that may still arrive.
`Restart` keeps what the store, the keyring and the session file keep.

**Ingest.** A request of a behaviour is a line of `plan.of`: who uploads which block
through which instance. `at` is the statement of `CreateAsync` or `StoreAsync` it is
at:

| `at` | Code |
|---|---|
| `lock` | `TryAcquireAsync`, up to `IngestLockTimeout` |
| `find`, `tombstone`, `device`, `project`, `others`, `times`, `subscription` | the checks, in order; each sees what is committed at that moment |
| `save` | the images, one `SaveAsync` each |
| `insert` | `CompleteAsync`: the row and the references to the images |
| `undo`, `winner` | the `catch` block: `DeleteBlobsAsync`, then the row that won |

`archived` is what `GetUploadProjectAsync` read and `ValidateBlockAsync` uses later.
An owner deletes files one at a time and commits last. `shared` says whether the
instances have a distributed lock provider; without one each locks for itself.
`touched` and `orphans` are history.

**Tokens.** Grant *g* is access token *g* and refresh token *g*. A cell is a
`TokenCell`; `holder` is who has its `renewing` lock. A client's `pc` is where its
request is: `queue` (waiting for the lock), `renew` (the refresh is out), `granted`,
`refused`, `failed` (its answer is there, the lock still held), `send`. `todo` is the
last thing the worker told a client (a later one replaces it); `farewell` is the
urgent channel of the control task; `events` and `sent` are the other channels.
`saving` is the item that the persister has loaded and not yet saved, `keeping` how far
the worker is with `save_secrets`: it reads the refresh token (`ReadToken`) and writes the
item (`SaveItem`) in two steps, the uploader and the persister act in between, and
`signed_in` flushes the waiting blocks and connects the clients only after. Worker and
control task are tasks of one thread, so neither goes on meanwhile. `excuses` is
history: why a refusal may be something else than two clients using one token.

**Consent.** `pc` is how far `update_consent` is, from `idle` through `narrowed`, then
`written` (the file is replaced, the lifecycle not yet told; its lock is held) and
`saved`, or `unsaved`. `manager` and `life` are `ConsentManager` and `TrackerLifecycle`;
`consent`, `session` and `unsynced` are the worker's; `block.perms` is what the open
block may record. `camera` is the screenshot thread, with the ticket's generation and,
as history, how often screenshots had been `tightened` when it was asked for; `wish` is
the last choice. "plain" stands for screenshots without blur, so that each
choice is a set and narrowing is intersection.

**Blocks.** `stretch` is `Option<Stretch>`; `tick`, `end`, `cut`, `start`,
`update_policy` are the actions. `roll`'s loop over the boundaries is written as the
sequence of blocks it passes. `Active` and `CutAtLastActivity` keep as many blocks as
qualify, from the first: along a stretch those that do come first (`PrefixCount` in
`BlocksProofs`), so this is the loop's choice. `finished` is the set of blocks returned,
whose order is that of `raw`. `final` and `raw` are history: up to where time has
been given out, and what the last call ended before the filter on short blocks.

## 3. The runs

| Run | Shows |
|---|---|
| `Outbox` | `Identity` (one row per block and id), `RowsOnlyDecay` (parking is final, images only go, a row keeps owner, key and age), `LimitsHold` (counts and ages), `BudgetHolds` (bytes), `DropsOldestFirst` (rows), `ShedsOldestFirst` (images) |
| `UploadFaults` | `KeepsPromise` (Upload implements `Delivery`) and `HeadOfLine`, with two blocks with images queued at once and one row's images kept: lost and late requests, busy answers, refusals, 413s, purges, a lost workspace, deletions, store errors and crashes |
| `UploadAccounts` | `KeepsPromise`, `AccountsAgree`, `ParksOnlyBetweenRows`, with two accounts and two workspaces, discarding sign-outs, switching, refused sign-ins, revoked devices, parking by command and final drains |
| `UploadLive` | `Uploads`, `SignsOut`, `Quits` with two blocks queued, lost and busy answers, store errors, sleep, kept away time |
| `Blocks` | `NoGaps`, `FinishedInOrder`, `AwayIsNotWork`, `WorkIsKept` |
| `Tokens` | `OneRenewal`, `LockComesBack`, `StaysSignedIn`, `KeyAgrees`, `QueuedInOrder`, over five plans: two clients with one token; restarts and rotations; signing out, switching and a revoked device; revoked, taken back, restarted; three blocks that wait for a locked keyring |
| `Consent` | `WideningWaits`, `SensorsFollow`, `NoStaleShot`, `FailsClosed`, over three plans: mixed changes while screenshots are taken; the workspace changes its policy as well; failing saves, damaged files, crashes and offline choices |
| `Ingest` | `AnsweredIsHeld`, `NoDoubleTime`, `ErasedStaysErased`, `NothingTorn`, `NoHiddenImages`, over three plans: one block sent three times to two instances without a shared lock; overlapping blocks of two devices; a retry, another member with the same id, and whatever ends a member's access |
| `UploadKeys`, `ConsentSaved`, `TokensForgets`, `UploadStuck` | one disagreement each between the code and what it says of itself (section 7) |

What the properties mean:

* `KeepsPromise`: seen through `Fate`, every step of worker, uploader, network and
  server is a step of `Delivery` or changes nothing of it.
* `AccountsAgree`: play the commands still on their way, and the uploader has the
  account the worker has, or the report that its sign-in was refused is unread.
* `ParksOnlyBetweenRows`: `ack_delivered` deletes a row in any state. That is safe
  only because nobody parks the row on its way. `UploadAccounts` checks this of the
  worker, of passes with the `ParkScope` commands deferred during them, and of final
  drains; the command line only deletes. Rows dropped by the row-count limit while they
  are on their way are in no run of Upload; the theorem `Implements` covers them.
* `HeadOfLine`: nothing overtakes an older row of its workspace.
* `ShedsOldestFirst`: `enforce_limits` takes the images of pending rows only, of those too old
  or beyond the count or the bytes of the newer ones, and of no row while an older one
  keeps its own: neither the newest nor one too many.
* `Uploads`: an account that stays connected gets its queue empty again and again, unless
  the thread stays `unaware` for ever. The exception is what the code does: nothing but a
  command ends that wait (`KeepsUploading`, section 7, has no exception and fails).
  `SignsOut` and `Quits` need none, as they are commands.
* `AwayIsNotWork` is limited to an open block with idle detection when the tick
  begins: turning idle detection off releases held blocks by design.

* `StaysSignedIn`: the token endpoint refuses a refresh only after the sign-in was
  ended there, an answer was lost, a rotated token could not be saved, or `save_secrets`
  wrote a token that was rotated since it read it, when the persister had no newer one
  left to write (section 7). Clients that run side by side never use one refresh token twice.
* `LockComesBack`: the renewal lock is held only by a request that will give it back;
  the goodbye that drops a request releases it.
* `KeyAgrees`: when all that was to be saved is saved, the keyring's signing key is
  the one that rows are signed with.
* `QueuedInOrder`: blocks are queued in the order they were recorded, also when some
  had to wait for the signing key.
* `WideningWaits`: neither the worker nor the manager ever applies more than the file
  has, so a restart never finds less than what was being recorded under.
* `SensorsFollow`: nothing is counted or admitted beyond the last choice and the
  workspace's policy, from the step that takes the choice.
* `NoStaleShot`: every queued screenshot was asked for after the last time that
  screenshots were withdrawn or blurring was asked for, though they may have been
  given again meanwhile.
* `AnsweredIsHeld`, `NoDoubleTime`, `ErasedStaysErased`, `NothingTorn`,
  `NoHiddenImages`: see the comments in `Ingest.tla`. The last two leave out
  commits that were not heard of and images that a crash, a failed save or a failed
  delete leaves, which no code cleans up (section 7).

### Bounds, and why they are enough

* `Outbox`: two accounts, a workspace, two blocks, at most `MaxId` = 3 rows ever
  inserted and one day boundary (`LastDay`). Limits are 2 rows, 3 bytes of images
  and age 0, so each of the count, byte and age limits is exceeded, alone and
  together, and a row is inserted again after it was dropped.
* `Upload`: one or two blocks. Rows interact in pairs only: the head and what is
  behind it, the row on its way and the one the limits drop. `MaxSession` = 2
  sign-ins; three add nothing that the second does not have with the first.
  `MaxWaiting` bounds how much is on its way when the *user* acts (never what the
  program sends), as people wait for the window to answer; one `now` command is
  outstanding at a time. `Troubled` limits which workspace may be lost or revoked.
  `Uses` and `Faults` choose what happens in a run: all at once is out of reach, so
  the runs split what can go wrong by the property it endangers.
  `CaptureMaxRows` of 1 makes that limit bite in `UploadFaults`: with two rows queued, the
  older one loses its images, also while it is on its way. 9 takes the limits out of the
  way elsewhere. Days do not pass in Upload.
* `Blocks`: `MaxTime` = 9 instants, intervals 3 and 4, idle limits 2, 5 and none,
  the shortest block 2, the grace 1: three boundaries in one tick, blocks cut by idle
  time below the minimum, held blocks followed by a boundary. `MaxLag` = 1 lets a
  notice be handled one instant late, which is enough to put it before the open
  block's start.

* `Tokens`: three grants, two cells, two keys, one or two pieces of trouble: a token can be
  rotated twice, used again afterwards, and a second sign-in follows the first. Two
  blocks fit into the waiting list (`MaxUnsigned`), so there is an order among them, and
  the third drops the first.
  Each plan has the uses and faults that endanger one group of properties.
* `Consent`: four or five moves (choices, policy changes, pauses, crashes) and up to
  four blocks: enough to withdraw and grant again twice while a screenshot is
  being taken. Three capabilities: one that is counted, one that is taken, and one
  that loosens another.
* `Ingest`: three or four requests, of which each pair of a retry, an overlap and a
  conflict is one, up to two images each, one fault per behaviour (`trouble`). The
  times are chosen at each side of the rules: too much overlap, overlap that is a
  small share of one block and the whole of another, adjacent, too old.

Deadlock checking is off where the system may come to rest: every block recorded, all
bounded inputs used, the thread exited. `Uploads`, `SignsOut` and `Quits` say what
must not be left undone then. In `Outbox` and `Blocks` it is on.

Symmetry is used in `Outbox` only. The runs of Upload have none: their blocks are recorded
in a fixed order (`Unrecorded` chooses the next), which a permutation would not respect.

## 4. Fairness

`Fairness` of Upload says, and the code relies on:

* weak fairness of the uploader's loop, of each step of a drain and of the worker
  reading its events: threads are scheduled and neither holds a lock the other needs;
* weak fairness of `HoldElapses`: every wait has a finite time (`next_wake`);
* strong fairness of beginning a pass: the look at the queue succeeds again and again
  while the thread keeps taking it (a failed one may still leave it `unaware`);
* strong fairness of reading the store and of writing what an answer means: a locked
  or full disk recovers again and again; this is what the retry after
  `STORE_RETRY` assumes;
* strong fairness of an answer other than "busy": the server is reached again and
  again. Without it no retry can end.

Nothing is assumed of the user, of the server's people, of crashes, or of recording.

## 5. Proofs

`OutboxProofs` proves, for any accounts, workspaces, blocks, keys, limits and bounds:

* `TypeCorrect`: `Spec => []TypeOK`;
* `IdentityKept`: `Spec => []Identity`;
* `OnlyDecay`: `Spec => RowsOnlyDecay`;
* `LimitsAreKept`: `Spec => LimitsHold`, and `NewestStay`: `Spec => DropsOldestFirst`.

The inductive invariant is `Inv == TypeOK /\ Identity`. `TypeOK` includes that ids
are at most `lastId`, without which a new row could have an old id. Every call that
does not insert is one lemma (`...Decays`): it maps each row to at most one row that
it `Becomes`. `DecaysKeepsInv` turns that into the invariant and the action property
at once; the inserting calls are shown separately from `Free` and the counter.

The limits need counting, and rows are numbered, so the queue is finite
(`NumberedAreFinite`). `NewestAreFew`: rows of which each is among the *n* newest of a
set are at most *n*, by looking at the oldest of them. `OldestGo`: where one goes, *n* stay and
are newer. `LimitsLeave` puts both onto `EnforceLimits`, which sheds first and drops
after. These lemmas are in `OutboxStoreProofs`, with what each operator keeps of ids,
blocks, states and heads of the queue, for `UploadProofs` to cite as well.

`UploadProofs` proves, for any accounts, workspaces, blocks, limits, uses and faults:

* `TypeCorrect`, `UploaderFollowsWorker` (`[]AccountsAgree`), `DeliveredRowStaysPending`
  (`[]ParksOnlyBetweenRows`), `OldestGoesFirst` (`[]HeadOfLine`);
* `Implements`: `Spec => KeepsPromise`, the refinement of `Delivery`, step by step;
* `NothingIsLost`: the theorems of `DeliveryProofs`, instantiated with the same mapping, so
  that they hold of the agent and the server as modelled in detail.

One inductive invariant (`Invariant`: `Spec => []Inv`) serves all of them:

* `Typed`: types, and that every account at hand was made by a sign-in of this
  behaviour: a request carries a session, and the server stores for its owner;
* `StoreOK`: a row is of the scope its block was recorded in, one row per block, and the
  block was not discarded; `lastId` counts the recorded blocks. Without it a late
  request could store a block elsewhere;
* `ServerOK`: what the server holds, and what a late request asks for, is where it was
  recorded;
* `DriveOK`, `EntryOK`, `AnswerOK`: what the uploader has at hand at each `pc`: the row's
  id and block still mean the same row, and "ok" means that the server has or had it.
  This is why deleting by id after an answer is deleting what was delivered;
* `FlightOK`: `ParksOnlyBetweenRows` and `HeadOfLine`, but from the moment the row is
  peeked. New rows are newer and only decay happens to the others, whoever acts;
* `EndOK`: the thread is told to end only when the process ends;
* `AccountsAgree` is inductive with these. It is stated through the last command that names an
  account, so that appending a command and taking one off the queue each change it in
  one way only.

Steps touch few of these parts: lemmas such as `DecayKeepsStore` say what a part
needs of a step, and each action is shown to be such a step. The order of scopes in a
pass (`OldestFirst`) is a function of their number onto scopes, which the proofs never
have to enumerate.

`DeliveryProofs` proves, for any blocks and workspaces:

* `NothingLost`: `Spec => []DeliveredIsHeld`;
* `OnePlace`: `Spec => []HeldWhereRecorded`.

Neither is inductive alone: `IInv` adds that a block has a scope exactly when it is
recorded (`RecordedSomewhere`). Otherwise `Record` could move a block the server
already holds.

`IngestProofs` proves, for any number of requests, members, instances, blocks, images,
limits and faults: `IngestTypes` (`[]TypeOK`), `AnswersAreTrue` (`[]AnsweredIsHeld`),
`TimeCountsOnce` (`[]NoDoubleTime`), `DeletedForGood` (`[]ErasedStaysErased`),
`ImagesStay` (`[]NothingTorn`) and `NothingHidden` (`[]NoHiddenImages`). None is
inductive; `IInv` adds what a request knows by
the check it has passed, and that it is still true because the lock is held:

* `OneHolder`: two requests that hold the same lock are one;
* `Placed`: a request that has not committed has no row;
* `Cleared`: past the tombstone check, under shared locks, the block is still not deleted (only
  a stored block can be);
* `Vetted`: past the overlap check nothing under the same lock clashes;
* `Kept`: the images on a request's list are in the store until it undoes them, and
  a row's images are on the list of the request that stored it.

`NothingHidden` adds `Seen`: an image of no row is of a request that is still storing or
undoing, or written off. `NoHiddenImages` excuses every request that holds its lock, also
one that has cleaned up already, and is not inductive.

A step that commits and deletes nothing is a `Move`, one lemma for all checks; the
others (`SaveKeeps`, `StoreKeeps`, `CleanKeeps`, `CrashKeeps`, and the owner's steps)
have a lemma each.

`ConsentProofs` proves, for any plans: `SavedBeforeApplied` (`[]WideningWaits`),
`ChoiceIsFollowed` (`[]SensorsFollow`), `ShotsAreFresh` (`[]NoStaleShot`) and
`FailureStopsAll` (`[]FailsClosed`). `IInv` adds how far an update is: `Saves` relates
file, memory, choice and the worker's consent at each `pc`; `Follows` relates the
lifecycle's policy and the session to the wish; `Synced` what holds while a
save is outstanding; and `Fresh` is the heart of `NoStaleShot`: a
screenshot of the lifecycle's current generation was asked for after the last
tightening. It needs that each tightening either changes the policy, and so the
generation, or finds no ticket out. `ConsentTypes` (`[]TypeOK`) rests on `Books`:
each block asks for a screenshot once (answers, the camera and the open block's request
are at most the blocks), waiting screenshots are of the open block, and a block is open
during an update only if the choice grants tracking.

`BlocksProofs` proves, for any grace, policies, minimum and lag: `TypeCorrect`
(`[]TypeOK`), `TimeHasNoGaps` (`[]NoGaps`), `EndsOnceInOrder` (`FinishedInOrder`),
`AbsenceIsNotWork` (`AwayIsNotWork`) and `NoWorkIsLost` (`WorkIsKept`). It is about
*chains*: blocks that lead from one moment to another without gaps, each within its
interval. Chains join (`ChainJoin`) and come apart (`ChainCut`) where they meet; what
`roll` passes is one (`PassedChain`, with the division that counts the boundaries:
`BoundariesUpTo`), what `Active` holds back of it is its end (`ActiveIsPrefix`), and what
`cut_at_last_activity` leaves is a chain from the same beginning that reaches the last
activity (`CutChain`). The invariant says that the held blocks are a chain from
`final` to the open block, which starts in the past, and what a hold remembers:
`heldActivity` is the last activity, or there was input since, after every held
block. Without the second half a release could count time away as work.

`TokensProofs` proves, for any plans and bounds: `TokensTypes` (`[]TypeOK`),
`RenewalsAreOne` (`[]OneRenewal`), `LocksComeBack` (`[]LockComesBack`),
`BlocksStayInOrder` (`[]QueuedInOrder`), `RefusedOnlyWithReason` (`[]StaysSignedIn`) and
`ItemHasTheKey` (`Punctual => (Spec => []KeyAgrees)`). `IInv` has three parts:

* `Typed`: every token in a client, a cell, the persister or the keyring was granted, every
  cell that is named anywhere was given out, and a client at work has one. `TypeOK` alone
  is not inductive: the server looks up the sign-in of the token it is sent, and the worker
  saves the token of its account's cell, so both must exist. `AccountTyped` adds that a
  revoked device and secrets being saved have a cell to save from;
* `LockHeld`: the lock of a cell and the client that has it know of each other. It needs that
  a new cell is beyond every cell a client has; five lemmas (`LockUntouched`, `LockKept`,
  `LockTakenByOne`, `LockReleased`, `LockOfNewCell`) cover all steps;
* `Ordered`: no block waits while there is a key and no `signed_in` is still saving, and
  `lastBlock` bounds them all.

`StaysSignedIn` adds two. `Watching`: the worker's cell and whatever is saved from are
cells whose rotations reach the persister. `Lineage`, while nothing excuses a refusal:
a token that was redeemed is in a cell only while the client that redeemed it has the
answer, no two cells have the same token, and what a restart would read (`Newest`: the
last one sent to the persister, else the one being saved, else the item's) was not
redeemed, or is in such a cell. A used token that somebody could still send would be a
refusal without excuse. The token that `save_secrets` has read is stored knowledge like the
others (`Stored`); writing it is harmless if it is still the cell's (`SaveLineage`), or if
the persister has a newer one to write after it, and otherwise the excuse "stale".

`KeyAgrees` adds `Keyed`: the item, what is about to replace it and the account have one
key. It is *not* true of every plan: TLC shows that a write of the persister that is
overtaken by a sign-out brings the old item back (finding 3 of section 7), with the old
key, under which the next sign-in's blocks do not verify. `Punctual` leaves out exactly
that ("overtaken" is in no plan's faults), as the plans of the run `Tokens` do.

The assumptions are the named ones in the modules (limits are numbers, plans name
blocks that exist), and TLC evaluates them in the runs. `Delivery` assumes nothing.

## 6. Only model-checked

The liveness properties (`Uploads`, `SignsOut`, `Quits`): fairness and ENABLED are out of
TLAPS's reach. `BudgetHolds`: the bytes of the newest images are a sum over a set, a
recursion, and induction over data is out of the provers' reach; the counts and ages
beside it are proved. `ShedsOldestFirst` compares such sums and is model-checked for the same reason.
Every other invariant and action property of the passing runs is
a theorem, `KeyAgrees` under `Punctual`.

## 7. Where code and documents disagree

1. **`UploadKeys`**: signing out deletes the account's signing key (`worker.rs`,
   `forget_account`); the next sign-in makes a new one. Blocks still queued then fail
   their own signature check and are parked, though `cli/account.rs:222` says they
   are "kept for 14 days and upload when you sign in again".
2. **`ConsentSaved`**: a withdrawal that could not be saved stays in the manager's
   memory. Choosing it again finds the same consent there (`consent.rs:667`), writes
   nothing and returns `Ok`; the worker takes it as saved (`consent_unsynced` is false),
   while the file has the old grant, which a restart reads. `agent/state.rs:719` says
   the flag tells whether memory differs from the disk, and the message at
   `agent/worker.rs:2124` promises the old consent only "until a save succeeds".
3. **`TokensForgets`**: `TokenPersister` loads the item, changes the refresh token and
   saves it. A sign-out in between clears the item and the save brings it back, signing
   key included, though `agent/worker.rs:709` says "Signed out meanwhile: nothing to update".
4. **`UploadStuck`**: `Uploader::pending` takes a `queue_summary` that fails for an empty queue
   (`unwrap_or(0)`, `agent/uploader.rs:351`). Then `ready` is false and `next_wake` is `None`
   while the store is open, and the thread waits in `recv` without a time limit, rows queued,
   a hold or none. `agent/uploader.rs:51` says that reading the queue is retried after it
   failed; that holds of `drain`, not of this read. In the trace one failed look follows a
   recorded block, and the store is well ever after. In practice the next recorded block,
   or any other command, wakes the thread.

Met while modelling, and not stated as runs:

* `TokenCell` is there so that "a rotated refresh token is never used twice" (`api.rs:806`).
  `save_secrets` reads the token and writes it later (`worker.rs:1109` and 1112). When a revoked device
  has cleared the item and `switch_to` saves the sign-in again, the uploader may renew in
  between; the persister finds no item and drops the new token, and the used one is
  written. A restart then sends it, and the server refuses it. `StaysSignedIn` names it as a
  reason ("stale"). The run `Tokens` reaches it in its fourth plan: check the invariant
  `\A c \in Clients : client[c].pc = "refused" => excuses # {"stale"}` to get the trace
  (22 steps).
* The contract (`src/docs/agent-api-contract.md:231`) has the agent delete a row after a
  410 `Tracker:ActivityDeleted`. The agent does not know the code (`api.rs:104`), takes it
  for a temporary failure and retries: the row holds up its workspace until the
  queue's age limit drops it. `UploadLive` has no deletions for that reason.
* `sync.rs:594` parks a row with nothing to strip as one that "resending cannot make
  any smaller"; the worker's `enforce_limits` may have removed the images while the
  request with them was out.
* `auth.sign_out` with a discard purges first; the sign-out then records the block in
  progress, which stays queued, while `cli/account.rs:220` says that blocks that were not
  uploaded were deleted.
* A `SignInExpired` event names the account, not the sign-in; read after the account
  signed out and in again it stops the new sign-in, which nobody refused
  (`agent/worker.rs:2612`).
* The contract (section 2.5) has a sign-out revoke the refresh token; the Linux agent
  only forgets it.
* `narrow_block_permissions` gives the open block the refreshed permissions of the
  session. After a policy refresh that allows more, taking one capability back gives
  the open block another, though `agent/blocks.rs:28` says that a block's policy is "fixed
  when the block starts". `Consent` follows the code.
* `CreateAsync` calls the unique index "the backstop" when instances have no shared lock
  provider. It is one for the same block sent twice. It is none for blocks that overlap,
  nor for a block deleted between a retry's tombstone check and its commit: so
  `NoDoubleTime` compares blocks of one lock, and `ErasedStaysErased` assumes `shared`.
* A commit that succeeded but was not heard of is handled as a failure: the images are
  deleted, then the row is found and answered as stored, without its images, although
  `StoreAsync` says it stores "all-or-nothing". `NothingTorn` leaves that case out.
* An image whose save fails after the store took it is on no list and is not deleted;
  so are the images of an upload that a crash cut off.

## 8. Not modelled, and why

* Encodings, texts, digests: signatures are reduced to which key made them; the
  check that a workspace id is a GUID and the field checks of an acknowledgement
  are left out.
* Kinds of waits (`Retry-After`, 402, 425, back-off): all are `hold`.
* `Blocks`: descriptions. `Consent` has the permissions of the open block; that
  `narrow_block_permissions` also narrows held blocks is left out.
* Sensors: what is counted and how, the X11, Wayland and portal sources, the retries of a
  listener that does not start.
* `Tokens`: access tokens are refused or not, their content is not looked at; several
  accounts on one machine (each has its own item and cell), and the file and memory
  stores of the credentials.
* `Ingest`: decoding and checking captures, normalising context, and a clock that moves.
  The retention of captures and who may delete what are not modelled.
* Sign-ins: one is checked at a time; a second one sent while the first is queued, checked or
  not heard of is left out. A check that the goodbye drops leaves `signing_in` set, and
  `SignIn` may begin again then.
* Power: sleep inhibitors, sleep that was not announced, and what a lock of the session
  does beyond pausing: the events are inputs of the worker, and the protocol
  with logind is plain I/O around them. Presence, breaks and prompts likewise.
* Other clients, presentation, reporting, billing, AI assist: no protocol with the
  parts above, or the same protocol a second time.

## 9. Plan

Done: `OutboxStore`, `Outbox`, `Delivery`, `Upload` with its liveness, `Blocks`, `Ingest`,
`Tokens`, `Consent`, and the proofs of section 5. Left, in order of what matters most:

1. `Power`: suspend inhibitors, unannounced sleep and away time, as a module of its own
   over `Blocks`.
2. `ServerAnswer` of `Upload` as an abstraction of `Ingest`, by a refinement mapping.
3. The retention job of the backend against uploads and deletions.
