--------------------------------- MODULE Ingest ---------------------------------
(***************************************************************************)
(* How the server stores recorded blocks                                   *)
(* (Activities/ActivityAppService.cs, CreateAsync): uploads of one member  *)
(* that overlap in time, on one server instance or several, and an owner   *)
(* who deletes blocks or their images meanwhile (Erasure/).                *)
(*                                                                         *)
(* A request is a row of checks, each a statement of its own that sees     *)
(* what is committed at that moment; then the images go to the object      *)
(* store, one at a time, and the block with the references to them is      *)
(* committed.  The images are not part of the transaction.                 *)
(*                                                                         *)
(* Left out: what a block says beyond its time, which images the policy    *)
(* and the decoder let through, and the server's clock, which stands       *)
(* still: Oldest and Latest are the bounds it gives.                       *)
(***************************************************************************)
EXTENDS Integers

CONSTANTS
  Times,          \* when each block began and ended: [from, to]
  MaxBlockLength,
  Oldest, Latest, \* the earliest start and the latest end taken
  AllowedOverlap,
  OverlapParts,   \* 1 / MaxOverlapShare
  Never,          \* a project that is not archived
  Nobody,         \* no deletion in progress
  Plans           \* bound: what may happen in a behaviour

Blocks == DOMAIN Times

\* of: what each request uploads, for whom and at which instance; shared:
\* whether the instances share their locks; images: how many each block has;
\* uses: what owners do; faults: what fails, at most `trouble` times.
ASSUME IngestAssumption ==
  /\ \A b \in Blocks : Times[b] \in [from : Nat, to : Nat]
  /\ MaxBlockLength \in Nat /\ AllowedOverlap \in Nat /\ OverlapParts \in Nat
  /\ Oldest \in Nat /\ Latest \in Nat /\ Never \notin Nat
  /\ \A p \in Plans :
       /\ \A r \in DOMAIN p.of : p.of[r].block \in Blocks
       /\ p.images \in Nat /\ p.trouble \in Nat /\ p.shared \in BOOLEAN

VARIABLES
  plan,
  at,       \* the step each request is at; "done" once answered
  answer,   \* what it was answered
  archived, \* whether the project it loaded was archived before the block began
  saved,    \* the images it has put into the store
  error,    \* why storing failed
  rows,     \* the blocks committed: which request stored them, and their images
  blobs,    \* the images in the store
  erased,   \* the records of deleted blocks
  denied,   \* what has been taken from the member
  archive,  \* when the project was archived
  deleting, \* the deletion in progress: [row, whole]
  touched,  \* history: the rows an owner began to delete, by request
  orphans,  \* history: images that a crash, a failed save or delete left behind
  trouble   \* bound: faults left

vars == <<plan, at, answer, archived, saved, error, rows, blobs, erased, denied, archive,
          deleting, touched, orphans, trouble>>

requestVars == <<at, answer, archived, saved, error>>
ownerVars == <<denied, archive, deleting, touched>>
storeVars == <<rows, blobs, erased, orphans>>

Requests == DOMAIN plan.of
Who(r) == plan.of[r].who
BlockOf(r) == plan.of[r].block
From(r) == Times[BlockOf(r)].from
To(r) == Times[BlockOf(r)].to

\* Whose block: what the unique index is over.
Key(r) == <<Who(r), BlockOf(r)>>

Init ==
  /\ plan \in Plans
  /\ at = [r \in Requests |-> "lock"]
  /\ answer = [r \in Requests |-> "none"]
  /\ archived = [r \in Requests |-> FALSE]
  /\ saved = [r \in Requests |-> 0]
  /\ error = [r \in Requests |-> "none"]
  /\ rows = {} /\ blobs = {} /\ erased = {} /\ denied = {} /\ archive = Never
  /\ deleting = Nobody /\ touched = {} /\ orphans = {}
  /\ trouble = plan.trouble

Goto(r, step) ==
  /\ at' = [at EXCEPT ![r] = step]
  /\ UNCHANGED <<answer>>

Answer(r, what) ==
  /\ at' = [at EXCEPT ![r] = "done"]
  /\ answer' = [answer EXCEPT ![r] = what]

Fault(what) == what \in plan.faults /\ trouble > 0 /\ trouble' = trouble - 1

-------------------------------------------------------------------------------
(* One upload of a member at a time *)

\* Instances without a shared lock provider lock for themselves.
LockOf(r) == <<Who(r), IF plan.shared THEN 0 ELSE plan.of[r].instance>>

\* Held from the checks until the block is committed.
Holds(r) == at[r] \notin {"lock", "done"}

Busy(r) == \E q \in Requests \ {r} : Holds(q) /\ LockOf(q) = LockOf(r)

Acquire(r) ==
  /\ at[r] = "lock" /\ ~Busy(r)
  /\ Goto(r, "find")
  /\ UNCHANGED <<plan, archived, saved, error, storeVars, ownerVars, trouble>>

\* Another upload held the lock for as long as this one waits (30 seconds).
GiveUp(r) ==
  /\ at[r] = "lock" /\ Busy(r)
  /\ Answer(r, "busy")
  /\ UNCHANGED <<plan, archived, saved, error, storeVars, ownerVars, trouble>>

-------------------------------------------------------------------------------
(* The checks *)

Own(r) == {w \in rows : Key(w.by) = Key(r)}

\* One statement: answered, or on to the next.
Check(r, step, stops, what, next) ==
  /\ at[r] = step
  /\ IF stops THEN Answer(r, what) ELSE Goto(r, next)
  /\ UNCHANGED <<plan, saved, error, storeVars, ownerVars, trouble>>

\* The block is there: a retry gets it back, whatever changed since.
FindOwnBlock(r) ==
  /\ Check(r, "find", Own(r) # {}, "stored", "tombstone")
  /\ UNCHANGED archived

\* Mutant: the records of deleted blocks are not asked.
WasNeverErased(r) == FALSE

WasErased(r) == Key(r) \in erased

IsBlockErased(r) ==
  /\ Check(r, "tombstone", WasErased(r), "deleted", "device")
  /\ UNCHANGED archived

EnsureCanIngest(r) ==
  /\ Check(r, "device", "device" \in denied, "deviceRevoked", "project")
  /\ UNCHANGED archived

\* Loads the project; what it says then is used later.
GetUploadProject(r) ==
  /\ Check(r, "project", "project" \in denied, "notMember", "others")
  /\ archived' = [archived EXCEPT ![r] = archive # Never /\ archive =< From(r)]

ClientIdConflict(r) ==
  /\ Check(r, "others", \E w \in rows : BlockOf(w.by) = BlockOf(r) /\ Who(w.by) # Who(r),
           "clientIdConflict", "times")
  /\ UNCHANGED archived

Shorter(r, q) == IF To(r) - From(r) < To(q) - From(q) THEN To(r) - From(r) ELSE To(q) - From(q)

Overlap(r, q) ==
  (IF To(q) < To(r) THEN To(q) ELSE To(r)) - (IF From(q) > From(r) THEN From(q) ELSE From(r))

Touch(r, q) == From(q) < To(r) /\ To(q) > From(r)

Clash(r, q) ==
  \/ From(q) = From(r)
  \/ Overlap(r, q) > AllowedOverlap
  \/ Overlap(r, q) * OverlapParts > Shorter(r, q)

\* Mutant: only blocks that begin within this one are looked at.
CandidatesInside(r) ==
  {w \in rows : Who(w.by) = Who(r) /\ From(w.by) >= From(r) /\ From(w.by) < To(r)}

\* The member's blocks that touch this one: no block is longer than
\* MaxBlockLength, which bounds the scan.
Candidates(r) ==
  {w \in rows : /\ Who(w.by) = Who(r)
                /\ From(w.by) + MaxBlockLength >= From(r)
                /\ Touch(r, w.by)}

WellTimed(r) ==
  /\ From(r) < To(r) /\ To(r) - From(r) =< MaxBlockLength
  /\ Oldest =< From(r) /\ To(r) =< Latest

ValidateTimes(r) ==
  /\ at[r] = "times"
  /\ IF From(r) >= To(r) THEN Answer(r, "timeInvalid")
     ELSE IF archived[r] THEN Answer(r, "projectArchived")
     ELSE IF ~WellTimed(r) THEN Answer(r, "timeInvalid")
     ELSE IF \E w \in Candidates(r) : Clash(r, w.by) THEN Answer(r, "overlaps")
     ELSE Goto(r, "subscription")
  /\ UNCHANGED <<plan, archived, saved, error, storeVars, ownerVars, trouble>>

Subscribed(r) ==
  /\ Check(r, "subscription", "subscription" \in denied, "subscriptionInactive", "save")
  /\ UNCHANGED archived

-------------------------------------------------------------------------------
(* StoreAsync: the images first, then the block *)

\* Mutant: an image named after the block, not after the row to be.
BlobOfBlock(r, n) == <<Key(r), n>>

\* The name has the id of the new row: no two requests share it.
Blob(r, n) == <<r, n>>

Images(r, n) == {Blob(r, k) : k \in 1 .. n}

SaveImage(r) ==
  /\ at[r] = "save" /\ saved[r] < plan.images
  /\ blobs' = blobs \cup {Blob(r, saved[r] + 1)}
  /\ saved' = [saved EXCEPT ![r] = saved[r] + 1]
  /\ UNCHANGED <<plan, at, answer, archived, error, rows, erased, orphans, ownerVars, trouble>>

Saved(r) ==
  /\ at[r] = "save" /\ saved[r] = plan.images
  /\ Goto(r, "insert")
  /\ UNCHANGED <<plan, archived, saved, error, storeVars, ownerVars, trouble>>

\* The store may have the image although saving it failed; it is not on the
\* list of what to delete.
SaveFails(r) ==
  /\ at[r] = "save" /\ saved[r] < plan.images /\ Fault("store")
  /\ \E unlisted \in SUBSET {Blob(r, saved[r] + 1)} :
       blobs' = blobs \cup unlisted /\ orphans' = orphans \cup unlisted
  /\ Goto(r, "undo")
  /\ error' = [error EXCEPT ![r] = "other"]
  /\ UNCHANGED <<plan, archived, saved, rows, erased, ownerVars>>

NewRow(r) == [by |-> r, images |-> Images(r, saved[r])]

\* Mutant: no unique index.
InsertAnyway(r) ==
  /\ at[r] = "insert"
  /\ rows' = rows \cup {NewRow(r)}
  /\ Answer(r, "stored")
  /\ UNCHANGED <<plan, archived, saved, error, blobs, erased, orphans, ownerVars, trouble>>

Insert(r) ==
  /\ at[r] = "insert" /\ Own(r) = {}
  /\ rows' = rows \cup {NewRow(r)}
  /\ Answer(r, "stored")
  /\ UNCHANGED <<plan, archived, saved, error, blobs, erased, orphans, ownerVars, trouble>>

\* The unique index refuses it: an upload through another instance was first.
InsertRefused(r) ==
  /\ at[r] = "insert" /\ Own(r) # {}
  /\ Goto(r, "undo")
  /\ error' = [error EXCEPT ![r] = "unique"]
  /\ UNCHANGED <<plan, archived, saved, storeVars, ownerVars, trouble>>

\* The database fails: with or without an SQLSTATE that says what it was.
InsertFails(r) ==
  /\ at[r] = "insert" /\ Fault("database")
  /\ Goto(r, "undo")
  /\ \E why \in {"noState", "other"} : error' = [error EXCEPT ![r] = why]
  /\ UNCHANGED <<plan, archived, saved, storeVars, ownerVars>>

\* The block is committed and the connection is lost before the server says so.
CommitUnheard(r) ==
  /\ at[r] = "insert" /\ Own(r) = {} /\ Fault("unheard")
  /\ rows' = rows \cup {NewRow(r)}
  /\ Goto(r, "undo")
  /\ error' = [error EXCEPT ![r] = "noState"]
  /\ UNCHANGED <<plan, archived, saved, blobs, erased, orphans, ownerVars>>

\* Mutant: the image whose save failed last is not on the list.
DeleteBlobsButLast(r) ==
  /\ at[r] = "undo"
  /\ blobs' = blobs \ Images(r, saved[r] - 1)
  /\ Goto(r, "winner")
  /\ UNCHANGED <<plan, archived, saved, error, rows, erased, orphans, ownerVars, trouble>>

DeleteBlobs(r) ==
  /\ at[r] = "undo"
  /\ blobs' = blobs \ Images(r, saved[r])
  /\ Goto(r, "winner")
  /\ UNCHANGED <<plan, archived, saved, error, rows, erased, orphans, ownerVars, trouble>>

\* Best effort: the first that cannot be deleted ends it.
DeleteBlobsFails(r) ==
  /\ at[r] = "undo" /\ saved[r] > 0 /\ Fault("store")
  /\ \E n \in 0 .. saved[r] - 1 :
       /\ blobs' = blobs \ Images(r, n)
       /\ orphans' = orphans \cup (Images(r, saved[r]) \ Images(r, n))
  /\ Goto(r, "winner")
  /\ UNCHANGED <<plan, archived, saved, error, rows, erased, ownerVars>>

MayBeUniqueViolation(r) == error[r] \in {"unique", "noState"}

\* Mutant: what may be a duplicate is taken for one.
WinnerAssumed(r) ==
  /\ at[r] = "winner"
  /\ Answer(r, IF MayBeUniqueViolation(r) THEN "stored" ELSE "failed")
  /\ UNCHANGED <<plan, archived, saved, error, storeVars, ownerVars, trouble>>

\* A suspected duplicate is confirmed by the row that won; all else fails and
\* the agent sends the block again.
Winner(r) ==
  /\ at[r] = "winner"
  /\ Answer(r, IF MayBeUniqueViolation(r) /\ Own(r) # {} THEN "stored" ELSE "failed")
  /\ UNCHANGED <<plan, archived, saved, error, storeVars, ownerVars, trouble>>

\* An instance dies with its requests: their locks are free, their images stay.
Crash(i) ==
  /\ \E r \in Requests : plan.of[r].instance = i /\ Holds(r)
  /\ Fault("crash")
  /\ LET lost == {r \in Requests : plan.of[r].instance = i /\ Holds(r)}
     IN  /\ at' = [r \in Requests |-> IF r \in lost THEN "done" ELSE at[r]]
         /\ answer' = [r \in Requests |-> IF r \in lost THEN "lost" ELSE answer[r]]
         /\ orphans' = orphans \cup (blobs \cap UNION {Images(r, saved[r]) : r \in lost})
  /\ UNCHANGED <<plan, archived, saved, error, rows, blobs, erased, ownerVars>>

-------------------------------------------------------------------------------
(* Owners *)

\* The device is revoked, the member leaves the project, the subscription ends.
Deny(what) ==
  /\ what \in plan.uses /\ what \notin denied
  /\ denied' = denied \cup {what}
  /\ UNCHANGED <<plan, requestVars, storeVars, archive, deleting, touched, trouble>>

Archive(t) ==
  /\ "archive" \in plan.uses /\ archive = Never
  /\ archive' = t
  /\ UNCHANGED <<plan, requestVars, storeVars, denied, deleting, touched, trouble>>

\* The owner deletes a block, or its images alone.
Delete(w, whole) ==
  /\ "delete" \in plan.uses /\ deleting = Nobody /\ (whole \/ w.images # {})
  /\ deleting' = [row |-> w, whole |-> whole]
  /\ touched' = touched \cup {w.by}
  /\ UNCHANGED <<plan, requestVars, storeVars, denied, archive, trouble>>

\* The files go first, one at a time.
DeleteFile(x) ==
  /\ deleting # Nobody /\ x \in deleting.row.images
  /\ blobs' = blobs \ {x}
  /\ UNCHANGED <<plan, requestVars, rows, erased, orphans, ownerVars, trouble>>

\* A file that cannot be deleted fails the request; what it did to the
\* database is rolled back.
DeleteFails ==
  /\ deleting # Nobody /\ deleting.row.images # {} /\ Fault("store")
  /\ deleting' = Nobody
  /\ UNCHANGED <<plan, requestVars, storeVars, denied, archive, touched>>

Deleted ==
  /\ deleting # Nobody /\ deleting.row.images \cap blobs = {}
  /\ deleting' = Nobody
  /\ rows' = (rows \ {deleting.row})
               \cup (IF deleting.whole THEN {} ELSE {[deleting.row EXCEPT !.images = {}]})
  /\ erased' = erased \cup (IF deleting.whole THEN {Key(deleting.row.by)} ELSE {})
  /\ UNCHANGED <<plan, requestVars, blobs, orphans, denied, archive, touched, trouble>>

-------------------------------------------------------------------------------
Checks(r) ==
  \/ FindOwnBlock(r) \/ IsBlockErased(r) \/ EnsureCanIngest(r) \/ GetUploadProject(r)
  \/ ClientIdConflict(r) \/ ValidateTimes(r) \/ Subscribed(r)

StoreAsync(r) ==
  \/ SaveImage(r) \/ Saved(r) \/ SaveFails(r)
  \/ Insert(r) \/ InsertRefused(r) \/ InsertFails(r) \/ CommitUnheard(r)
  \/ DeleteBlobs(r) \/ DeleteBlobsFails(r) \/ Winner(r)

CreateAsync(r) == Acquire(r) \/ GiveUp(r) \/ Checks(r) \/ StoreAsync(r)

Owner ==
  \/ \E what \in {"device", "project", "subscription"} : Deny(what)
  \/ \E b \in Blocks : Archive(Times[b].from)
  \/ \E w \in rows, whole \in BOOLEAN : Delete(w, whole)
  \/ \E x \in blobs : DeleteFile(x)
  \/ DeleteFails \/ Deleted

Next ==
  \/ \E r \in Requests : CreateAsync(r)
  \/ \E i \in {plan.of[r].instance : r \in Requests} : Crash(i)
  \/ Owner

Spec == Init /\ [][Next]_vars

-------------------------------------------------------------------------------
Steps == {"lock", "find", "tombstone", "device", "project", "others", "times",
          "subscription", "save", "insert", "undo", "winner", "done"}

Answers == {"none", "busy", "stored", "deleted", "deviceRevoked", "notMember",
            "clientIdConflict", "timeInvalid", "projectArchived", "overlaps",
            "subscriptionInactive", "failed", "lost"}

(* Type correctness: at most one row for a member's block is among it, for    *)
(* that is what the unique index says.                                        *)
TypeOK ==
  /\ plan \in Plans
  /\ at \in [Requests -> Steps] /\ answer \in [Requests -> Answers]
  /\ archived \in [Requests -> BOOLEAN] /\ saved \in [Requests -> Nat]
  /\ error \in [Requests -> {"none", "unique", "noState", "other"}]
  /\ \A w \in rows : w.by \in Requests /\ w = [by |-> w.by, images |-> w.images]
  /\ \A v, w \in rows : Key(v.by) = Key(w.by) => v = w
  /\ deleting # Nobody =>
       deleting.row = [by |-> deleting.row.by, images |-> deleting.row.images]
  /\ trouble \in Nat

(* What a device may rely on: an upload is answered "stored" only for a block *)
(* that is there, or was until an owner deleted it, and "deleted" only for    *)
(* one that was deleted.  On either the device drops its copy                 *)
(* (CreateAsync, StoreAsync's duplicate).                                     *)
AnsweredIsHeld ==
  \A r \in Requests :
    /\ answer[r] = "stored" => Own(r) # {} \/ Key(r) \in erased
    /\ answer[r] = "deleted" => Key(r) \in erased

(* Time is not counted twice: two blocks a member uploaded through instances  *)
(* that share their locks never clash, though each was checked against the    *)
(* other only while it was stored (ValidateBlockAsync and the ingest lock).   *)
NoDoubleTime ==
  \A v, w \in rows : v # w /\ LockOf(v.by) = LockOf(w.by) /\ Touch(v.by, w.by)
                  => ~Clash(v.by, w.by)

(* A block that an owner deleted does not come back with a late or repeated   *)
(* upload, where the instances share their locks (IsBlockErasedAsync).        *)
ErasedStaysErased == plan.shared => \A w \in rows : Key(w.by) \notin erased

(* All or nothing: a stored block has every image it names, unless an owner   *)
(* began to delete it or a commit was not heard of (StoreAsync): what a       *)
(* request cleans up is never another's.                                      *)
NothingTorn ==
  \A w \in rows : w.by \notin touched /\ error[w.by] = "none" => w.images \subseteq blobs

(* No image stays behind unseen: each belongs to a stored block or to an      *)
(* upload in progress, unless a crash, a save that failed half way or a       *)
(* failed delete (which is logged) left it (StoreAsync, DeleteBlobsAsync,     *)
(* EraseBlockAsync): neither a refused duplicate nor a deletion does.         *)
NoHiddenImages ==
  \A x \in blobs \ orphans :
    \/ \E w \in rows : x \in w.images
    \/ \E r \in Requests : Holds(r) /\ x \in Images(r, saved[r])
================================================================================
