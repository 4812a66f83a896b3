--------------------------------- MODULE Outbox ---------------------------------
(***************************************************************************)
(* The queue as a component: any of its operations, called in any order by *)
(* the worker, the uploader or the command line (each has a connection of  *)
(* its own; SQLite's immediate transactions make every call atomic).       *)
(* A call that changes nothing (RecordNotFound, Idempotent,                *)
(* ConflictingIdentity, a refused enqueue) is a stuttering step.           *)
(***************************************************************************)
EXTENDS OutboxStore

LOCAL INSTANCE FiniteSetsExt

CONSTANTS
  Sizes,        \* how many bytes a new row's captures may have
  MaxRecords,   \* OutboxLimits.max_records, which only v1 rows obey
  MaxId,        \* bound: rows ever inserted
  LastDay       \* bound: the last day of a behaviour

ASSUME BoundAssumption ==
  Sizes \subseteq Nat /\ MaxRecords \in Nat /\ MaxId \in Nat /\ LastDay \in Nat

VARIABLES
  rows,     \* outbox_entries
  lastId,   \* the AUTOINCREMENT counter
  today     \* the wall clock, in days

vars == <<rows, lastId, today>>

Init == rows = {} /\ lastId = 0 /\ today = 0

\* (mutant of Free: does not see parked rows)
FreeInQueue(scope, cid) == \A r \in Pending(rows) : ~IsRow(r, scope, cid)

Free(scope, cid) == \A r \in rows : ~IsRow(r, scope, cid)

PendingAt(scope, cid) == \E r \in rows : IsRow(r, scope, cid) /\ r.state = "pending"

\* (mutant of Insert: the counter stays)
InsertUnnumbered(row) == rows' = rows \cup {row} /\ lastId' = lastId

Insert(row) == rows' = rows \cup {row} /\ lastId' = row.id

\* A v2 row: signed, with its captures, never refused for space.
EnqueueActivity(scope, cid, key, started, bytes) ==
  /\ lastId < MaxId
  /\ Free(scope, cid)
  /\ Insert(NewRow(lastId + 1, scope, cid, key, started, today, bytes > 0, bytes))
  /\ UNCHANGED today

\* A v1 row: unsigned, without captures, refused when the store is full.
EnqueueV1(scope, cid, started) ==
  /\ lastId < MaxId
  /\ Free(scope, cid)
  /\ Cardinality(rows) < MaxRecords
  /\ Insert(NewRow(lastId + 1, scope, cid, NoKey, started, today, FALSE, 0))
  /\ UNCHANGED today

Ack(scope, cid) ==
  /\ ~Free(scope, cid)
  /\ rows' = AckDelivered(rows, scope, cid)
  /\ UNCHANGED <<lastId, today>>

Fail(scope, cid) ==
  /\ PendingAt(scope, cid)
  /\ rows' = MarkAttemptFailed(rows, scope, cid)
  /\ UNCHANGED <<lastId, today>>

ParkOne(scope, cid) ==
  /\ PendingAt(scope, cid)
  /\ rows' = Park(rows, scope, cid, today)
  /\ UNCHANGED <<lastId, today>>

ParkAll(scope) ==
  /\ rows' = ParkScope(rows, scope, today)
  /\ UNCHANGED <<lastId, today>>

Strip(scope, cid) ==
  /\ PendingAt(scope, cid)
  /\ rows' = StripCaptures(rows, scope, cid)
  /\ UNCHANGED <<lastId, today>>

Limit ==
  /\ UNCHANGED <<lastId, today>>
  /\ rows' = EnforceLimits(rows, today)

ExpireParked ==
  /\ rows' = PurgeParkedOld(rows, today)
  /\ UNCHANGED <<lastId, today>>

ExpireForeign(current) ==
  /\ rows' = PurgeForeignOld(rows, current, today)
  /\ UNCHANGED <<lastId, today>>

PurgeAccount(account, target) ==
  /\ rows' = Purge(rows, account, target)
  /\ UNCHANGED <<lastId, today>>

NextDay ==
  /\ today < LastDay
  /\ today' = today + 1
  /\ UNCHANGED <<rows, lastId>>

RowCall(scope, cid) ==
  \/ \E key \in Keys, started \in 0 .. today, bytes \in Sizes :
        EnqueueActivity(scope, cid, key, started, bytes)
  \/ \E started \in 0 .. today : EnqueueV1(scope, cid, started)
  \/ Ack(scope, cid)
  \/ Fail(scope, cid)
  \/ ParkOne(scope, cid)
  \/ Strip(scope, cid)

Next ==
  \/ \E scope \in Scope, cid \in Blocks : RowCall(scope, cid)
  \/ \E scope \in Scope : ParkAll(scope)
  \/ Limit
  \/ ExpireParked
  \/ \E current \in {{}} \cup {{a} : a \in Accounts} : ExpireForeign(current)
  \/ \E a \in Accounts, target \in PurgeTargets : PurgeAccount(a, target)
  \/ NextDay

Spec == Init /\ [][Next]_vars

-------------------------------------------------------------------------------
(* Type correctness: every row is well formed and was numbered by the counter. *)
TypeOK ==
  /\ rows \subseteq Row
  /\ lastId \in Nat
  /\ today \in Nat
  /\ \A r \in rows : r.id \in 1 .. lastId

(* The UNIQUE(account, workspace, client id) constraint and the primary key:   *)
(* no operation ever makes two rows of one block, or two rows of one id.  The  *)
(* acknowledgement by (scope, client id) relies on it to remove one row.       *)
Identity ==
  \A r, q \in rows :
    (r.id = q.id \/ IsRow(r, q, q.cid)) => r = q

Dropped == {r \in rows : \A q \in rows' : q.id # r.id}

(* What a row may become.  Its block, owner, key and age never change; parking *)
(* is final (never delivered again); image bytes are only ever removed, and a  *)
(* row still to be uploaded keeps the digests its signature binds.             *)
RowsOnlyDecay ==
  [][\A r \in rows, q \in rows' : q.id = r.id => Becomes(r, q)]_vars

(* QueueLimits: after enforce_limits the pending rows are few enough and young *)
(* enough, and so are those that still have images.                            *)
WithImages(s) == {r \in Pending(s) : r.bytes > 0}

WithinLimits(s, day) ==
  /\ Cardinality(Pending(s)) =< MaxPendingRows
  /\ \A r \in Pending(s) : day - r.started =< MaxAge
  /\ Cardinality(WithImages(s)) =< CaptureMaxRows
  /\ \A r \in WithImages(s) : day - r.enqueued =< CaptureMaxAge

LimitsHold == [][Limit => WithinLimits(rows', today)]_vars

(* QueueLimits: the images that enforce_limits leaves, counted from the newest *)
(* row back, fit the byte budget.                                              *)
BudgetHolds ==
  [][Limit => \A r \in WithImages(rows') : KeptBytes(rows', r) =< CaptureMaxBytes]_vars

Newer(r) == {q \in Pending(rows) : q.id > r.id}

(* The images go from the oldest row on, and no sooner than they must: a row   *)
(* that loses them is too old, or no older row keeps any and the newer rows    *)
(* leave it no place or too few bytes.  A parked row keeps what it has.        *)
ShedsOldestFirst ==
  [][Limit => \A r \in rows, q \in rows' : q.id = r.id /\ q.bytes < r.bytes =>
       /\ r.state = "pending"
       /\ \/ today - r.enqueued > CaptureMaxAge
          \/ /\ \A k \in WithImages(rows') : k.id > r.id
             /\ \/ Cardinality(Newer(r)) >= CaptureMaxRows
                \/ r.bytes + MapThenSumSet(LAMBDA k : k.bytes, Newer(r)) > CaptureMaxBytes]_vars

(* Shedding comes before dropping and the oldest go first: enforce_limits       *)
(* drops a row the server would still take only when MaxPendingRows newer ones *)
(* stay, and never touches a parked row.                                       *)
DropsOldestFirst ==
  [][Limit => \A d \in Dropped :
       /\ d.state = "pending"
       /\ TooOld(d, today) \/
            /\ Cardinality(Pending(rows')) = MaxPendingRows
            /\ \A k \in Pending(rows') : k.id > d.id]_vars
================================================================================
