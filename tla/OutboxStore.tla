------------------------------ MODULE OutboxStore ------------------------------
(***************************************************************************)
(* The durable queue of the Linux agent (clients/linux/src/outbox.rs) as   *)
(* operators on a set of rows.  Each operator is one SQLite transaction of *)
(* `Outbox`; Outbox.tla makes a state machine of them, Upload.tla composes *)
(* them with the uploader thread, the worker and the server.               *)
(*                                                                         *)
(* Data abstracted: a payload is its block (`cid`), a signature is the key *)
(* it was made with, captures are whether the row has any (`shots`: the    *)
(* digests the signature binds) and how many bytes are left (`bytes`),     *)
(* retry_count is whether an attempt failed (`tried`), times are days.     *)
(***************************************************************************)
EXTENDS Integers, FiniteSets

LOCAL INSTANCE FiniteSetsExt

CONSTANTS
  Accounts, Workspaces,   \* what a row is tagged with
  Blocks,                 \* client activity ids
  Keys, NoKey,            \* device signing keys; NoKey: a v1 row is unsigned
  CaptureMaxRows, CaptureMaxBytes, CaptureMaxAge,   \* QueueLimits, shedding
  MaxPendingRows, MaxAge,                           \* QueueLimits, dropping
  Retention               \* PARKED_RETENTION_DAYS

ASSUME LimitsAssumption ==
  /\ CaptureMaxRows \in Nat /\ CaptureMaxBytes \in Nat /\ CaptureMaxAge \in Nat
  /\ MaxPendingRows \in Nat /\ MaxAge \in Nat /\ Retention \in Nat

ASSUME KeyAssumption == NoKey \notin Keys

Scope == [account : Accounts, workspace : Workspaces]

Row == [id : Nat, account : Accounts, workspace : Workspaces, cid : Blocks,
        key : Keys \cup {NoKey}, started : Nat, enqueued : Nat,
        state : {"pending", "parked"}, parkedAt : Nat,
        shots : BOOLEAN, bytes : Nat, tried : BOOLEAN]

-------------------------------------------------------------------------------
(* Reading *)

Pending(s) == {r \in s : r.state = "pending"}

InScope(r, scope) == r.account = scope.account /\ r.workspace = scope.workspace

IsRow(r, scope, cid) == InScope(r, scope) /\ r.cid = cid

\* peek_ready: the pending rows of a scope, of which the head has the least id.
Ready(s, scope) == {r \in Pending(s) : InScope(r, scope)}

\* (mutant of HeadRow: newest first)
TailRow(s, scope) ==
  CHOOSE r \in Ready(s, scope) : \A q \in Ready(s, scope) : r.id >= q.id

HeadRow(s, scope) ==
  CHOOSE r \in Ready(s, scope) : \A q \in Ready(s, scope) : r.id =< q.id

\* pending_scopes: where `account` has pending rows.
PendingScopes(s, account) ==
  {scope \in Scope : scope.account = account /\ Ready(s, scope) # {}}

-------------------------------------------------------------------------------
(* Writing *)

NewRow(id, scope, cid, key, started, day, shots, bytes) ==
  [id |-> id, account |-> scope.account, workspace |-> scope.workspace,
   cid |-> cid, key |-> key, started |-> started, enqueued |-> day,
   state |-> "pending", parkedAt |-> 0, shots |-> shots, bytes |-> bytes,
   tried |-> FALSE]

AckDelivered(s, scope, cid) == {r \in s : ~IsRow(r, scope, cid)}

FailedForm(r) == [r EXCEPT !.tried = TRUE]

MarkAttemptFailed(s, scope, cid) ==
  {IF IsRow(r, scope, cid) /\ r.state = "pending" THEN FailedForm(r) ELSE r : r \in s}

ParkedForm(r, day) ==
  [r EXCEPT !.state = "parked", !.parkedAt = day, !.shots = FALSE, !.bytes = 0]

Park(s, scope, cid, day) ==
  {IF IsRow(r, scope, cid) /\ r.state = "pending" THEN ParkedForm(r, day) ELSE r : r \in s}

\* (mutant of ParkScope: parks what is parked again)
ParkScopeAgain(s, scope, day) ==
  {IF InScope(r, scope) THEN ParkedForm(r, day) ELSE r : r \in s}

ParkScope(s, scope, day) ==
  {IF InScope(r, scope) /\ r.state = "pending" THEN ParkedForm(r, day) ELSE r : r \in s}

\* The digests stay (shots), so the row's signature still verifies.
ShedForm(r) == [r EXCEPT !.bytes = 0]

StripCaptures(s, scope, cid) ==
  {IF IsRow(r, scope, cid) /\ r.state = "pending" THEN ShedForm(r) ELSE r : r \in s}

-------------------------------------------------------------------------------
(* enforce_limits_at *)

\* (mutant of NewerOrSelf: the window in the other order)
OlderOrSelf(s, r) == {q \in Pending(s) : q.id =< r.id}

\* The window `newest`: rows of rank at most that of r, newest first.
NewerOrSelf(s, r) == {q \in Pending(s) : q.id >= r.id}

Rank(s, r) == Cardinality(NewerOrSelf(s, r))

KeptBytes(s, r) == MapThenSumSet(LAMBDA q : q.bytes, NewerOrSelf(s, r))

\* (mutant of Sheds: the bytes are not counted)
ShedsByCount(s, r, day) ==
  /\ r.state = "pending" /\ r.bytes > 0
  /\ Rank(s, r) > CaptureMaxRows \/ day - r.enqueued > CaptureMaxAge

\* (mutant of Sheds: one row too many)
ShedsOneMore(s, r, day) ==
  /\ r.state = "pending"
  /\ r.bytes > 0
  /\ \/ Rank(s, r) >= CaptureMaxRows
     \/ KeptBytes(s, r) > CaptureMaxBytes
     \/ day - r.enqueued > CaptureMaxAge

Sheds(s, r, day) ==
  /\ r.state = "pending"
  /\ r.bytes > 0
  /\ \/ Rank(s, r) > CaptureMaxRows
     \/ KeptBytes(s, r) > CaptureMaxBytes
     \/ day - r.enqueued > CaptureMaxAge

ShedBeyondLimits(s, day) ==
  {IF Sheds(s, r, day) THEN ShedForm(r) ELSE r : r \in s}

TooOld(r, day) == r.state = "pending" /\ day - r.started > MaxAge

\* (mutant of Overflows: one too many)
OverflowsByTwo(s, r) == r.state = "pending" /\ Rank(s, r) > MaxPendingRows + 1

Overflows(s, r) == r.state = "pending" /\ Rank(s, r) > MaxPendingRows

EnforceLimits(s, day) ==
  LET shed  == ShedBeyondLimits(s, day)
      fresh == {r \in shed : ~TooOld(r, day)}
  IN  {r \in fresh : ~Overflows(fresh, r)}

-------------------------------------------------------------------------------
(* Retention and purges *)

PurgeParkedOld(s, day) ==
  {r \in s : ~(r.state = "parked" /\ day - r.parkedAt > Retention)}

\* `current` is {} when nobody is signed in.
PurgeForeignOld(s, current, day) ==
  {r \in s : ~(/\ r.state = "pending"
               /\ r.account \notin current
               /\ day - r.enqueued > Retention)}

\* PurgeTarget: Pending, Parked or All, as the set of states it removes.
PurgeTargets == {{"pending"}, {"parked"}, {"pending", "parked"}}

Purge(s, account, target) ==
  {r \in s : ~(r.account = account /\ r.state \in target)}

-------------------------------------------------------------------------------
(* What becomes of a row (r before, q after), whoever touches it *)

SameBlock(q, r) ==
  /\ q.account = r.account /\ q.workspace = r.workspace /\ q.cid = r.cid
  /\ q.key = r.key /\ q.started = r.started /\ q.enqueued = r.enqueued

Becomes(r, q) ==
  /\ q.id = r.id
  /\ SameBlock(q, r)
  /\ r.state = "parked" => q = r
  /\ q.state = "pending" => q.shots = r.shots
  /\ q.bytes \in {0, r.bytes}
  /\ r.tried => q.tried
================================================================================
