--------------------------------- MODULE Upload ---------------------------------
(***************************************************************************)
(* From the agent's queue to the server: the worker (agent/worker.rs), the *)
(* uploader thread (agent/uploader.rs with sync.rs and the transport of    *)
(* api.rs) and the server's ingest (ActivityAppService.CreateAsync), over  *)
(* the store of OutboxStore.  Worker and uploader hold a connection to the *)
(* store each and talk through two queues: `cmds` and `events`.  A step is *)
(* what one of them does between two points where the other may run: one   *)
(* transaction, one command taken, one request or answer.                  *)
(*                                                                         *)
(* Days do not pass here (the ages are Outbox.tla's); the wall clock is    *)
(* only `hold`, whether the uploader's not_before is in the future.        *)
(***************************************************************************)
EXTENDS OutboxStore, Sequences

LOCAL INSTANCE FiniteSetsExt

CONSTANTS
  None,         \* no account, no workspace, no block
  MaxSession,   \* bound: sign-ins of a behaviour
  MaxWaiting,   \* bound: commands and events waiting when the user acts
  Sizes,        \* bytes of a new block's captures
  Troubled,     \* scopes that may be lost or revoked in this instance
  Uses,         \* what the user and the machine do in this instance
  Faults        \* what goes wrong in this instance

AllUses == {"sleep", "away", "sync", "purge", "discard", "signOut", "signIn", "switch",
            "quit", "restart"}

AllFaults == {"lost", "late", "busy", "reject", "tooLarge", "unauthorized",
              "noAccess", "revoke", "erase", "db", "crash"}

ASSUME UploadAssumption ==
  /\ MaxSession \in Nat \ {0} /\ MaxWaiting \in Nat /\ Sizes \subseteq Nat
  /\ Uses \subseteq AllUses /\ Faults \subseteq AllFaults
  /\ Troubled \subseteq Scope
  /\ Keys = 1 .. MaxSession /\ IsFiniteSet(Blocks)
  /\ None \notin Accounts \cup Workspaces \cup Blocks \cup Scope

VARIABLES
  rows, lastId,   \* the store
  acct,           \* worker: the signed-in account, or None
  expired,        \* worker: its sign-in was refused
  revokedHere,    \* worker: the device is revoked in its workspace
  suspended,      \* worker: the machine is about to sleep or asleep
  discarding,     \* a sign-out that discards has purged, not yet signed out
  quitting,       \* the process is on its way out
  keyring,        \* the credential store: each account's signing key
  sessions,       \* the owner of every sign-in made
  cmds,           \* worker -> uploader
  events,         \* uploader -> worker
  cur,            \* uploader: the account it uploads for, or None
  hold,           \* uploader: not_before is in the future
  pc, mode,       \* uploader: where it is, and for which drain
  todo,           \* uploader: scopes the drain still has to visit
  deferred,       \* uploader: commands taken during the drain
  entry,          \* uploader: the row being delivered (with what it sent)
  answer,         \* uploader: what came back
  late,           \* requests given up on that may still arrive
  stored, erased, \* server: blocks held, blocks an owner deleted
  access, revoked,\* server: memberships, revoked devices
  refused,        \* server: sign-ins whose tokens are refused
  origin,         \* history: the scope each block was recorded under
  discarded       \* history: rows purged or dropped by the limits

storeVars  == <<rows, lastId, origin, discarded>>
workerVars == <<acct, expired, revokedHere, suspended, discarding, quitting, keyring, sessions>>
driveVars  == <<pc, mode, todo, entry, answer>>
serverVars == <<stored, erased, access, revoked, refused>>
vars == <<storeVars, workerVars, cmds, events, cur, hold, driveVars, deferred, late, serverVars>>

Account == [owner : Accounts, workspace : Workspaces \cup {None},
            key : Keys \cup {NoKey}, session : 1 .. MaxSession]

ScopeOf(owner, workspace) == [account |-> owner, workspace |-> workspace]

\* (mutant of Unrecorded: a recorded block is recorded again)
RecordedAgain == Blocks

\* A new block's id is random: any unused one stands for it.
Unrecorded == LET unused == {b \in Blocks : origin[b] = None}
              IN  {b \in unused : b = CHOOSE c \in unused : TRUE}

-------------------------------------------------------------------------------
(* Initially: signed in, the account on its way to the uploader. *)

Init ==
  /\ rows = {} /\ lastId = 0
  /\ origin = [b \in Blocks |-> None] /\ discarded = {}
  /\ \E o \in Accounts, w \in Workspaces :
       acct = [owner |-> o, workspace |-> w, key |-> 1, session |-> 1]
  /\ keyring = [a \in Accounts |-> IF a = acct.owner THEN 1 ELSE NoKey]
  /\ sessions = <<acct.owner>>
  /\ expired = FALSE /\ revokedHere = FALSE /\ suspended = FALSE
  /\ discarding = FALSE /\ quitting = FALSE
  /\ cmds = <<[op |-> "account", arg |-> acct]>> /\ events = <<>>
  /\ cur = None /\ hold = FALSE /\ pc = "idle" /\ mode = "pass"
  /\ todo = <<>> /\ deferred = <<>> /\ entry = None /\ answer = None
  /\ late = {} /\ stored = {} /\ erased = {} /\ access = Scope
  /\ revoked = {} /\ refused = {}

Cmd(op, arg) == [op |-> op, arg |-> arg]
Event(op, owner, workspace) == [op |-> op, owner |-> owner, workspace |-> workspace]

-------------------------------------------------------------------------------
(* The worker *)

\* The block the handler queues: one not recorded yet, or None when nothing is
\* tracked or it is too short.  `record` sheds and drops in the same call.
Tracking == acct # None /\ ~expired /\ ~revokedHere /\ ~suspended /\ ~quitting
            /\ acct.workspace # None

LastBlock == IF Tracking THEN {None} \cup Unrecorded ELSE {None}

Record(b, bytes) ==
  IF b = None THEN UNCHANGED storeVars
  ELSE LET scope == ScopeOf(acct.owner, acct.workspace)
           with  == rows \cup {NewRow(lastId + 1, scope, b, acct.key, 0, 0, bytes > 0, bytes)}
       IN  /\ rows' = EnforceLimits(with, 0)
           /\ lastId' = lastId + 1
           /\ origin' = [origin EXCEPT ![b] = scope]
           /\ discarded' = discarded \cup ({r.cid : r \in with} \ {r.cid : r \in rows'})

\* record() announces what it queued; nothing before sleep.
Queued(b) == IF b = None THEN <<>> ELSE <<Cmd("rowsQueued", None)>>

Send(list) == cmds' = cmds \o list

\* The bound: the user waits while this much is still on its way.
Room == Len(cmds) + Len(events) < MaxWaiting

WorkerRest == UNCHANGED <<events, cur, hold, driveVars, deferred, late, serverVars>>

RecordBlock ==
  /\ \E b \in LastBlock \ {None}, bytes \in Sizes : Record(b, bytes) /\ Send(Queued(b))
  /\ UNCHANGED workerVars /\ WorkerRest

\* resolve_away: kept time is queued even when the sign-in has expired.
KeepAway ==
  /\ "away" \in Uses /\ acct # None /\ ~quitting /\ acct.workspace # None
  /\ \E b \in Unrecorded : Record(b, 0) /\ Send(Queued(b))
  /\ UNCHANGED workerVars /\ WorkerRest

Suspend ==
  /\ "sleep" \in Uses /\ ~suspended /\ ~quitting /\ Room
  /\ \E b \in LastBlock, bytes \in Sizes : Record(b, bytes)
  /\ suspended' = TRUE
  /\ UNCHANGED <<acct, expired, revokedHere, discarding, quitting, keyring, sessions, cmds>>
  /\ WorkerRest

\* (mutant of Resume: what was queued before the sleep is not announced)
ResumeQuietly ==
  /\ suspended /\ ~quitting
  /\ suspended' = FALSE
  /\ UNCHANGED <<storeVars, cmds, acct, expired, revokedHere, discarding, quitting, keyring, sessions>>
  /\ WorkerRest

Resume ==
  /\ suspended /\ ~quitting
  /\ suspended' = FALSE
  /\ Send(<<Cmd("rowsQueued", None)>>)
  /\ UNCHANGED <<storeVars, acct, expired, revokedHere, discarding, quitting, keyring, sessions>>
  /\ WorkerRest

\* The bound: the user asks again once the last request was heard.
SyncNow ==
  /\ "sync" \in Uses /\ ~quitting
  /\ \A list \in {cmds, deferred} : \A i \in DOMAIN list : list[i].op # "now"
  /\ \E b \in LastBlock, bytes \in Sizes :
       Record(b, bytes) /\ Send(Queued(b) \o <<Cmd("now", None)>>)
  /\ UNCHANGED workerVars /\ WorkerRest

PurgeRows(target) ==
  /\ rows' = Purge(rows, acct.owner, target)
  /\ discarded' = discarded \cup ({r.cid : r \in rows} \ {r.cid : r \in rows'})
  /\ UNCHANGED <<lastId, origin, cmds>>

PurgeQueue ==
  /\ "purge" \in Uses /\ acct # None /\ ~quitting /\ ~discarding
  /\ \E target \in PurgeTargets : PurgeRows(target)
  /\ UNCHANGED workerVars /\ WorkerRest

\* auth.sign_out with discard_unsent: the purge is a command of its own.
Discard ==
  /\ "discard" \in Uses /\ acct # None /\ ~quitting /\ ~discarding
  /\ PurgeRows({"pending", "parked"})
  /\ discarding' = TRUE
  /\ UNCHANGED <<acct, expired, revokedHere, suspended, quitting, keyring, sessions>>
  /\ WorkerRest

SignOut ==
  /\ acct # None /\ ~quitting /\ (discarding \/ "signOut" \in Uses)
  /\ \E b \in LastBlock, bytes \in Sizes :
       Record(b, bytes) /\ Send(Queued(b) \o <<Cmd("signOut", None)>>)
  /\ keyring' = [keyring EXCEPT ![acct.owner] = NoKey]
  /\ acct' = None /\ expired' = FALSE /\ revokedHere' = FALSE /\ discarding' = FALSE
  /\ UNCHANGED <<suspended, quitting, sessions>>
  /\ WorkerRest

\* The key is kept across sign-ins while the keyring has it; else a new one.
SignIn(o, w) ==
  LET s    == Len(sessions) + 1
      key  == IF keyring[o] = NoKey THEN s ELSE keyring[o]
      a    == [owner |-> o, workspace |-> w, key |-> key, session |-> s]
  IN  /\ "signIn" \in Uses /\ s =< MaxSession /\ ~quitting /\ ~discarding
      /\ acct = None \/ expired
      /\ UNCHANGED storeVars
      /\ acct' = a /\ keyring' = [keyring EXCEPT ![o] = key]
      /\ sessions' = Append(sessions, o)
      /\ expired' = FALSE /\ revokedHere' = FALSE
      /\ Send(<<Cmd("account", a)>>)
      /\ UNCHANGED <<suspended, discarding, quitting>>
      /\ WorkerRest

Switch(w) ==
  LET a == [acct EXCEPT !.workspace = w]
  IN  /\ "switch" \in Uses /\ acct # None /\ ~expired /\ ~quitting /\ ~discarding
      /\ acct.workspace # w
      /\ Room
      /\ \E b \in LastBlock, bytes \in Sizes :
           Record(b, bytes) /\ Send(Queued(b) \o <<Cmd("account", a)>>)
      /\ acct' = a /\ revokedHere' = FALSE
      \* The revocation cleared the saved secrets: kept for the new workspace.
      /\ keyring' = IF revokedHere THEN [keyring EXCEPT ![acct.owner] = acct.key] ELSE keyring
      /\ UNCHANGED <<expired, suspended, discarding, quitting, sessions>>
      /\ WorkerRest

\* (mutant of Expire: the uploader is not told)
ExpireQuietly ==
  /\ \E b \in LastBlock, bytes \in Sizes : Record(b, bytes) /\ Send(Queued(b))
  /\ expired' = TRUE
  /\ UNCHANGED <<acct, revokedHere, suspended, discarding, quitting, keyring, sessions>>

\* expire(): tracking stops, the queue is kept, nothing more is uploaded.
Expire ==
  /\ \E b \in LastBlock, bytes \in Sizes :
       Record(b, bytes) /\ Send(Queued(b) \o <<Cmd("noAccount", None)>>)
  /\ expired' = TRUE
  /\ UNCHANGED <<acct, revokedHere, suspended, discarding, quitting, keyring, sessions>>

\* A control request of the worker (projects, heartbeat) was refused.
ControlExpired ==
  /\ acct # None /\ ~expired /\ ~quitting /\ acct.session \in refused
  /\ Expire
  /\ WorkerRest

LoseWorkspace ==
  LET a == [acct EXCEPT !.workspace = None]
  IN  /\ \E b \in LastBlock, bytes \in Sizes :
           Record(b, bytes)
             /\ Send(Queued(b) \o <<Cmd("rowsQueued", None), Cmd("account", a)>>)
      /\ acct' = a
      /\ UNCHANGED <<expired, revokedHere, suspended, discarding, quitting, keyring, sessions>>

\* (mutant of LoseDevice: the worker parks the rows itself, over its connection)
LoseDeviceAtOnce(workspace) ==
  /\ rows' = ParkScope(rows, ScopeOf(acct.owner, workspace), 0)
  /\ revokedHere' = TRUE
  /\ keyring' = [keyring EXCEPT ![acct.owner] = NoKey]
  /\ UNCHANGED <<lastId, origin, discarded, cmds, acct, expired, suspended, discarding, quitting, sessions>>

LoseDevice(workspace) ==
  /\ \E b \in LastBlock, bytes \in Sizes :
       Record(b, bytes) /\ Send(Queued(b) \o <<Cmd("parkScope", workspace)>>)
  /\ revokedHere' = TRUE
  /\ keyring' = [keyring EXCEPT ![acct.owner] = NoKey]
  /\ UNCHANGED <<acct, expired, suspended, discarding, quitting, sessions>>

\* The control task learns of either before the uploader does.
ControlBlocked ==
  /\ acct # None /\ ~quitting /\ acct.workspace # None /\ acct.session \notin refused
  /\ LET scope == ScopeOf(acct.owner, acct.workspace)
     IN  \/ scope \notin access /\ ~expired /\ LoseWorkspace
         \/ scope \in access \cap revoked /\ ~revokedHere /\ LoseDevice(acct.workspace)
  /\ WorkerRest

\* on_upload: an event of another account is ignored; so is, by the handler,
\* one that no longer changes anything.
Applies(e) ==
  /\ acct # None /\ acct.owner = e.owner
  /\ CASE e.op = "signInExpired" -> ~expired
       [] e.op = "workspaceLost" -> ~expired /\ acct.workspace = e.workspace
       [] e.op = "deviceRevoked" -> ~revokedHere /\ acct.workspace = e.workspace

OnUpload ==
  /\ events # <<>> /\ ~quitting
  /\ events' = Tail(events)
  /\ LET e == Head(events)
     IN  \/ Applies(e) /\ e.op = "signInExpired" /\ Expire
         \/ Applies(e) /\ e.op = "workspaceLost" /\ LoseWorkspace
         \/ Applies(e) /\ e.op = "deviceRevoked" /\ LoseDevice(e.workspace)
         \/ ~Applies(e) /\ UNCHANGED <<storeVars, workerVars, cmds>>
  /\ UNCHANGED <<cur, hold, driveVars, deferred, late, serverVars>>

Quit ==
  /\ "quit" \in Uses /\ ~quitting
  /\ \E b \in LastBlock, bytes \in Sizes :
       Record(b, bytes) /\ Send(Queued(b) \o <<Cmd("shutdown", None)>>)
  /\ quitting' = TRUE
  /\ UNCHANGED <<acct, expired, revokedHere, suspended, discarding, keyring, sessions>>
  /\ WorkerRest

-------------------------------------------------------------------------------
(* The uploader: its loop and the commands *)

PendingOf(account) == {r \in Pending(rows) : r.account = account}

\* The one order of those scopes in which each one's oldest row comes before the
\* oldest rows of the scopes after it.
OldestFirst(account) ==
  LET scopes == PendingScopes(rows, account)
  IN  {list \in [1 .. Cardinality(scopes) -> scopes] : \A i, j \in DOMAIN list :
         i < j => HeadRow(rows, list[i]).id < HeadRow(rows, list[j]).id}

UploaderRest == UNCHANGED <<lastId, origin, discarded, workerVars>>

StartDrain(kind) == mode' = kind /\ todo' \in OldestFirst(cur.owner) /\ pc' = "scope"

WorkWaits == cur # None /\ PendingOf(cur.owner) # {}

\* run: a pass when something is ready.
Begin ==
  /\ pc = "idle" /\ ~hold /\ WorkWaits
  /\ StartDrain("pass")
  /\ UNCHANGED <<rows, cmds, events, cur, hold, deferred, entry, answer, late, serverVars>>
  /\ UploaderRest

\* recv, or recv_timeout when next_wake has a retry to wait for.
Block ==
  /\ pc = "idle" /\ (hold \/ ~WorkWaits)
  /\ pc' = IF hold /\ WorkWaits THEN "timed" ELSE "blocked"
  /\ UNCHANGED <<rows, cmds, events, cur, hold, mode, todo, deferred, entry, answer, late, serverVars>>
  /\ UploaderRest

\* The look at the queue fails, for run and for next_wake: nothing seems to wait,
\* and only a command wakes the thread again, whatever is queued or on hold.
Overlook ==
  /\ "db" \in Faults /\ pc = "idle" /\ WorkWaits
  /\ pc' = "unaware"
  /\ UNCHANGED <<rows, cmds, events, cur, hold, mode, todo, deferred, entry, answer, late, serverVars>>
  /\ UploaderRest

HoldElapses ==
  /\ hold /\ hold' = FALSE
  /\ UNCHANGED <<storeVars, workerVars, cmds, events, cur, driveVars, deferred, late, serverVars>>

Timer ==
  /\ pc = "timed" /\ ~hold
  /\ pc' = "idle"
  /\ UNCHANGED <<rows, cmds, events, cur, hold, mode, todo, deferred, entry, answer, late, serverVars>>
  /\ UploaderRest

Take ==
  /\ pc \in {"blocked", "timed", "unaware"} /\ cmds # <<>>
  /\ deferred' = <<Head(cmds)>> /\ cmds' = Tail(cmds)
  /\ pc' = "apply"
  /\ UNCHANGED <<rows, events, cur, hold, mode, todo, entry, answer, late, serverVars>>
  /\ UploaderRest

AfterCommands(left) == IF left = <<>> THEN "idle" ELSE "apply"

\* apply, for the commands done at once.
ApplyNow ==
  /\ pc = "apply"
  /\ deferred' = Tail(deferred) /\ pc' = AfterCommands(deferred')
  /\ LET c == Head(deferred)
     IN  \/ c.op = "account" /\ cur' = c.arg /\ hold' = FALSE /\ UNCHANGED rows
         \/ c.op = "noAccount" /\ cur' = None /\ hold' = FALSE /\ UNCHANGED rows
         \/ c.op = "signOut" /\ cur = None /\ hold' = FALSE /\ UNCHANGED <<rows, cur>>
         \/ c.op = "rowsQueued" /\ UNCHANGED <<rows, cur, hold>>
         \/ c.op = "now" /\ hold' = FALSE /\ UNCHANGED <<rows, cur>>
         \/ /\ c.op = "parkScope"
            /\ \/ cur # None /\ rows' = ParkScope(rows, ScopeOf(cur.owner, c.arg), 0)
               \/ (cur = None \/ "db" \in Faults) /\ UNCHANGED rows
            /\ UNCHANGED <<cur, hold>>
  /\ UNCHANGED <<cmds, events, mode, todo, entry, answer, late, serverVars>>
  /\ UploaderRest

\* apply, for signing out and quitting with an account: a last bounded drain.
ApplyFinal ==
  /\ pc = "apply" /\ cur # None
  /\ Head(deferred).op \in {"signOut", "shutdown"}
  /\ deferred' = Tail(deferred)
  /\ StartDrain(Head(deferred).op)
  /\ UNCHANGED <<rows, cmds, events, cur, hold, entry, answer, late, serverVars>>
  /\ UploaderRest

ApplyShutdown ==
  /\ pc = "apply" /\ cur = None /\ Head(deferred).op = "shutdown"
  /\ deferred' = <<>> /\ pc' = "exited"
  /\ UNCHANGED <<rows, cmds, events, cur, hold, mode, todo, entry, answer, late, serverVars>>
  /\ UploaderRest

-------------------------------------------------------------------------------
(* The uploader: a drain *)

\* (mutant of EndDrain: a sign-out keeps the account)
EndDrainKeeping(account, wait) ==
  /\ cur' = account /\ hold' = wait
  /\ pc' = IF mode = "shutdown" THEN "exited" ELSE AfterCommands(deferred')
  /\ mode' = "pass" /\ todo' = <<>> /\ entry' = None /\ answer' = None

\* (mutant of EndDrain: the thread goes on after a shutdown)
EndDrainGoingOn(account, wait) ==
  /\ cur' = IF mode = "signOut" THEN None ELSE account
  /\ hold' = (wait /\ mode # "signOut")
  /\ pc' = AfterCommands(deferred')
  /\ mode' = "pass" /\ todo' = <<>> /\ entry' = None /\ answer' = None

\* The drain is over; `account` and `wait` are what it leaves.  A sign-out then
\* drops the account, a shutdown ends the thread, a pass applies what it heard.
EndDrain(account, wait) ==
  /\ cur' = IF mode = "signOut" THEN None ELSE account
  /\ hold' = (wait /\ mode # "signOut")
  /\ pc' = IF mode = "shutdown" THEN "exited" ELSE AfterCommands(deferred')
  /\ mode' = "pass" /\ todo' = <<>> /\ entry' = None /\ answer' = None

NextRow ==
  /\ pc' = "scope" /\ entry' = None /\ answer' = None
  /\ UNCHANGED <<cur, hold, mode, todo>>

NextScope ==
  /\ pc' = "scope" /\ todo' = Tail(todo) /\ entry' = None /\ answer' = None
  /\ UNCHANGED <<cur, hold, mode>>

ScopeHere == Head(todo)

\* UploadCommand::deadline: at once, or only after a grace.
CutsNow(list) == \E i \in DOMAIN list : list[i].op \in {"account", "noAccount", "parkScope"}
CutsLater(list) == \E i \in DOMAIN list : list[i].op \in {"signOut", "shutdown"}

\* Between two rows: a pass takes the waiting commands, a final drain looks at
\* its deadline only.
Poll ==
  /\ pc = "scope" /\ todo # <<>>
  /\ deferred' = IF mode = "pass" THEN deferred \o cmds ELSE deferred
  /\ cmds' = IF mode = "pass" THEN <<>> ELSE cmds
  /\ \/ /\ ~(mode = "pass" /\ CutsNow(deferred'))
        /\ pc' = "peek"
        /\ UNCHANGED <<cur, hold, mode, todo, entry, answer>>
     \/ /\ mode # "pass" \/ CutsNow(deferred') \/ CutsLater(deferred')
        /\ EndDrain(cur, hold)
  /\ UNCHANGED <<rows, events, late, serverVars>>
  /\ UploaderRest

Drained ==
  /\ pc = "scope" /\ todo = <<>>
  /\ UNCHANGED <<rows, cmds, events, deferred, late, serverVars>>
  /\ EndDrain(cur, hold)
  /\ UploaderRest

\* The row as the pass carries it along, its captures still to be loaded.
Sending(r) == [id |-> r.id, cid |-> r.cid, key |-> r.key, shots |-> r.shots,
               bytes |-> 0, stripped |-> FALSE]

Peek ==
  /\ pc = "peek"
  /\ \/ Ready(rows, ScopeHere) = {} /\ NextScope
     \/ /\ Ready(rows, ScopeHere) # {}
        /\ entry' = Sending(HeadRow(rows, ScopeHere)) /\ pc' = "load"
        /\ UNCHANGED <<cur, hold, mode, todo, answer>>
  /\ UNCHANGED <<rows, cmds, events, deferred, late, serverVars>>
  /\ UploaderRest

\* load_captures, then the check of the row's signature: it covers the digests
\* stored next to the captures, and only this account's key verifies it.
Load ==
  LET kept  == {r \in rows : r.id = entry.id}
      bytes == MapThenSumSet(LAMBDA r : r.bytes, kept)
      shots == \E r \in kept : r.shots
      ok    == entry.key = cur.key /\ shots = entry.shots
  IN  /\ pc = "load"
      /\ entry' = [entry EXCEPT !.bytes = bytes]
      /\ pc' = IF ok THEN "wait" ELSE "settle"
      /\ answer' = IF ok THEN None ELSE "tampered"
      /\ UNCHANGED <<rows, cmds, events, cur, hold, mode, todo, deferred, late, serverVars>>
      /\ UploaderRest

\* (mutant of Request: names the workspace tracked in, not the row's)
RequestWhereTracking == [session |-> cur.session, workspace |-> cur.workspace,
                         cid |-> entry.cid, bytes |-> entry.bytes]

\* The request on the wire: the token says who, the header where.
Request == [session |-> cur.session, workspace |-> ScopeHere.workspace,
            cid |-> entry.cid, bytes |-> entry.bytes]

-------------------------------------------------------------------------------
(* The server, and the network *)

HeldAs(q) == [account |-> sessions[q.session], workspace |-> q.workspace, cid |-> q.cid]
ScopeAt(q) == ScopeOf(sessions[q.session], q.workspace)

\* CreateAsync behind the gateway: what it answers, and whether it stores.
\* The body's size, the sign-in and the membership are looked at first; then
\* the block's own record, before anything else that may have changed since.
MayAnswer(q, a, stores) ==
  LET admitted == q.session \notin refused /\ ScopeAt(q) \in access
      known    == HeldAs(q) \in stored \cup erased
      device   == ScopeAt(q) \in revoked
  IN  \/ a = "tooLarge" /\ "tooLarge" \in Faults /\ ~stores
      \/ a = "busy" /\ "busy" \in Faults /\ ~stores
      \/ a = "unauthorized" /\ q.session \in refused /\ ~stores
      \/ a = "noAccess" /\ q.session \notin refused /\ ScopeAt(q) \notin access /\ ~stores
      \/ a = "ok" /\ admitted /\ HeldAs(q) \in stored /\ ~stores
      \/ a = "deleted" /\ admitted /\ HeldAs(q) \in erased /\ ~stores
      \/ a = "deviceRevoked" /\ admitted /\ ~known /\ device /\ ~stores
      \/ a = "rejected" /\ "reject" \in Faults /\ admitted /\ ~known /\ ~device /\ ~stores
      \/ a = "ok" /\ admitted /\ ~known /\ ~device /\ stores

Answers == {"ok", "tooLarge", "busy", "unauthorized", "noAccess", "deleted",
            "deviceRevoked", "rejected"}

Kept(q, stores) == stored' = IF stores THEN stored \cup {HeldAs(q)} ELSE stored

ServerAnswer ==
  /\ pc = "wait"
  /\ \E a \in Answers, stores \in BOOLEAN :
       MayAnswer(Request, a, stores) /\ Kept(Request, stores) /\ answer' = a
  /\ pc' = "settle"
  /\ UNCHANGED <<storeVars, workerVars, cmds, events, cur, hold, mode, todo, deferred, entry,
                 late, erased, access, revoked, refused>>

\* No connection, no answer in time, or an answer lost on its way: the request
\* was lost, was handled, or is still on its way.
NoAnswer ==
  /\ pc = "wait" /\ "lost" \in Faults
  /\ \/ UNCHANGED <<stored, late>>
     \/ \E a \in Answers : MayAnswer(Request, a, TRUE) /\ Kept(Request, TRUE) /\ UNCHANGED late
     \/ "late" \in Faults /\ late' = late \cup {Request} /\ UNCHANGED stored
  /\ answer' = "network" /\ pc' = "settle"
  /\ UNCHANGED <<storeVars, workerVars, cmds, events, cur, hold, mode, todo, deferred, entry,
                 erased, access, revoked, refused>>

LateArrival ==
  /\ \E q \in late : /\ late' = late \ {q}
                     /\ \E a \in Answers, stores \in BOOLEAN :
                          MayAnswer(q, a, stores) /\ Kept(q, stores)
  /\ UNCHANGED <<storeVars, workerVars, cmds, events, cur, hold, driveVars, deferred,
                 erased, access, revoked, refused>>

\* What people do at the server meanwhile.
World ==
  /\ \/ /\ "unauthorized" \in Faults
        /\ \E s \in 1 .. Len(sessions) : s \notin refused /\ refused' = refused \cup {s}
        /\ UNCHANGED <<stored, erased, access, revoked>>
     \/ /\ "noAccess" \in Faults
        /\ \E scope \in access \cap Troubled : access' = access \ {scope}
        /\ UNCHANGED <<stored, erased, revoked, refused>>
     \/ /\ "revoke" \in Faults
        /\ \E scope \in Troubled \ revoked : revoked' = revoked \cup {scope}
        /\ UNCHANGED <<stored, erased, access, refused>>
     \/ /\ "erase" \in Faults
        /\ \E block \in stored : stored' = stored \ {block} /\ erased' = erased \cup {block}
        /\ UNCHANGED <<access, revoked, refused>>
  /\ UNCHANGED <<storeVars, workerVars, cmds, events, cur, hold, driveVars, deferred, late>>

-------------------------------------------------------------------------------
(* The uploader: what it does with an answer *)

\* (mutant of Outcome: no answer counts as delivered)
OptimisticOutcome(a) ==
  CASE a \in {"ok", "network"} -> "accepted"
    [] a \in {"busy", "deleted"} -> "later"
    [] a \in {"rejected", "tampered"} -> "park"
    [] a = "tooLarge" -> "strip"
    [] a \in {"unauthorized", "noAccess", "deviceRevoked", "scopeRevoked"} -> a

\* classify_upload_failure, delivery_outcome_of: a code the agent does not
\* know, the server's trouble and no answer all mean "later".
Outcome(a) ==
  CASE a = "ok" -> "accepted"
    [] a \in {"busy", "network", "deleted"} -> "later"
    [] a \in {"rejected", "tampered"} -> "park"
    [] a = "tooLarge" -> "strip"
    [] a \in {"unauthorized", "noAccess", "deviceRevoked", "scopeRevoked"} -> a

InStore == \E r \in rows : IsRow(r, ScopeHere, entry.cid)
StillPending == \E r \in Pending(rows) : IsRow(r, ScopeHere, entry.cid)

Settling(outcome) == pc = "settle" /\ Outcome(answer) = outcome
SettleRest == UNCHANGED <<cmds, deferred, late, serverVars>> /\ UploaderRest

\* The row is not there any more: the pass stops and comes back later.
NotFound == EndDrain(cur, TRUE) /\ UNCHANGED rows

Accepted ==
  /\ Settling("accepted") /\ SettleRest
  /\ \/ InStore /\ rows' = AckDelivered(rows, ScopeHere, entry.cid) /\ NextRow
     \/ ~InStore /\ NotFound
  /\ UNCHANGED events

Later ==
  /\ Settling("later") /\ SettleRest
  /\ rows' = MarkAttemptFailed(rows, ScopeHere, entry.cid)
  /\ EndDrain(cur, TRUE)
  /\ UNCHANGED events

ParkRow ==
  \/ StillPending /\ rows' = Park(rows, ScopeHere, entry.cid, 0) /\ NextRow
  \/ ~StillPending /\ NotFound

Refused ==
  /\ Settling("park") /\ SettleRest
  /\ ParkRow
  /\ UNCHANGED events

\* Resent once without its images; a row without any is parked.
TooLarge ==
  LET images == \E r \in Pending(rows) : IsRow(r, ScopeHere, entry.cid) /\ r.bytes > 0
  IN  /\ Settling("strip") /\ SettleRest
      /\ \/ /\ ~entry.stripped /\ images
            /\ rows' = StripCaptures(rows, ScopeHere, entry.cid)
            /\ entry' = [entry EXCEPT !.bytes = 0, !.stripped = TRUE]
            /\ answer' = None /\ pc' = "wait"
            /\ UNCHANGED <<cur, hold, mode, todo>>
         \/ (entry.stripped \/ ~images) /\ ParkRow
      /\ UNCHANGED events

SignInRefused ==
  /\ Settling("unauthorized") /\ SettleRest
  /\ events' = Append(events, Event("signInExpired", cur.owner, None))
  /\ EndDrain(None, hold)
  /\ UNCHANGED rows

\* A revoked device: this row is parked first, then the rest of the scope.
DeviceRevoked ==
  /\ Settling("deviceRevoked") /\ SettleRest
  /\ \/ /\ StillPending
        /\ rows' = Park(rows, ScopeHere, entry.cid, 0)
        /\ answer' = "scopeRevoked"
        /\ UNCHANGED <<cur, hold, pc, mode, todo, entry>>
     \/ ~StillPending /\ NotFound
  /\ UNCHANGED events

ScopeBlocked ==
  /\ pc = "settle" /\ answer \in {"noAccess", "scopeRevoked"} /\ SettleRest
  /\ rows' = ParkScope(rows, ScopeHere, 0)
  /\ LET w == ScopeHere.workspace
     IN  events' = IF answer = "scopeRevoked"
                   THEN Append(events, Event("deviceRevoked", cur.owner, w))
                   ELSE IF cur.workspace = w
                   THEN Append(events, Event("workspaceLost", cur.owner, w))
                   ELSE events
  /\ NextScope

\* A call to the store fails (a full disk, a lock): retried in a minute.  Where
\* a pass begins, it is the list of scopes that cannot be read.
StoreFails ==
  /\ "db" \in Faults /\ SettleRest
  /\ \/ pc = "idle" /\ ~hold /\ WorkWaits
     \/ pc \in {"peek", "load"}
     \/ pc = "settle" /\ answer # "unauthorized"
  /\ EndDrain(cur, TRUE)
  /\ UNCHANGED <<rows, events>>

-------------------------------------------------------------------------------
\* The process ends (a crash, or after quit) and starts again: what the store,
\* the keyring and the session file keep is all that is left.
Restart ==
  /\ "crash" \in Faults \/ (quitting /\ "restart" \in Uses)
  /\ quitting' = FALSE /\ suspended' = FALSE /\ discarding' = FALSE /\ revokedHere' = FALSE
  /\ LET known == acct # None /\ keyring[acct.owner] # NoKey
         again == [acct EXCEPT !.key = keyring[acct.owner]]
     IN  /\ acct' = IF acct = None THEN None ELSE again
         /\ expired' = (acct # None /\ ~known)
         /\ cmds' = IF known THEN <<Cmd("account", again)>> ELSE <<>>
  /\ events' = <<>> /\ cur' = None /\ hold' = FALSE
  /\ pc' = "idle" /\ mode' = "pass" /\ todo' = <<>> /\ deferred' = <<>>
  /\ entry' = None /\ answer' = None
  /\ late' = IF pc = "wait" THEN late \cup {Request} ELSE late
  /\ UNCHANGED <<storeVars, keyring, sessions, serverVars>>

Worker ==
  \/ RecordBlock \/ KeepAway \/ Suspend \/ Resume \/ SyncNow
  \/ PurgeQueue \/ Discard \/ SignOut
  \/ \E o \in Accounts, w \in Workspaces : SignIn(o, w)
  \/ \E w \in Workspaces : Switch(w)
  \/ ControlExpired \/ ControlBlocked \/ OnUpload \/ Quit

Loop == Begin \/ Block \/ Timer \/ Take \/ ApplyNow \/ ApplyFinal \/ ApplyShutdown

Settle == Accepted \/ Later \/ Refused \/ TooLarge \/ SignInRefused
          \/ DeviceRevoked \/ ScopeBlocked

Drain == Poll \/ Drained \/ Peek \/ Load \/ Settle

Network == ServerAnswer \/ NoAnswer \/ LateArrival

Next == Worker \/ Loop \/ HoldElapses \/ Drain \/ StoreFails \/ Overlook
        \/ Network \/ World \/ Restart

Spec == Init /\ [][Next]_vars

\* The threads run on, waits end, the store's calls succeed again and again (the
\* look that begins a pass, reading, and writing what an answer means), and so
\* does reaching the server: what the code relies on to make progress.
Fairness ==
  /\ WF_vars(Loop) /\ WF_vars(HoldElapses) /\ WF_vars(OnUpload)
  /\ WF_vars(Poll) /\ WF_vars(Drained)
  /\ SF_vars(Begin) /\ SF_vars(Peek) /\ SF_vars(Load) /\ WF_vars(Settle)
  /\ SF_vars(Settle /\ answer \notin {"busy", "network"})
  /\ SF_vars(ServerAnswer /\ answer' # "busy")

FairSpec == Spec /\ Fairness

-------------------------------------------------------------------------------
(* Type correctness. *)
TypeOK ==
  /\ rows \subseteq Row /\ lastId \in 0 .. Cardinality(Blocks)
  /\ acct \in Account \cup {None} /\ cur \in Account \cup {None}
  /\ {expired, revokedHere, suspended, discarding, quitting, hold} \subseteq BOOLEAN
  /\ keyring \in [Accounts -> Keys \cup {NoKey}]
  /\ sessions \in Seq(Accounts) /\ Len(sessions) =< MaxSession
  /\ \A i \in DOMAIN cmds : cmds[i].op \in {"account", "noAccount", "rowsQueued", "now",
                                          "signOut", "shutdown", "parkScope"}
  /\ \A i \in DOMAIN events : events[i].op \in {"signInExpired", "workspaceLost", "deviceRevoked"}
  /\ pc \in {"idle", "blocked", "timed", "unaware", "apply", "scope", "peek", "load", "wait", "settle", "exited"}
  /\ mode \in {"pass", "signOut", "shutdown"}
  /\ todo \in Seq(Scope) /\ access \subseteq Scope /\ revoked \subseteq Scope
  /\ origin \in [Blocks -> Scope \cup {None}] /\ discarded \subseteq Blocks

\* Where a block is, seen from outside.
Fate(b) ==
  IF origin[b] = None THEN "unrecorded"
  ELSE IF \E r \in Pending(rows) : r.cid = b THEN "queued"
  ELSE IF \E r \in rows : r.cid = b THEN "parked"
  ELSE IF b \in discarded THEN "discarded" ELSE "delivered"

AtServer(blocks) == {<<q.cid, ScopeOf(q.account, q.workspace)>> : q \in blocks}

Promise == INSTANCE Delivery WITH
  Scopes <- Scope, fate <- [b \in Blocks |-> Fate(b)],
  origin <- {<<b, origin[b]>> : b \in {c \in Blocks : origin[c] # None}},
  stored <- AtServer(stored), erased <- AtServer(erased)

(* The agent and the server together keep the promise of Delivery.tla: a row  *)
(* leaves the queue as delivered only once the server has (or had) the block, *)
(* the server has it under the account and workspace it was recorded in, and  *)
(* nothing else (a crash, a lost answer, a late request, another account      *)
(* signing in) makes a block disappear or come back.                          *)
KeepsPromise == Promise!Spec

\* What the uploader uses once it has done what it has been told: the account of
\* the last command that names one, or none.
Decides == {"account", "noAccount", "signOut"}

Names(c) == IF c.op = "account" THEN c.arg ELSE None

WillUse(a) ==
  LET heard    == deferred \o cmds
      deciding == {i \in DOMAIN heard : heard[i].op \in Decides}
  IN  \/ deciding = {} /\ a = IF mode = "signOut" THEN None ELSE cur
      \/ \E i \in deciding : (\A j \in deciding : j =< i) /\ a = Names(heard[i])

Wanted == IF acct = None \/ expired THEN None ELSE acct

(* Worker and uploader agree on the account, whatever is still in the queues  *)
(* between them: the uploader ends up with the account the worker has (none   *)
(* when signed out or expired), or its report that the sign-in was refused is *)
(* still to be read.                                                          *)
AccountsAgree ==
  \/ quitting
  \/ WillUse(Wanted)
  \/ /\ WillUse(None)
     /\ \E i \in DOMAIN events : events[i].op = "signInExpired" /\ events[i].owner = acct.owner

InFlight == pc \in {"load", "wait", "settle"} /\ answer # "scopeRevoked"

(* The row being delivered is never parked under the uploader: the worker     *)
(* asks by command (ParkScope) and the command line only deletes.  This is    *)
(* what makes ack_delivered, which deletes a row in any state, safe.          *)
ParksOnlyBetweenRows ==
  InFlight => \A r \in rows : r.id = entry.id => r.state = "pending"

(* Oldest first: no block is sent while an older one of its workspace waits.  *)
HeadOfLine ==
  InFlight => \A r \in Ready(rows, ScopeHere) : r.id >= entry.id

Connected == acct # None /\ ~expired /\ ~suspended /\ ~quitting

Emptied == acct # None => PendingOf(acct.owner) = {}

(* The queue of an account that stays connected empties, be it through failed *)
(* calls, waits, refusals, kept time or sleep: no wake-up is lost, but for    *)
(* the one a failed look at the queue loses (KeepsUploading) if no command    *)
(* follows.                                                                   *)
Uploads == <>[]Connected /\ []<>(pc # "unaware") => []<>Emptied

(* Signing out and quitting end: the uploader lets go of the account, or its  *)
(* thread ends, whatever it was doing when told.                              *)
SignsOut == (acct = None) ~> (acct # None \/ cur = None)
Quits    == quitting ~> (~quitting \/ pc = "exited")

-------------------------------------------------------------------------------
(* What comments and documents say that the code does not do (see the README) *)

(* uploader.rs, STORE_RETRY: "How often opening (or reading) the queue is     *)
(* retried after it failed."  If reading is retried, a queue that can be read *)
(* again and again empties while the account stays connected.                 *)
KeepsUploading == <>[]Connected => []<>Emptied

(* cli/account.rs: "Blocks not uploaded yet are kept for 14 days and upload   *)
(* when you sign in again."  No step here tampers with a row, so a pass of    *)
(* the account that is signed in never refuses a queued row's signature.      *)
KeptRowsUpload ==
  mode = "pass" /\ answer = "tampered" => \A r \in Pending(rows) : r.id # entry.id
================================================================================
