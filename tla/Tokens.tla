--------------------------------- MODULE Tokens ---------------------------------
(***************************************************************************)
(* The sign-in of one account on one device: the token cell its clients    *)
(* share (api.rs, TokenCell and ApiClient), the control task and the       *)
(* uploader that use it, the thread that saves rotated refresh tokens      *)
(* (agent/worker.rs, TokenPersister), the keyring item (credentials.rs),   *)
(* and the worker that signs in and out, reads and writes that item and    *)
(* keeps blocks unsigned while it has no signing key.  The token endpoint  *)
(* is external: a refresh token is good for one use, and a second use      *)
(* outside a short leeway ends the sign-in.                                *)
(*                                                                         *)
(* Grants are numbered: grant g is access token g and refresh token g.  A  *)
(* step is what a thread does between two points where another can act.    *)
(***************************************************************************)
EXTENDS Naturals, Sequences

CONSTANTS
  MaxGrants,     \* bound: grants of a behaviour
  MaxCells,      \* bound: token cells of a process, one for each sign-in or load
  MaxKeys,       \* bound: signing keys generated
  MaxUnread,     \* bound: a client's reports the worker has not read when it asks again
  MaxUnsigned,   \* MAX_UNSIGNED_BLOCKS
  Plans          \* what the user does and what goes wrong in this instance

AllUses == {"signOut", "switch", "purge", "restart"}
AllFaults == {"lost", "denied", "ended", "deviceRevoked", "keyring", "overtaken"}

ASSUME TokensAssumption ==
  /\ MaxGrants \in Nat /\ MaxCells \in Nat \ {0} /\ MaxKeys \in Nat \ {0}
  /\ MaxUnsigned \in Nat \ {0} /\ MaxUnread \in Nat
  /\ \A p \in Plans : /\ p.uses \subseteq AllUses /\ p.faults \subseteq AllFaults
                       /\ p.blocks \in Nat /\ p.trouble \in Nat

Clients == {"control", "uploader"}
Cells == 1 .. MaxCells

VARIABLES
  grants,      \* server: the sign-in each grant belongs to, in the order granted
  used,        \* server: refresh tokens that were redeemed
  ended,       \* server: sign-ins that are over
  denied,      \* server: access tokens no longer accepted
  cells,       \* the token cells
  lastCell,    \* how many there are
  client,      \* each client: its cell and where its request is
  todo,        \* each client: what the worker last told it
  farewell,    \* the goodbye of the control task: asked for, being said
  events,      \* each client -> worker
  sent,        \* rotated refresh tokens on their way to the persister
  saving,      \* persister: the item it is about to write back
  item,        \* the keyring item of the account
  locked,      \* the keyring is locked
  account,     \* worker: the account's cell and signing key
  signedIn,    \* worker: there is an account (session.json names it)
  expired,     \* worker: the sign-in must be entered again
  credLocked,  \* worker: the keyring could not be read
  revoked,     \* worker: the device is revoked in its workspace
  signingIn,   \* worker: a sign-in is being checked
  keeping,     \* worker: how far it is with saving its secrets
  unsigned,    \* worker: blocks waiting for the signing key
  rows,        \* the outbox: blocks and the keys they are signed with
  lastKey, lastBlock,
  plan,        \* one of Plans, with bounds on blocks recorded and on trouble
  trouble,     \* how much went wrong so far
  excuses      \* history: what may cost the user the sign-in

serverVars  == <<grants, used, ended, denied>>
cellVars    == <<cells, lastCell>>
ringVars    == <<item, locked>>
accountVars == <<account, signedIn, expired, credLocked, revoked, signingIn, keeping>>
blockVars   == <<unsigned, rows, lastKey, lastBlock>>
historyVars == <<plan, trouble, excuses>>
vars == <<serverVars, cellVars, client, todo, farewell, events, sent, saving, ringVars,
          accountVars, blockVars, historyVars>>

\* 0 stands for a grant, a cell or a key that is missing.
NoCell == [access |-> 0, refresh |-> 0, age |-> "expired", holder |-> "nobody",
           watched |-> FALSE]
NoItem == [refresh |-> 0, key |-> 0]
NoAccount == [cell |-> 0, key |-> 0]
NotKeeping == [at |-> "no", refresh |-> 0, connects |-> FALSE]
Idle(k) == [cell |-> k, pc |-> "idle", token |-> 0, attempt |-> 1]
Told(op, k) == [op |-> op, cell |-> k]
Nothing == Told("none", 0)
Everyone(what) == [c \in Clients |-> what]

Init ==
  /\ grants = <<>> /\ used = {} /\ ended = {} /\ denied = {}
  /\ cells = [k \in Cells |-> NoCell] /\ lastCell = 0
  /\ client = Everyone(Idle(0)) /\ todo = Everyone(Nothing) /\ farewell = "no"
  /\ events = Everyone(<<>>) /\ sent = <<>> /\ saving = NoItem
  /\ item = NoItem /\ locked = FALSE
  /\ account = NoAccount /\ signedIn = FALSE /\ expired = FALSE
  /\ credLocked = FALSE /\ revoked = FALSE /\ signingIn = FALSE /\ keeping = NotKeeping
  /\ unsigned = <<>> /\ rows = <<>> /\ lastKey = 0 /\ lastBlock = 0
  /\ plan \in Plans /\ trouble = 0 /\ excuses = {}

Excused(why) == excuses' = excuses \cup why /\ UNCHANGED <<plan, trouble>>

Trouble(why) ==
  /\ trouble < plan.trouble /\ trouble' = trouble + 1
  /\ excuses' = excuses \cup why /\ UNCHANGED plan

-------------------------------------------------------------------------------
(* The token cell *)

\* A cell that knows a refresh token only: its first use renews.
WithRefreshToken(t) == [NoCell EXCEPT !.refresh = t]

Granted(cell, g) == [cell EXCEPT !.access = g, !.refresh = g, !.age = "fresh"]

\* is_valid_at; "ageing" is past refresh_after, before hard_expires_at.
Valid(cell) == cell.access # 0 /\ cell.age # "expired"

Usable(cell) == Valid(cell) /\ cell.age = "fresh"

\* Only the token that was refused: another client may have renewed meanwhile.
Invalidated(cell, token) ==
  IF cell.access = token THEN [cell EXCEPT !.access = 0, !.age = "expired"] ELSE cell

\* Time passes: first a token should be renewed, then it is no good.
Age(k) ==
  /\ Valid(cells[k]) /\ \E c \in Clients : client[c].cell = k
  /\ cells' = [cells EXCEPT ![k].age = IF @ = "fresh" THEN "ageing" ELSE "expired"]
  /\ UNCHANGED <<serverVars, lastCell, client, todo, farewell, events, sent, saving,
                 ringVars, accountVars, blockVars, historyVars>>

-------------------------------------------------------------------------------
(* A client's request: ensure_token, the request, once more after a 401 *)

ClientRest == UNCHANGED <<lastCell, todo, farewell, saving, ringVars, accountVars, blockVars>>

\* What the worker is told; of a last heartbeat it hears nothing.
Report(c, e) ==
  events' = IF c = "control" /\ farewell = "saying" THEN events
            ELSE [events EXCEPT ![c] = Append(@, e)]

\* Before the lock: a token that needs no renewal is used as it is.
Ensured(c, cell, attempt) ==
  [client[c] EXCEPT !.attempt = attempt,
                    !.pc = IF Usable(cell) THEN "send" ELSE "queue",
                    !.token = IF Usable(cell) THEN cell.access ELSE 0]

Ask(c) ==
  /\ client[c].pc = "idle" /\ client[c].cell # 0 /\ Len(events[c]) < MaxUnread
  /\ c = "control" => farewell = "no"
  /\ client' = [client EXCEPT ![c] = Ensured(c, cells[@.cell], 1)]
  /\ UNCHANGED <<serverVars, cells, events, sent, historyVars>> /\ ClientRest

\* (mutant of LockFree: nobody waits for a renewal under way)
LockTaken(k) == cells[k].refresh # 0

\* `renewing` is held from the look at the cell until the answer is kept.
LockFree(k) == cells[k].holder = "nobody"

\* The lock is had: look again, then renew with the refresh token.  These
\* clients know no password, so without one the sign-in has expired.
Renew(c) ==
  LET k == client[c].cell IN
  /\ client[c].pc = "queue" /\ LockFree(k)
  /\ \/ /\ Usable(cells[k])
        /\ client' = [client EXCEPT ![c].pc = "send", ![c].token = cells[k].access]
        /\ UNCHANGED <<cells, events>>
     \/ /\ ~Usable(cells[k]) /\ cells[k].refresh # 0
        /\ cells' = [cells EXCEPT ![k].holder = c]
        /\ client' = [client EXCEPT ![c].pc = "renew", ![c].token = cells[k].refresh]
        /\ UNCHANGED events
     \/ /\ ~Usable(cells[k]) /\ cells[k].refresh = 0
        /\ client' = [client EXCEPT ![c] = Idle(k)] /\ Report(c, Told("expired", k))
        /\ UNCHANGED cells
  /\ UNCHANGED <<serverVars, sent, historyVars>> /\ ClientRest

\* (mutant of Announced: the new refresh token is not saved)
AnnouncedNever(cell, g) == <<>>

\* set_granted tells the listener that load_secrets or signed_in set.
Announced(cell, g) == IF cell.watched THEN <<g>> ELSE <<>>

TakeGrant(c) ==
  LET k == client[c].cell
      g == client[c].token
  IN
  /\ client[c].pc = "granted"
  /\ cells' = [cells EXCEPT ![k] = [Granted(@, g) EXCEPT !.holder = "nobody"]]
  /\ client' = [client EXCEPT ![c].pc = "send"]
  /\ sent' = sent \o Announced(cells[k], g)
  /\ UNCHANGED <<serverVars, events, historyVars>> /\ ClientRest

\* A refused refresh is an expired sign-in, never a reason for the password.
TakeRefusal(c) ==
  LET k == client[c].cell IN
  /\ client[c].pc = "refused"
  /\ cells' = [cells EXCEPT ![k].holder = "nobody"]
  /\ client' = [client EXCEPT ![c] = Idle(k)] /\ Report(c, Told("expired", k))
  /\ UNCHANGED <<serverVars, sent, historyVars>> /\ ClientRest

\* No answer: a token that is still valid will do.
TakeFailure(c) ==
  LET k == client[c].cell IN
  /\ client[c].pc = "failed"
  /\ cells' = [cells EXCEPT ![k].holder = "nobody"]
  /\ client' = [client EXCEPT ![c] = IF Valid(cells[k])
                                     THEN [@ EXCEPT !.pc = "send", !.token = cells[k].access]
                                     ELSE Idle(k)]
  /\ UNCHANGED <<serverVars, events, sent, historyVars>> /\ ClientRest

\* The request itself: answered (or not) with a token the server accepts.
Done(c) ==
  /\ client[c].pc = "send" /\ client[c].token \notin denied
  /\ client' = [client EXCEPT ![c] = Idle(@.cell)]
  /\ UNCHANGED <<serverVars, cells, events, sent, historyVars>> /\ ClientRest

\* 401: renew once and send again; a second 401 is the answer.
Unauthorized(c) ==
  LET k == client[c].cell
      cell == Invalidated(cells[k], client[c].token)
  IN
  /\ client[c].pc = "send" /\ client[c].token \in denied
  /\ cells' = [cells EXCEPT ![k] = cell]
  /\ client' = [client EXCEPT ![c] = IF @.attempt = 1 THEN Ensured(c, cell, 2) ELSE Idle(k)]
  /\ UNCHANGED <<serverVars, events, sent, historyVars>> /\ ClientRest

-------------------------------------------------------------------------------
(* The token endpoint *)

ServerRest == UNCHANGED <<denied, cellVars, todo, farewell, events, sent, saving, ringVars,
                          accountVars, blockVars>>

\* A second use is taken within the leeway only.
AnswerGrant(c) ==
  /\ client[c].pc = "renew" /\ grants[client[c].token] \notin ended
  /\ Len(grants) < MaxGrants
  /\ grants' = Append(grants, grants[client[c].token])
  /\ used' = used \cup {client[c].token}
  /\ client' = [client EXCEPT ![c].pc = "granted", ![c].token = Len(grants')]
  /\ UNCHANGED <<ended, historyVars>> /\ ServerRest

AnswerRefusal(c) ==
  LET t == client[c].token IN
  /\ client[c].pc = "renew" /\ (t \in used \/ grants[t] \in ended)
  /\ ended' = ended \cup {grants[t]}
  /\ client' = [client EXCEPT ![c].pc = "refused"]
  /\ UNCHANGED <<grants, used, historyVars>> /\ ServerRest

\* Out of reach, or the answer is lost on its way.
NoAnswer(c) ==
  /\ \/ client[c].pc = "renew" /\ UNCHANGED historyVars
     \/ /\ "lost" \in plan.faults /\ client[c].pc = "granted"
        /\ Trouble({"lost"})
  /\ client' = [client EXCEPT ![c].pc = "failed"]
  /\ UNCHANGED <<grants, used, ended>> /\ ServerRest

\* An access token expires early, or the sign-in is ended on the server.
Deny ==
  /\ \/ /\ "denied" \in plan.faults
        /\ \E g \in 1 .. Len(grants) : denied' = denied \cup {g}
        /\ Trouble({}) /\ UNCHANGED ended
     \/ /\ "ended" \in plan.faults
        /\ \E s \in 1 .. Len(grants) :
             /\ grants[s] = s /\ s \notin ended
             /\ ended' = ended \cup {s}
             /\ denied' = denied \cup {g \in 1 .. Len(grants) : grants[g] = s}
        /\ Trouble({"ended"})
  /\ UNCHANGED <<grants, used, cellVars, client, todo, farewell, events, sent, saving,
                 ringVars, accountVars, blockVars>>

-------------------------------------------------------------------------------
(* What the clients are told *)

CommandRest == UNCHANGED <<used, ended, denied, sent, saving, ringVars, blockVars, historyVars>>

\* A client handles one request at a time, and the goodbye goes first.
Apply(c) ==
  /\ client[c].pc = "idle" /\ todo[c].op \in {"use", "drop"}
  /\ c = "control" => farewell = "no"
  /\ client' = [client EXCEPT ![c] = Idle(todo[c].cell)]
  /\ todo' = [todo EXCEPT ![c] = Nothing]
  /\ UNCHANGED <<grants, cellVars, farewell, events, accountVars>> /\ CommandRest

\* The control task checks a typed password, with a cell of its own that it
\* keeps once the server grants the login.  The worker has no use for the
\* sign-in when the login or the request for the workspaces fails.
CheckSignIn ==
  /\ client["control"].pc = "idle" /\ todo["control"].op = "signIn" /\ farewell = "no"
  /\ todo' = [todo EXCEPT !["control"] = Nothing]
  /\ \/ /\ Len(grants) < MaxGrants /\ lastCell < MaxCells
        /\ grants' = Append(grants, Len(grants) + 1)
        /\ lastCell' = lastCell + 1
        /\ cells' = [cells EXCEPT ![lastCell'] = Granted(NoCell, Len(grants'))]
        /\ client' = [client EXCEPT !["control"] = Idle(lastCell')]
        /\ \/ Report("control", Told("signedIn", lastCell')) /\ UNCHANGED signingIn
           \/ signingIn' = FALSE /\ UNCHANGED events
     \/ /\ signingIn' = FALSE
        /\ UNCHANGED <<grants, cellVars, client, events>>
  /\ UNCHANGED <<farewell, account, signedIn, expired, credLocked, revoked, keeping>>
  /\ CommandRest

\* (mutant of Released: a request that is dropped keeps the lock)
ReleasedNever(c) == cells

\* Dropping a request releases the lock it holds.
Released(c) ==
  [k \in Cells |-> IF cells[k].holder = c THEN [cells[k] EXCEPT !.holder = "nobody"] ELSE cells[k]]

\* The goodbye is urgent: the request in flight is dropped, whatever it waits
\* for, a sign-in being checked too, and the worker is not told.  What is
\* queued stays.  A last heartbeat may go out before the client is let go.
SayFarewell ==
  LET k == client["control"].cell IN
  /\ farewell = "asked" /\ farewell' = "saying"
  /\ cells' = Released("control")
  /\ \/ client' = [client EXCEPT !["control"] = Idle(k)]
     \/ k # 0 /\ client' = [client EXCEPT !["control"] = Ensured("control", cells[k], 1)]
  /\ todo' \in {todo} \cup
       IF client["control"].pc = "idle" /\ todo["control"].op = "signIn"
       THEN {[todo EXCEPT !["control"] = Nothing]} ELSE {}
  /\ Excused(IF client["control"].pc = "granted" THEN {"lost"} ELSE {})
  /\ UNCHANGED <<serverVars, lastCell, events, sent, saving, ringVars, accountVars, blockVars>>

LetGo ==
  /\ farewell = "saying" /\ client["control"].pc = "idle" /\ farewell' = "no"
  /\ client' = [client EXCEPT !["control"] = Idle(0)]
  /\ UNCHANGED <<grants, cellVars, todo, events, accountVars>> /\ CommandRest

-------------------------------------------------------------------------------
(* The persister *)

PersisterRest == UNCHANGED <<serverVars, cellVars, client, todo, farewell, events, locked,
                             accountVars, blockVars>>

PersisterLoads ==
  /\ sent # <<>> /\ saving = NoItem /\ sent' = Tail(sent)
  /\ saving' = IF locked \/ item = NoItem THEN NoItem
               ELSE [item EXCEPT !.refresh = Head(sent)]
  /\ Excused(IF locked THEN {"unsaved"} ELSE {})
  /\ UNCHANGED item /\ PersisterRest

PersisterSaves ==
  /\ saving # NoItem /\ saving' = NoItem
  /\ item' = IF locked THEN item ELSE saving
  /\ Excused(IF locked THEN {"unsaved"} ELSE {})
  /\ UNCHANGED sent /\ PersisterRest

\* The keyring locks by itself; the user unlocks it.
Ring ==
  /\ "keyring" \in plan.faults /\ locked' = ~locked
  /\ IF locked THEN UNCHANGED historyVars ELSE Trouble({})
  /\ UNCHANGED <<serverVars, cellVars, client, todo, farewell, events, sent, saving, item,
                 accountVars, blockVars>>

-------------------------------------------------------------------------------
(* The worker *)

\* save_secrets reads the refresh token of the account's cell, then writes it
\* with the key; the uploader and the persister go on meanwhile.
Keep(connects) == keeping' = [at |-> "read", refresh |-> 0, connects |-> connects]

Signed(blocks, key) == [i \in DOMAIN blocks |-> [block |-> blocks[i], key |-> key]]

\* (mutant of FlushUnsigned: only counted)
FlushNothing(waiting, key) == rows' = rows /\ unsigned' = waiting

FlushUnsigned(waiting, key) ==
  /\ rows' = rows \o Signed(waiting, key)
  /\ unsigned' = <<>>

\* connect_account
Connect(k) == todo' = [c \in Clients |-> Told("use", k)]

ReadToken ==
  /\ keeping.at = "read"
  /\ keeping' = [keeping EXCEPT !.at = "write", !.refresh = cells[account.cell].refresh]
  /\ UNCHANGED <<serverVars, cellVars, client, todo, farewell, events, sent, saving, ringVars,
                 account, signedIn, expired, credLocked, revoked, signingIn, blockVars,
                 historyVars>>

\* The cell has a newer token by now, and the persister is done with it.
Outdated ==
  keeping.refresh # cells[account.cell].refresh /\ sent = <<>> /\ saving = NoItem

SaveItem ==
  /\ keeping.at = "write" /\ keeping' = NotKeeping
  /\ item' = IF locked THEN item ELSE [refresh |-> keeping.refresh, key |-> account.key]
  /\ Excused(IF locked THEN {"unsaved"} ELSE IF Outdated THEN {"stale"} ELSE {})
  /\ IF keeping.connects
     THEN FlushUnsigned(unsigned, account.key) /\ Connect(account.cell)
     ELSE UNCHANGED <<unsigned, rows, todo>>
  /\ UNCHANGED <<serverVars, cellVars, client, farewell, events, sent, saving, locked, account,
                 signedIn, expired, credLocked, revoked, signingIn, lastKey, lastBlock>>

\* (mutant of KeyOf: a new key at every sign-in)
KeyOfNobody(saved) == lastKey + 1

\* The key of the account's item, or a new one.
KeyOf(saved) == IF saved.key # 0 THEN saved.key ELSE lastKey + 1

\* (mutant of Generated: a key that was not counted)
GeneratedTwice(key) == lastKey' = lastKey + 2

Generated(key) == lastKey' = IF key > lastKey THEN key ELSE lastKey

\* load_secrets, when `others` are the cells of this process, `told` what its
\* clients have still to do and `waiting` the blocks it kept unsigned.
LoadSecrets(others, n, told, waiting, wasExpired, wasLocked) ==
  \/ /\ locked
     /\ account' = NoAccount /\ credLocked' = TRUE /\ expired' = wasExpired
     /\ cells' = others /\ lastCell' = n
     /\ todo' = told /\ unsigned' = waiting
     /\ UNCHANGED <<rows, lastKey>>
  \/ /\ ~locked /\ item = NoItem
     /\ account' = NoAccount /\ credLocked' = wasLocked /\ expired' = TRUE
     /\ cells' = others /\ lastCell' = n
     /\ todo' = told /\ unsigned' = waiting
     /\ UNCHANGED <<rows, lastKey>>
  \/ /\ ~locked /\ item # NoItem /\ n < MaxCells
     /\ account' = [cell |-> n + 1, key |-> item.key]
     /\ credLocked' = FALSE /\ expired' = wasExpired
     /\ lastCell' = n + 1
     /\ cells' = [others EXCEPT ![n + 1] =
                    [WithRefreshToken(item.refresh) EXCEPT !.watched = TRUE]]
     /\ FlushUnsigned(waiting, item.key)
     /\ Connect(n + 1)
     /\ UNCHANGED lastKey

\* The keyring was unlocked, says the user.
ReloadCredentials ==
  /\ credLocked /\ signedIn
  /\ LoadSecrets(cells, lastCell, todo, unsigned, expired, credLocked)
  /\ UNCHANGED <<serverVars, client, farewell, events, sent, saving, ringVars, signedIn,
                 revoked, signingIn, keeping, lastBlock, historyVars>>

\* One that is queued, being checked or not heard of yet.
SignInUnderWay ==
  \/ todo["control"].op = "signIn"
  \/ \E i \in DOMAIN events["control"] : events["control"][i].op = "signedIn"

SignIn ==
  /\ ~signedIn \/ expired
  /\ ~SignInUnderWay /\ signingIn' = TRUE
  /\ todo' = [todo EXCEPT !["control"] = Told("signIn", 0)]
  /\ UNCHANGED <<serverVars, cellVars, client, farewell, events, sent, saving, ringVars,
                 account, signedIn, expired, credLocked, revoked, keeping, blockVars,
                 historyVars>>

\* The server accepted it: the key of the item is kept, the secrets are saved
\* and the account is used.  An item that cannot be read loses its key.
SignedIn ==
  LET k   == Head(events["control"]).cell
      key == KeyOf(IF locked THEN NoItem ELSE item)
  IN
  /\ events["control"] # <<>> /\ Head(events["control"]).op = "signedIn" /\ signingIn
  /\ key <= MaxKeys
  /\ events' = [events EXCEPT !["control"] = Tail(@)]
  /\ cells' = [cells EXCEPT ![k].watched = TRUE]
  /\ account' = [cell |-> k, key |-> key] /\ Generated(key)
  /\ signedIn' = TRUE /\ expired' = FALSE /\ credLocked' = FALSE /\ revoked' = FALSE
  /\ signingIn' = FALSE
  /\ Keep(TRUE)
  /\ Excused(IF locked THEN {"unsaved"} ELSE {})
  /\ UNCHANGED <<serverVars, lastCell, client, todo, farewell, sent, saving, ringVars, unsigned,
                 rows, lastBlock>>

\* A refused sign-in: stop, keep the queue and the unsigned blocks.
Expire(c) ==
  /\ events[c] # <<>> /\ Head(events[c]).op = "expired"
  /\ events' = [events EXCEPT ![c] = Tail(@)]
  /\ IF signedIn /\ ~expired
     THEN expired' = TRUE /\ todo' = Everyone(Told("drop", 0))
     ELSE UNCHANGED <<expired, todo>>
  /\ UNCHANGED <<serverVars, cellVars, client, farewell, sent, saving, ringVars, account,
                 signedIn, credLocked, revoked, signingIn, keeping, blockVars, historyVars>>

ClearItem == item' = IF locked THEN item ELSE NoItem

\* What waits for the key is dropped with the sign-in.
SignOut ==
  /\ "signOut" \in plan.uses /\ signedIn
  /\ "overtaken" \in plan.faults \/ (saving = NoItem /\ ~locked)
  /\ ClearItem
  /\ farewell' = "asked"
  /\ todo' = [todo EXCEPT !["uploader"] = Told("drop", 0)]
  /\ account' = NoAccount /\ signedIn' = FALSE /\ expired' = FALSE /\ credLocked' = FALSE
  /\ revoked' = FALSE /\ unsigned' = <<>>
  /\ UNCHANGED <<serverVars, cellVars, client, events, sent, saving, locked, signingIn, keeping,
                 rows, lastKey, lastBlock, historyVars>>

\* The secrets go too, so that a restart asks for the sign-in again.
DeviceRevoked ==
  /\ "deviceRevoked" \in plan.faults /\ signedIn /\ ~revoked /\ account.cell # 0
  /\ "overtaken" \in plan.faults \/ (saving = NoItem /\ ~locked)
  /\ revoked' = TRUE /\ ClearItem /\ Trouble({})
  /\ UNCHANGED <<serverVars, cellVars, client, todo, farewell, events, sent, saving, locked,
                 account, signedIn, expired, credLocked, signingIn, keeping, blockVars>>

\* Another workspace: the same sign-in, used there at once, and saved again
\* when it was revoked.
SwitchTo ==
  /\ "switch" \in plan.uses /\ signedIn /\ ~expired /\ ~credLocked
  /\ Connect(account.cell) /\ revoked' = FALSE
  /\ IF revoked THEN Keep(FALSE) ELSE UNCHANGED keeping
  /\ UNCHANGED <<serverVars, cellVars, client, farewell, events, sent, saving, ringVars, account,
                 signedIn, expired, credLocked, signingIn, blockVars, historyVars>>

\* Too many wait for the keyring: the oldest goes.
Waiting(b) == Append(IF Len(unsigned) >= MaxUnsigned THEN Tail(unsigned) ELSE unsigned, b)

FinishBlock ==
  /\ signedIn /\ ~expired /\ ~revoked /\ lastBlock < plan.blocks
  /\ lastBlock' = lastBlock + 1
  /\ IF account.key # 0
     THEN rows' = Append(rows, [block |-> lastBlock', key |-> account.key]) /\ UNCHANGED unsigned
     ELSE unsigned' = Waiting(lastBlock') /\ UNCHANGED rows
  /\ UNCHANGED <<serverVars, cellVars, client, todo, farewell, events, sent, saving, ringVars,
                 accountVars, lastKey, historyVars>>

PurgeQueue ==
  /\ "purge" \in plan.uses /\ signedIn
  /\ rows' = <<>> /\ unsigned' = <<>>
  /\ UNCHANGED <<serverVars, cellVars, client, todo, farewell, events, sent, saving, ringVars,
                 accountVars, lastKey, lastBlock, historyVars>>

\* The process ends, by a crash or not (nobody waits for the persister), and
\* starts again: only the keyring, the outbox and session.json are left.
Restart ==
  /\ "restart" \in plan.uses
  /\ client' = Everyone(Idle(0)) /\ farewell' = "no" /\ events' = Everyone(<<>>)
  /\ sent' = <<>> /\ saving' = NoItem /\ revoked' = FALSE /\ signingIn' = FALSE
  /\ keeping' = NotKeeping
  /\ Trouble((IF sent # <<>> \/ saving # NoItem THEN {"unsaved"} ELSE {})
             \cup (IF \E c \in Clients : client[c].pc = "granted" THEN {"lost"} ELSE {}))
  /\ LET none == [k \in Cells |-> NoCell] IN
     IF signedIn THEN LoadSecrets(none, 0, Everyone(Nothing), <<>>, FALSE, FALSE)
     ELSE /\ cells' = none /\ lastCell' = 0 /\ todo' = Everyone(Nothing)
          /\ unsigned' = <<>> /\ account' = NoAccount /\ expired' = FALSE /\ credLocked' = FALSE
          /\ UNCHANGED <<rows, lastKey>>
  /\ UNCHANGED <<serverVars, ringVars, signedIn, lastBlock>>

ClientStep(c) ==
  \/ Ask(c) \/ Renew(c) \/ TakeGrant(c) \/ TakeRefusal(c) \/ TakeFailure(c)
  \/ Done(c) \/ Unauthorized(c) \/ Apply(c)

ServerStep(c) == AnswerGrant(c) \/ AnswerRefusal(c) \/ NoAnswer(c)

WorkerStep ==
  \/ \E c \in Clients : Expire(c)
  \/ ReloadCredentials \/ SignIn \/ SignedIn \/ SignOut \/ DeviceRevoked \/ SwitchTo
  \/ FinishBlock \/ PurgeQueue

\* The control task and the worker share a thread: neither goes on while the
\* secrets are saved, and the goodbye comes before the control task's next step.
Next ==
  \/ ClientStep("uploader")
  \/ keeping.at = "no" /\ farewell # "asked" /\ ClientStep("control")
  \/ keeping.at = "no" /\ (CheckSignIn \/ SayFarewell \/ LetGo \/ WorkerStep)
  \/ ReadToken \/ SaveItem
  \/ \E c \in Clients : ServerStep(c)
  \/ \E k \in Cells : Age(k)
  \/ PersisterLoads \/ PersisterSaves \/ Ring \/ Deny \/ Restart

Spec == Init /\ [][Next]_vars

-------------------------------------------------------------------------------
(* What should hold *)

CellType == [access : Nat, refresh : Nat, age : {"fresh", "ageing", "expired"},
             holder : Clients \cup {"nobody"}, watched : BOOLEAN]

Steps == {"idle", "queue", "renew", "granted", "refused", "failed", "send"}

(* Type correctness. *)
TypeOK ==
  /\ grants \in Seq(Nat) /\ used \subseteq Nat /\ ended \subseteq Nat /\ denied \subseteq Nat
  /\ cells \in [Cells -> CellType] /\ lastCell \in 0 .. MaxCells
  /\ client \in [Clients -> [cell : 0 .. MaxCells, pc : Steps, token : Nat, attempt : 1 .. 2]]
  /\ todo \in [Clients -> [op : {"none", "use", "drop", "signIn"}, cell : 0 .. MaxCells]]
  /\ farewell \in {"no", "asked", "saying"}
  /\ events \in [Clients -> Seq([op : {"expired", "signedIn"}, cell : Cells])]
  /\ sent \in Seq(Nat) /\ saving \in [refresh : Nat, key : Nat]
  /\ item \in [refresh : Nat, key : Nat] /\ locked \in BOOLEAN
  /\ account \in [cell : 0 .. MaxCells, key : Nat]
  /\ signedIn \in BOOLEAN /\ expired \in BOOLEAN /\ credLocked \in BOOLEAN
  /\ revoked \in BOOLEAN /\ signingIn \in BOOLEAN
  /\ keeping \in [at : {"no", "read", "write"}, refresh : Nat, connects : BOOLEAN]
  /\ unsigned \in Seq(Nat) /\ rows \in Seq([block : Nat, key : Nat])
  /\ lastKey \in 0 .. MaxKeys /\ lastBlock \in 0 .. plan.blocks
  /\ plan \in Plans /\ trouble \in 0 .. plan.trouble
  /\ excuses \subseteq {"lost", "ended", "unsaved", "stale"}

\* Where a client holds the lock of its cell.
Renewing(c) == client[c].pc \in {"renew", "granted", "refused", "failed"}

(* TokenCell: two clients of one sign-in never renew at the same time, and    *)
(* what one renews with is the refresh token its cell holds.                  *)
OneRenewal ==
  \A c \in Clients :
    Renewing(c) =>
      /\ cells[client[c].cell].holder = c
      /\ client[c].pc = "renew" => client[c].token = cells[client[c].cell].refresh

(* ensure_token, TokenPersister, save_secrets, load_secrets: the server        *)
(* refuses a refresh only after it ended the sign-in, an answer was lost, a   *)
(* rotated token could not be saved before the process ended or the keyring   *)
(* locked, or save_secrets wrote a token that was rotated since it read it    *)
(* and that the persister no longer replaces.                                 *)
StaysSignedIn == \A c \in Clients : client[c].pc = "refused" => excuses # {}

(* save_secrets, TokenPersister: but for the time it takes to save it, the    *)
(* item has the key that the blocks of this process are signed with.          *)
KeyAgrees ==
  signedIn /\ account.key # 0 /\ keeping.at = "no" /\ item # NoItem /\ "unsaved" \notin excuses
    => item.key = account.key

(* enqueue, flush_unsigned: blocks are queued in the order they were          *)
(* recorded; none that waited for the keyring is overtaken by a later one.    *)
QueuedInOrder ==
  /\ \A i, j \in DOMAIN rows : i < j => rows[i].block < rows[j].block
  /\ \A i, j \in DOMAIN unsigned : i < j => unsigned[i] < unsigned[j]
  /\ \A i \in DOMAIN rows, j \in DOMAIN unsigned : rows[i].block < unsigned[j]

(* ensure_token, Control::run: a lock that is taken has a client that will     *)
(* give it back; a request that was dropped leaves none behind.               *)
LockComesBack ==
  \A k \in Cells : cells[k].holder # "nobody" =>
    \E c \in Clients : cells[k].holder = c /\ client[c].cell = k /\ Renewing(c)

(* sign_out, TokenPersister ("Signed out meanwhile: nothing to update"): no   *)
(* secrets of the account stay in the keyring after it signed out.            *)
SignedOutForgets ==
  ~signedIn /\ ~signingIn /\ sent = <<>> /\ saving = NoItem => item = NoItem
================================================================================
