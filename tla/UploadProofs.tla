------------------------------- MODULE UploadProofs -------------------------------
(***************************************************************************)
(* What Upload.tla promises, for any accounts, workspaces, blocks, limits, *)
(* uses and faults: its types, that worker and uploader agree on the       *)
(* account, that the row being delivered is the oldest and stays pending,  *)
(* and that agent and server together implement Delivery.tla.              *)
(*                                                                         *)
(* One inductive invariant serves them all.  A step of the worker, of the  *)
(* uploader and of the server each touch few of its parts, so the lemmas   *)
(* below say what a part needs of a step, not what every step does.        *)
(***************************************************************************)
EXTENDS Upload, OutboxStoreProofs, SequenceTheorems, FiniteSetTheorems

-------------------------------------------------------------------------------
(* The inductive invariant. *)

\* Accounts made by a sign-in of this behaviour: the session names its owner.
Known == {a \in Account : a.session \in 1 .. Len(sessions) /\ sessions[a.session] = a.owner}

Plain == {"noAccount", "rowsQueued", "now", "signOut", "shutdown"}

\* What the worker tells the uploader, and the uploader the worker.
Commands(accounts) ==
  [op : {"account"}, arg : accounts] \cup [op : Plain, arg : {None}]
    \cup [op : {"parkScope"}, arg : Workspaces]

Reports ==
  [op : {"signInExpired"}, owner : Accounts, workspace : {None}]
    \cup [op : {"workspaceLost", "deviceRevoked"}, owner : Accounts, workspace : Workspaces]

TypedStore ==
  /\ rows \subseteq Row /\ lastId \in Nat
  /\ origin \in [Blocks -> Scope \cup {None}] /\ discarded \subseteq Blocks

TypedWorker ==
  /\ acct \in Known \cup {None}
  /\ expired \in BOOLEAN /\ revokedHere \in BOOLEAN /\ suspended \in BOOLEAN
  /\ discarding \in BOOLEAN /\ quitting \in BOOLEAN
  /\ keyring \in [Accounts -> Keys \cup {NoKey}]
  /\ sessions \in Seq(Accounts) /\ Len(sessions) =< MaxSession

TypedQueues ==
  /\ cmds \in Seq(Commands(Known)) /\ deferred \in Seq(Commands(Known))
  /\ events \in Seq(Reports)

Draining == {"scope", "peek", "load", "wait", "settle"}
Sent     == {"load", "wait", "settle"}

TypedDrive ==
  /\ cur \in Known \cup {None} /\ hold \in BOOLEAN
  /\ pc \in {"idle", "blocked", "timed", "unaware", "apply", "exited"} \cup Draining
  /\ mode \in {"pass", "signOut", "shutdown"}
  /\ todo \in Seq(Scope)

Typed == TypedStore /\ TypedWorker /\ TypedQueues /\ TypedDrive

\* The store: each row has its own number and its own block, is where that block
\* was recorded, and its block was not given up.
StoreOK ==
  /\ UniqueIds(rows) /\ UniqueBlocks(rows)
  /\ \A r \in rows : /\ r.id \in 1 .. lastId
                     /\ origin[r.cid] = ScopeOf(r.account, r.workspace)
                     /\ r.cid \notin discarded
  /\ \A b \in discarded : origin[b] # None
  /\ lastId = Cardinality({b \in Blocks : origin[b] # None})

\* A request names its block where that block was recorded.
Sound(q) ==
  /\ q.session \in 1 .. Len(sessions) /\ q.cid \in Blocks /\ q.workspace \in Workspaces
  /\ origin[q.cid] = ScopeAt(q)

Holding == [account : Accounts, workspace : Workspaces, cid : Blocks]

ServerOK ==
  /\ stored \subseteq Holding /\ erased \subseteq Holding
  /\ access \subseteq Scope /\ revoked \subseteq Scope
  /\ \A h \in stored \cup erased : origin[h.cid] = ScopeOf(h.account, h.workspace)
  /\ \A q \in late : Sound(q)

\* Where the uploader is, and what it then has at hand.
DriveOK ==
  /\ pc \in Draining => cur # None /\ \A i \in DOMAIN todo : todo[i].account = cur.owner
  /\ pc \notin Draining => mode = "pass"
  /\ pc \in Sent \cup {"peek"} => todo # <<>>
  /\ pc = "apply" => deferred # <<>>
  /\ pc \in {"idle", "blocked", "timed", "unaware"} => deferred = <<>>

\* The row being delivered: it is of the scope at hand, its number and its block
\* still mean the same row.
EntryOK ==
  pc \in Sent =>
    /\ entry = [id |-> entry.id, cid |-> entry.cid, key |-> entry.key,
                shots |-> entry.shots, bytes |-> entry.bytes, stripped |-> entry.stripped]
    /\ entry.id \in 1 .. lastId /\ entry.cid \in Blocks
    /\ origin[entry.cid] = ScopeHere
    /\ \A r \in rows : r.id = entry.id <=> r.cid = entry.cid

\* An answer is one of those the uploader knows, and "ok" means what it says.
AnswerOK ==
  pc = "settle" =>
    /\ answer \in Answers \cup {"network", "tampered", "scopeRevoked"}
    /\ answer = "ok" => HeldAs(Request) \in stored \cup erased

Flying == pc \in {"load", "wait"} \/ (pc = "settle" /\ answer # "scopeRevoked")

FlightOK ==
  Flying => /\ \A r \in rows : r.id = entry.id => r.state = "pending"
            /\ \A r \in Ready(rows, ScopeHere) : r.id >= entry.id

\* What the uploader was told and has not done yet.
Heard == deferred \o cmds

\* The thread is told to end only when the process is on its way out.
EndOK ==
  \/ quitting
  \/ /\ mode # "shutdown" /\ pc # "exited"
     /\ \A i \in DOMAIN Heard : Heard[i].op # "shutdown"

Inv == Typed /\ StoreOK /\ ServerOK /\ DriveOK /\ EntryOK /\ AnswerOK /\ FlightOK
       /\ EndOK /\ AccountsAgree

-------------------------------------------------------------------------------
(* The store, whoever touches it. *)

\* What the store is after a call that parks nothing: every row is an old one in
\* the state it had, or the row of a block recorded just now.
Carried ==
  /\ TypedStore' /\ StoreOK'
  /\ lastId' >= lastId
  /\ \A b \in Blocks : origin[b] # None => origin'[b] = origin[b]
  /\ \A q \in rows' : \/ \E r \in rows : Becomes(r, q) /\ q.state = r.state
                      \/ q.id > lastId /\ origin[q.cid] = None

(* A recorded block has a scope, which is not None.                            *)
LEMMA RowsAreRecorded ==
  ASSUME TypedStore, StoreOK, NEW r \in rows
  PROVE  /\ r \in Row /\ r.cid \in Blocks /\ r.id \in Nat
         /\ ScopeOf(r.account, r.workspace) \in Scope
         /\ origin[r.cid] # None
         /\ InScope(r, origin[r.cid])
  <1>1. r \in Row
    BY DEF TypedStore
  <1>2. ScopeOf(r.account, r.workspace) \in Scope
    BY <1>1 DEF Row, Scope, ScopeOf
  <1>3. None \notin Scope
    BY UploadAssumption
  <1>4. origin[r.cid] = ScopeOf(r.account, r.workspace)
    BY DEF StoreOK
  <1>5. r.cid \in Blocks /\ r.id \in Nat
    BY <1>1 DEF Row
  <1>6. QED
    BY <1>1, <1>2, <1>3, <1>4, <1>5 DEF InScope, ScopeOf

(* Rows that only decay, with nothing recorded or given up.                    *)
LEMMA DecayKeepsStore ==
  ASSUME TypedStore, StoreOK, Decays(rows, rows'), UNCHANGED <<lastId, origin, discarded>>
  PROVE  TypedStore' /\ StoreOK'
  <1>1. \A q \in rows' : \E r \in rows : Becomes(r, q)
    BY DEF Decays
  <1>2. UniqueBlocks(rows')
    <2> SUFFICES ASSUME NEW p \in rows', NEW q \in rows', p.cid = q.cid
                 PROVE  p = q
      BY DEF UniqueBlocks
    <2>1. PICK r \in rows : Becomes(r, p)
      BY <1>1
    <2>2. PICK t \in rows : Becomes(t, q)
      BY <1>1
    <2>3. r = t
      BY <2>1, <2>2 DEF StoreOK, UniqueBlocks, Becomes, SameBlock
    <2>4. QED
      BY <2>1, <2>2, <2>3 DEF Decays, UniqueIds, Becomes
  <1>3. \A q \in rows' : /\ q.id \in 1 .. lastId
                         /\ origin[q.cid] = ScopeOf(q.account, q.workspace)
                         /\ q.cid \notin discarded
    BY <1>1 DEF StoreOK, Becomes, SameBlock
  <1>4. StoreOK'
    BY <1>2, <1>3 DEF StoreOK, Decays
  <1>5. QED
    BY <1>4 DEF TypedStore, Decays

(* Nothing touched.                                                            *)
LEMMA StoreSame ==
  ASSUME TypedStore, StoreOK, UNCHANGED storeVars
  PROVE  Carried
  <1>1. UNCHANGED <<rows, lastId, origin, discarded>>
    BY DEF storeVars
  <1>2. \A r \in rows : Becomes(r, r)
    BY DEF TypedStore, Becomes, SameBlock, Row
  <1>3. TypedStore' /\ StoreOK'
    BY <1>1 DEF TypedStore, StoreOK
  <1>4. lastId' >= lastId
    BY <1>1 DEF TypedStore
  <1>5. QED
    BY <1>1, <1>2, <1>3, <1>4 DEF Carried

\* What `Record` is called with: nothing, or a block not recorded yet, of an
\* account that has a workspace.
Recordable(b) ==
  b = None \/ (b \in Unrecorded /\ acct # None /\ acct.workspace # None)

\* The rows with the one `Record` adds, before the limits.
With(b, bytes) ==
  rows \cup {NewRow(lastId + 1, ScopeOf(acct.owner, acct.workspace), b, acct.key, 0, 0,
                    bytes > 0, bytes)}

(* The row a block is recorded in: well formed, of a new number and a new      *)
(* block, queued.                                                              *)
LEMMA FreshRow ==
  ASSUME Typed, StoreOK, NEW b \in Unrecorded, acct # None, acct.workspace # None,
         NEW bytes \in Nat
  PROVE  /\ With(b, bytes) \subseteq Row
         /\ UniqueIds(With(b, bytes)) /\ UniqueBlocks(With(b, bytes))
         /\ QueuedIn(With(b, bytes)) = QueuedIn(rows) \cup {b}
         /\ KnownIn(With(b, bytes)) = KnownIn(rows) \cup {b}
         /\ ScopeOf(acct.owner, acct.workspace) \in Scope
         /\ \A q \in With(b, bytes) :
              \/ q \in rows
              \/ /\ q.id = lastId + 1 /\ q.cid = b /\ q.state = "pending"
                 /\ ScopeOf(q.account, q.workspace) = ScopeOf(acct.owner, acct.workspace)
  <1> DEFINE scope == ScopeOf(acct.owner, acct.workspace)
             new   == NewRow(lastId + 1, scope, b, acct.key, 0, 0, bytes > 0, bytes)
  <1>1. /\ acct.owner \in Accounts /\ acct.workspace \in Workspaces
        /\ acct.key \in Keys \cup {NoKey}
    <2>1. acct \in Account
      BY DEF Typed, TypedWorker, Known
    <2>2. QED
      BY <2>1 DEF Account
  <1>2. b \in Blocks /\ origin[b] = None
    BY DEF Unrecorded
  <1>3. lastId + 1 \in Nat /\ 0 \in Nat /\ (bytes > 0) \in BOOLEAN
    BY DEF Typed, TypedStore
  <1>4. new \in Row
    BY <1>1, <1>2, <1>3 DEF NewRow, ScopeOf, Row
  <1>5. new.id = lastId + 1 /\ new.cid = b /\ new.state = "pending"
        /\ new.account = acct.owner /\ new.workspace = acct.workspace
    BY DEF NewRow, ScopeOf
  <1>6. With(b, bytes) = rows \cup {new}
    BY DEF With
  <1> HIDE DEF new
  <1>7. \A r \in rows : r.id # new.id /\ r.cid # new.cid
    BY <1>2, <1>5, RowsAreRecorded DEF Typed, TypedStore, StoreOK
  <1>8. UniqueIds(With(b, bytes)) /\ UniqueBlocks(With(b, bytes))
    BY <1>6, <1>7 DEF StoreOK, UniqueIds, UniqueBlocks
  <1>9. QueuedIn(With(b, bytes)) = QueuedIn(rows) \cup {b}
    BY <1>5, <1>6 DEF QueuedIn, Pending
  <1>10. KnownIn(With(b, bytes)) = KnownIn(rows) \cup {b}
    BY <1>5, <1>6 DEF KnownIn
  <1>11. scope \in Scope
    BY <1>1 DEF Scope, ScopeOf
  <1>12. QED
    BY <1>4, <1>5, <1>6, <1>8, <1>9, <1>10, <1>11 DEF Typed, TypedStore

(* Recording a block, with what the limits shed and drop.                      *)
LEMMA RecordCarries ==
  ASSUME Typed, StoreOK, NEW b, Recordable(b), NEW bytes \in Nat, Record(b, bytes)
  PROVE  Carried
  <1>1. CASE b = None
    BY <1>1, StoreSame DEF Record, Typed
  <1>2. CASE b # None
    <2> DEFINE scope == ScopeOf(acct.owner, acct.workspace)
    <2>1. b \in Unrecorded /\ acct # None /\ acct.workspace # None /\ bytes \in Nat
      BY <1>2 DEF Recordable
    <2>2. b \in Blocks /\ origin[b] = None
      BY <2>1 DEF Unrecorded
    <2>3. /\ rows' = EnforceLimits(With(b, bytes), 0)
          /\ lastId' = lastId + 1
          /\ origin' = [origin EXCEPT ![b] = scope]
          /\ discarded' = discarded \cup (KnownIn(With(b, bytes)) \ KnownIn(rows'))
      BY <1>2 DEF Record, With, KnownIn
    <2>4. /\ With(b, bytes) \subseteq Row
          /\ UniqueIds(With(b, bytes)) /\ UniqueBlocks(With(b, bytes))
          /\ KnownIn(With(b, bytes)) = KnownIn(rows) \cup {b}
          /\ scope \in Scope
          /\ \A q \in With(b, bytes) :
               \/ q \in rows
               \/ /\ q.id = lastId + 1 /\ q.cid = b
                  /\ ScopeOf(q.account, q.workspace) = scope
      BY <2>1, FreshRow
    <2>5. Decays(With(b, bytes), rows') /\ Thins(With(b, bytes), rows')
      BY <2>3, <2>4, LimitDecays, LimitThins
    <2> HIDE DEF scope
    <2>6. lastId \in Nat /\ lastId' \in Nat /\ lastId' >= lastId
      BY <2>3 DEF Typed, TypedStore
    <2>7. /\ origin' \in [Blocks -> Scope \cup {None}]
          /\ origin'[b] = scope /\ scope # None
          /\ \A c \in Blocks \ {b} : origin'[c] = origin[c]
      BY <2>2, <2>3, <2>4, UploadAssumption DEF Typed, TypedStore
    <2>8. \A r \in rows : r.cid \in Blocks /\ r.cid # b /\ r.id =< lastId
      BY <2>2, RowsAreRecorded DEF Typed, TypedStore, StoreOK
    <2>9. \A q \in With(b, bytes) :
            /\ q.id \in 1 .. lastId' /\ q.cid \in Blocks
            /\ origin'[q.cid] = ScopeOf(q.account, q.workspace)
            /\ q.cid \notin discarded
      <3>1. b \notin discarded
        BY <2>2 DEF StoreOK
      <3>2. QED
        BY <2>3, <2>4, <2>6, <2>7, <2>8, <3>1 DEF StoreOK
    <2>10. UniqueIds(rows') /\ rows' \subseteq Row
      BY <2>5 DEF Decays
    <2>11. UniqueBlocks(rows')
      <3> SUFFICES ASSUME NEW p \in rows', NEW q \in rows', p.cid = q.cid
                   PROVE  p = q
        BY DEF UniqueBlocks
      <3>1. PICK r \in With(b, bytes) : Becomes(r, p)
        BY <2>5 DEF Decays
      <3>2. PICK t \in With(b, bytes) : Becomes(t, q)
        BY <2>5 DEF Decays
      <3>3. r = t
        BY <2>4, <3>1, <3>2 DEF UniqueBlocks, Becomes, SameBlock
      <3>4. QED
        BY <2>10, <3>1, <3>2, <3>3 DEF UniqueIds, Becomes
    <2>12. \A q \in rows' : /\ q.id \in 1 .. lastId'
                            /\ origin'[q.cid] = ScopeOf(q.account, q.workspace)
                            /\ q.cid \notin discarded'
      <3> SUFFICES ASSUME NEW q \in rows'
                   PROVE  /\ q.id \in 1 .. lastId'
                          /\ origin'[q.cid] = ScopeOf(q.account, q.workspace)
                          /\ q.cid \notin discarded'
        OBVIOUS
      <3>1. PICK r \in With(b, bytes) : Becomes(r, q)
        BY <2>5 DEF Decays
      <3>2. q.cid \in KnownIn(rows')
        BY DEF KnownIn
      <3>3. QED
        BY <2>3, <2>9, <3>1, <3>2 DEF Becomes, SameBlock
    <2>13. discarded' \subseteq Blocks /\ \A c \in discarded' : origin'[c] # None
      <3>1. \A c \in KnownIn(rows) : c \in Blocks /\ origin[c] # None
        BY RowsAreRecorded DEF KnownIn, Typed
      <3>2. \A c \in discarded : c \in Blocks /\ origin[c] # None
        BY DEF StoreOK, Typed, TypedStore
      <3>3. \A c \in discarded' : c = b \/ (c \in Blocks /\ origin[c] # None)
        BY <2>3, <2>4, <3>1, <3>2
      <3>4. QED
        BY <2>2, <2>7, <3>3
    <2>14. lastId' = Cardinality({c \in Blocks : origin'[c] # None})
      <3> DEFINE old == {c \in Blocks : origin[c] # None}
      <3>1. {c \in Blocks : origin'[c] # None} = old \cup {b}
        BY <2>2, <2>7
      <3>2. IsFiniteSet(old) /\ b \notin old
        BY <2>2, UploadAssumption, FS_Subset
      <3>3. Cardinality(old \cup {b}) = Cardinality(old) + 1
        BY <3>2, FS_AddElement
      <3>4. QED
        BY <2>3, <3>1, <3>3 DEF StoreOK
    <2>15. \A q \in rows' : \/ \E r \in rows : Becomes(r, q) /\ q.state = r.state
                            \/ q.id > lastId /\ origin[q.cid] = None
      <3> SUFFICES ASSUME NEW q \in rows'
                   PROVE  \/ \E r \in rows : Becomes(r, q) /\ q.state = r.state
                          \/ q.id > lastId /\ origin[q.cid] = None
        OBVIOUS
      <3>1. PICK r \in With(b, bytes) : Becomes(r, q) /\ q.state = r.state
        BY <2>5 DEF Thins
      <3>2. CASE r \in rows
        BY <3>1, <3>2
      <3>3. CASE r.id = lastId + 1 /\ r.cid = b
        <4>1. q.id = lastId + 1 /\ q.cid = b
          BY <3>1, <3>3 DEF Becomes, SameBlock
        <4>2. QED
          BY <2>2, <2>6, <4>1
      <3>4. QED
        BY <2>4, <3>2, <3>3
    <2>16. TypedStore'
      BY <2>6, <2>7, <2>10, <2>13 DEF TypedStore
    <2>17. StoreOK'
      BY <2>10, <2>11, <2>12, <2>13, <2>14 DEF StoreOK
    <2>18. QED
      BY <2>2, <2>6, <2>7, <2>15, <2>16, <2>17 DEF Carried
  <1>3. QED
    BY <1>1, <1>2

(* What the handlers queue as the last block of what they end.                 *)
LEMMA LastCarries ==
  ASSUME Typed, StoreOK, NEW b \in LastBlock, NEW bytes \in Sizes, Record(b, bytes)
  PROVE  Carried
  <1>1. Recordable(b)
    BY DEF LastBlock, Recordable, Tracking
  <1>2. bytes \in Nat
    BY UploadAssumption
  <1>3. QED
    BY <1>1, <1>2, RecordCarries

(* A purge takes rows away, and their blocks are given up.                     *)
LEMMA PurgeCarries ==
  ASSUME TypedStore, StoreOK, NEW target, PurgeRows(target)
  PROVE  Carried
  <1>1. /\ rows' = Purge(rows, acct.owner, target)
        /\ discarded' = discarded \cup (KnownIn(rows) \ KnownIn(rows'))
        /\ UNCHANGED <<lastId, origin>>
    BY DEF PurgeRows, KnownIn
  <1>2. rows' \subseteq rows
    BY <1>1 DEF Purge
  <1>3. \A q \in rows' : q.cid \in KnownIn(rows')
    BY DEF KnownIn
  <1>4. \A c \in KnownIn(rows) : c \in Blocks /\ origin[c] # None
    BY RowsAreRecorded DEF KnownIn
  <1>5. TypedStore'
    BY <1>1, <1>2, <1>4 DEF TypedStore
  <1>6. StoreOK'
    BY <1>1, <1>2, <1>3, <1>4 DEF StoreOK, UniqueIds, UniqueBlocks
  <1>7. \A q \in rows' : \E r \in rows : Becomes(r, q) /\ q.state = r.state
    BY <1>2, SubsetThins DEF TypedStore, Thins
  <1>8. lastId' >= lastId
    BY <1>1 DEF TypedStore
  <1>9. QED
    BY <1>1, <1>5, <1>6, <1>7, <1>8 DEF Carried

-------------------------------------------------------------------------------
(* A step of the worker: the uploader and the server stay where they are. *)

\* Sign-ins are only added.
Longer ==
  /\ sessions' \in Seq(Accounts) /\ Len(sessions') >= Len(sessions)
  /\ \A i \in 1 .. Len(sessions) : sessions'[i] = sessions[i]

(* What was known of an account stays known.                                   *)
LEMMA KnownGrows ==
  ASSUME sessions \in Seq(Accounts), Longer
  PROVE  Known \subseteq Known' /\ Commands(Known) \subseteq Commands(Known')
  <1>1. Len(sessions) \in Nat /\ Len(sessions') \in Nat
    BY DEF Longer
  <1>2. Known \subseteq Known'
    BY <1>1 DEF Known, Longer
  <1>3. QED
    BY <1>2 DEF Commands

(* A request stays sound: sign-ins and origins are never taken back.           *)
LEMMA SoundStays ==
  ASSUME Typed, NEW q, Sound(q), Longer,
         \A b \in Blocks : origin[b] # None => origin'[b] = origin[b]
  PROVE  Sound(q)' /\ HeldAs(q)' = HeldAs(q)
  <1>1. Len(sessions) \in Nat /\ Len(sessions') \in Nat
    BY DEF Longer, Typed, TypedWorker
  <1>2. q.session \in 1 .. Len(sessions') /\ sessions'[q.session] = sessions[q.session]
    BY <1>1 DEF Longer, Sound
  <1>3. ScopeAt(q)' = ScopeAt(q) /\ HeldAs(q)' = HeldAs(q)
    BY <1>2 DEF ScopeAt, ScopeOf, HeldAs
  <1>4. sessions[q.session] \in Accounts
    BY DEF Sound, Typed, TypedWorker
  <1>5. ScopeAt(q) \in Scope
    BY <1>4 DEF ScopeAt, ScopeOf, Scope, Sound
  <1>6. origin[q.cid] # None
    BY <1>5, UploadAssumption DEF Sound
  <1>7. QED
    BY <1>2, <1>3, <1>6 DEF Sound

(* The request the uploader makes is sound.                                    *)
LEMMA RequestSound ==
  ASSUME Typed, DriveOK, EntryOK, pc \in Sent
  PROVE  /\ Sound(Request) /\ HeldAs(Request).cid = entry.cid
         /\ ScopeHere \in Scope /\ ScopeHere.account = cur.owner
         /\ ScopeAt(Request) = ScopeHere
         /\ cur \in Known
  <1>1. cur \in Known /\ todo # <<>> /\ \A i \in DOMAIN todo : todo[i].account = cur.owner
    BY DEF DriveOK, Sent, Draining, Typed, TypedDrive
  <1>2. Head(todo) \in Scope /\ Head(todo) = todo[1] /\ 1 \in DOMAIN todo
    BY <1>1 DEF Typed, TypedDrive
  <1>3. ScopeHere \in Scope /\ ScopeHere.account = cur.owner
    BY <1>1, <1>2 DEF ScopeHere
  <1>4. /\ cur.session \in 1 .. Len(sessions) /\ sessions[cur.session] = cur.owner
    BY <1>1 DEF Known
  <1>5. ScopeOf(cur.owner, ScopeHere.workspace) = ScopeHere /\ ScopeHere.workspace \in Workspaces
    BY <1>3 DEF Scope, ScopeOf
  <1>6. ScopeAt(Request) = ScopeHere /\ HeldAs(Request).cid = entry.cid
    BY <1>4, <1>5 DEF ScopeAt, Request, HeldAs
  <1>7. Sound(Request)
    BY <1>4, <1>5, <1>6 DEF Sound, EntryOK, Request
  <1>8. QED
    BY <1>1, <1>3, <1>6, <1>7

(* What the server holds and what may still arrive, when neither moved.        *)
LEMMA ServerCarried ==
  ASSUME Typed, ServerOK, Longer, UNCHANGED <<late, serverVars>>,
         \A b \in Blocks : origin[b] # None => origin'[b] = origin[b]
  PROVE  ServerOK'
  <1>1. UNCHANGED <<stored, erased, access, revoked, late>>
    BY DEF serverVars
  <1>2. \A q \in late : Sound(q)'
    BY SoundStays DEF ServerOK
  <1>3. \A h \in stored \cup erased : origin'[h.cid] = ScopeOf(h.account, h.workspace)
    <2> SUFFICES ASSUME NEW h \in stored \cup erased
                 PROVE  origin'[h.cid] = ScopeOf(h.account, h.workspace)
      OBVIOUS
    <2>1. h \in Holding /\ origin[h.cid] = ScopeOf(h.account, h.workspace)
      BY DEF ServerOK
    <2>2. h.cid \in Blocks /\ ScopeOf(h.account, h.workspace) \in Scope
      BY <2>1 DEF Holding, Scope, ScopeOf
    <2>3. QED
      BY <2>1, <2>2, UploadAssumption
  <1>4. QED
    BY <1>1, <1>2, <1>3 DEF ServerOK

(* The row being delivered keeps its number, its block and its scope, whatever *)
(* became of the rows.                                                         *)
LEMMA EntryCarried ==
  ASSUME Inv, pc \in Sent, TypedStore', lastId' >= lastId,
         \A b \in Blocks : origin[b] # None => origin'[b] = origin[b],
         \A q \in rows' : \/ \E r \in rows : Becomes(r, q)
                          \/ q.id > lastId /\ origin[q.cid] = None
  PROVE  /\ entry.id \in 1 .. lastId /\ entry.id \in 1 .. lastId' /\ entry.cid \in Blocks
         /\ origin'[entry.cid] = ScopeHere
         /\ \A q \in rows' : q.id = entry.id <=> q.cid = entry.cid
  <1>1. /\ entry.id \in 1 .. lastId /\ entry.cid \in Blocks
        /\ origin[entry.cid] = ScopeHere /\ origin[entry.cid] # None
        /\ lastId \in Nat /\ lastId' \in Nat
    BY RequestSound, UploadAssumption DEF EntryOK, Inv, Typed, TypedStore
  <1>2. entry.id \in 1 .. lastId' /\ origin'[entry.cid] = ScopeHere
    BY <1>1
  <1>3. ASSUME NEW q \in rows'
        PROVE  q.id = entry.id <=> q.cid = entry.cid
    <2>1. CASE \E r \in rows : Becomes(r, q)
      BY <2>1 DEF Inv, EntryOK, Becomes, SameBlock
    <2>2. CASE q.id > lastId /\ origin[q.cid] = None
      BY <1>1, <2>2
    <2>3. QED
      BY <2>1, <2>2
  <1>4. QED
    BY <1>1, <1>2, <1>3

(* It stays pending and the oldest, when no row was parked.                    *)
LEMMA FlightCarried ==
  ASSUME Inv, Carried, Flying
  PROVE  /\ \A q \in rows' : q.id = entry.id => q.state = "pending"
         /\ \A q \in Ready(rows', ScopeHere) : q.id >= entry.id
  <1>0. pc \in Sent
    BY DEF Flying, Sent
  <1>1. entry.id \in 1 .. lastId /\ lastId \in Nat
    BY <1>0 DEF EntryOK, Inv, Typed, TypedStore
  <1>2. ASSUME NEW q \in rows', q.id = entry.id
        PROVE  q.state = "pending"
    <2>1. PICK r \in rows : Becomes(r, q) /\ q.state = r.state
      BY <1>1, <1>2 DEF Carried
    <2>2. QED
      BY <1>2, <2>1 DEF Becomes, FlightOK, Inv
  <1>3. ASSUME NEW q \in Ready(rows', ScopeHere)
        PROVE  q.id >= entry.id
    <2>0. q \in rows' /\ q.state = "pending" /\ InScope(q, ScopeHere)
      BY DEF Ready, Pending
    <2>1. CASE \E r \in rows : Becomes(r, q) /\ q.state = r.state
      <3>1. PICK r \in rows : Becomes(r, q) /\ q.state = r.state
        BY <2>1
      <3>2. r \in Ready(rows, ScopeHere)
        BY <2>0, <3>1 DEF Ready, Pending, InScope, Becomes, SameBlock
      <3>3. QED
        BY <3>1, <3>2 DEF Becomes, FlightOK, Inv
    <2>2. CASE q.id > lastId
      <3>1. q.id \in Nat
        BY <2>0 DEF Carried, TypedStore, Row
      <3>2. QED
        BY <1>1, <2>2, <3>1
    <2>3. QED
      BY <2>0, <2>1, <2>2 DEF Carried
  <1>4. QED
    BY <1>2, <1>3

(* Where the uploader is and what it does, when it stood still and no row was  *)
(* parked.                                                                     *)
LEMMA DriveCarried ==
  ASSUME Inv, Carried, Longer, UNCHANGED <<cur, driveVars, deferred>>,
         stored \cup erased \subseteq stored' \cup erased'
  PROVE  DriveOK' /\ EntryOK' /\ AnswerOK' /\ FlightOK'
  <1>1. UNCHANGED <<cur, pc, mode, todo, entry, answer, deferred>>
    BY DEF driveVars
  <1>2. DriveOK'
    BY <1>1 DEF DriveOK, Inv
  <1>3. ScopeHere' = ScopeHere /\ Request' = Request
    BY <1>1 DEF ScopeHere, Request
  <1>4. EntryOK'
    BY <1>1, <1>3, EntryCarried DEF EntryOK, Inv, Carried
  <1>5. AnswerOK'
    <2>1. pc \in Sent => sessions'[Request.session] = sessions[Request.session]
      BY RequestSound DEF Inv, Sound, Longer
    <2>2. pc \in Sent => HeldAs(Request)' = HeldAs(Request)
      BY <1>3, <2>1 DEF HeldAs
    <2>3. QED
      BY <1>1, <2>2 DEF AnswerOK, Inv, Sent
  <1>6. FlightOK'
    BY <1>1, <1>3, FlightCarried DEF FlightOK, Flying
  <1>7. QED
    BY <1>2, <1>4, <1>5, <1>6

(* One element in front of a sequence.                                         *)
LEMMA Prefixed ==
  ASSUME NEW C, NEW r \in C, NEW t \in Seq(C), NEW u \in Seq(C),
         Len(u) = Len(t) + 1, u[1] = r, \A i \in 1 .. Len(t) : u[i + 1] = t[i]
  PROVE  <<r>> \o t = u
  <1>1. <<r>> \in Seq(C) /\ Len(<<r>>) = 1 /\ <<r>>[1] = r /\ Len(t) \in Nat
    OBVIOUS
  <1>2. /\ <<r>> \o t \in Seq(C) /\ Len(<<r>> \o t) = 1 + Len(t)
        /\ \A i \in 1 .. 1 + Len(t) :
             (<<r>> \o t)[i] = IF i =< 1 THEN <<r>>[i] ELSE t[i - 1]
    BY <1>1, ConcatProperties
  <1>3. \A i \in 2 .. 1 + Len(t) : i - 1 \in 1 .. Len(t) /\ u[i] = t[i - 1]
    <2> SUFFICES ASSUME NEW i \in 2 .. 1 + Len(t)
                 PROVE  i - 1 \in 1 .. Len(t) /\ u[i] = t[i - 1]
      OBVIOUS
    <2>1. i - 1 \in 1 .. Len(t) /\ (i - 1) + 1 = i
      BY <1>1
    <2>2. u[(i - 1) + 1] = t[i - 1]
      BY <2>1
    <2>3. QED
      BY <2>1, <2>2
  <1>4. \A i \in 1 .. Len(u) : (<<r>> \o t)[i] = u[i]
    BY <1>1, <1>2, <1>3
  <1>5. Len(<<r>> \o t) = Len(u) /\ <<r>> \o t \in Seq(C)
    BY <1>1, <1>2
  <1>6. \A i \in 1 .. Len(<<r>> \o t) : (<<r>> \o t)[i] = u[i]
    BY <1>4, <1>5
  <1>7. QED
    BY <1>5, <1>6, SeqEqual

\* A list of commands as the worker sends it: announcements, and `c` last.
EndsWith(list, c) ==
  /\ Len(list) \in Nat \ {0} /\ list[Len(list)] = c
  /\ \A i \in DOMAIN list : list[i] = c \/ list[i] = Cmd("rowsQueued", None)

LEMMA ListEnding ==
  ASSUME NEW C, NEW c \in C, Cmd("rowsQueued", None) \in C, NEW b
  PROVE  /\ Queued(b) \in Seq(C)
         /\ \A i \in DOMAIN Queued(b) : Queued(b)[i] = Cmd("rowsQueued", None)
         /\ Queued(b) \o <<c>> \in Seq(C) /\ EndsWith(Queued(b) \o <<c>>, c)
         /\ Queued(b) \o <<Cmd("rowsQueued", None), c>> \in Seq(C)
         /\ EndsWith(Queued(b) \o <<Cmd("rowsQueued", None), c>>, c)
  <1> DEFINE r == Cmd("rowsQueued", None)
  <1> HIDE DEF r
  <1>1. CASE b = None
    <2>1. Queued(b) = <<>>
      BY <1>1 DEF Queued
    <2>2. <<>> \o <<c>> = <<c>> /\ <<>> \o <<r, c>> = <<r, c>>
      <3>1. <<c>> \in Seq(C) /\ <<r, c>> \in Seq(C)
        BY DEF r
      <3>2. QED
        BY <3>1, ConcatEmptySeq
    <2>3. QED
      BY <2>1, <2>2 DEF EndsWith, r
  <1>2. CASE b # None
    <2>1. Queued(b) = <<r>>
      BY <1>2 DEF Queued, r
    <2>2. <<r>> \o <<c>> = <<r, c>> /\ <<r>> \o <<r, c>> = <<r, r, c>>
      <3>1. /\ <<r>> \in Seq(C) /\ <<c>> \in Seq(C) /\ <<r, c>> \in Seq(C)
            /\ <<r, r, c>> \in Seq(C)
        BY DEF r
      <3>2. <<r>> \o <<c>> = <<r, c>>
        <4>1. /\ Len(<<r, c>>) = Len(<<c>>) + 1 /\ <<r, c>>[1] = r
              /\ \A i \in 1 .. Len(<<c>>) : <<r, c>>[i + 1] = <<c>>[i]
          OBVIOUS
        <4>2. r \in C
          BY DEF r
        <4>3. QED
          BY <3>1, <4>1, <4>2, Prefixed
      <3>3. <<r>> \o <<r, c>> = <<r, r, c>>
        <4>1. /\ Len(<<r, r, c>>) = Len(<<r, c>>) + 1 /\ <<r, r, c>>[1] = r
              /\ \A i \in 1 .. Len(<<r, c>>) : <<r, r, c>>[i + 1] = <<r, c>>[i]
          OBVIOUS
        <4>2. r \in C
          BY DEF r
        <4>3. QED
          BY <3>1, <4>1, <4>2, Prefixed
      <3>4. QED
        BY <3>2, <3>3
    <2>3. QED
      BY <2>1, <2>2 DEF EndsWith, r
  <1>3. QED
    BY <1>1, <1>2

(* The worker sends a list: what was heard stays in front of it.               *)
LEMMA HeardGrows ==
  ASSUME NEW C, deferred \in Seq(C), cmds \in Seq(C), NEW list \in Seq(C),
         Send(list), UNCHANGED deferred
  PROVE  /\ Heard \in Seq(C) /\ Heard' \in Seq(C) /\ cmds' \in Seq(C)
         /\ DOMAIN Heard' = 1 .. Len(Heard) + Len(list)
         /\ \A i \in 1 .. Len(Heard) : Heard'[i] = Heard[i]
         /\ \A i \in (Len(Heard) + 1) .. (Len(Heard) + Len(list)) :
              Heard'[i] = list[i - Len(Heard)] /\ i - Len(Heard) \in DOMAIN list
  <1>1. Heard \in Seq(C) /\ cmds' = cmds \o list /\ cmds' \in Seq(C)
    BY ConcatProperties DEF Send, Heard
  <1>2. Heard' = Heard \o list
    BY <1>1, ConcatAssociative DEF Heard
  <1>3. /\ Heard \o list \in Seq(C)
        /\ Len(Heard \o list) = Len(Heard) + Len(list)
        /\ \A i \in 1 .. Len(Heard) + Len(list) :
             (Heard \o list)[i] = IF i =< Len(Heard) THEN Heard[i] ELSE list[i - Len(Heard)]
    BY <1>1, ConcatProperties
  <1>4. /\ Len(Heard) \in Nat /\ Len(list) \in Nat /\ DOMAIN list = 1 .. Len(list)
        /\ DOMAIN (Heard \o list) = 1 .. Len(Heard \o list)
    BY <1>1, <1>3, LenProperties
  <1>5. \A i \in 1 .. Len(Heard) : (Heard \o list)[i] = Heard[i]
    BY <1>3, <1>4
  <1>6. \A i \in (Len(Heard) + 1) .. (Len(Heard) + Len(list)) :
          (Heard \o list)[i] = list[i - Len(Heard)] /\ i - Len(Heard) \in 1 .. Len(list)
    BY <1>3, <1>4
  <1>7. QED
    BY <1>1, <1>2, <1>3, <1>4, <1>5, <1>6

(* What the worker sends is well formed, and ends the thread only when it      *)
(* should.                                                                     *)
LEMMA SendsWell ==
  ASSUME Inv, Longer, NEW list \in Seq(Commands(Known')), Send(list),
         UNCHANGED <<deferred, pc, mode>>,
         quitting' \/ (~quitting /\ \A i \in DOMAIN list : list[i].op # "shutdown")
  PROVE  cmds' \in Seq(Commands(Known')) /\ EndOK'
  <1>1. Commands(Known) \subseteq Commands(Known')
    BY KnownGrows DEF Inv, Typed, TypedWorker
  <1>2. deferred \in Seq(Commands(Known')) /\ cmds \in Seq(Commands(Known'))
    BY <1>1, SeqMonotonic DEF Inv, Typed, TypedQueues
  <1>3. /\ cmds' \in Seq(Commands(Known')) /\ Heard \in Seq(Commands(Known'))
        /\ DOMAIN Heard' = 1 .. Len(Heard) + Len(list)
        /\ \A i \in 1 .. Len(Heard) : Heard'[i] = Heard[i]
        /\ \A i \in (Len(Heard) + 1) .. (Len(Heard) + Len(list)) :
             Heard'[i] = list[i - Len(Heard)] /\ i - Len(Heard) \in DOMAIN list
    BY <1>2, HeardGrows
  <1>4. ASSUME ~quitting'
        PROVE  \A i \in DOMAIN Heard' : Heard'[i].op # "shutdown"
    <2>1. Len(Heard) \in Nat /\ Len(list) \in Nat /\ DOMAIN Heard = 1 .. Len(Heard)
      BY <1>3, LenProperties
    <2>2. \A i \in DOMAIN Heard' : i \in 1 .. Len(Heard)
                                  \/ i \in (Len(Heard) + 1) .. (Len(Heard) + Len(list))
      BY <1>3, <2>1
    <2>3. \A i \in 1 .. Len(Heard) : Heard'[i].op # "shutdown"
      BY <1>3, <1>4, <2>1 DEF EndOK, Inv
    <2>4. \A i \in (Len(Heard) + 1) .. (Len(Heard) + Len(list)) : Heard'[i].op # "shutdown"
      BY <1>3, <1>4
    <2>5. QED
      BY <2>2, <2>3, <2>4
  <1>5. EndOK'
    BY <1>4 DEF EndOK, Inv
  <1>6. QED
    BY <1>3, <1>5

(* The worker's last command settles what the uploader will use.               *)
LEMMA AgreesAnew ==
  ASSUME Inv, Longer, NEW list \in Seq(Commands(Known')), NEW c, EndsWith(list, c),
         Send(list), UNCHANGED deferred, c.op \in Decides, Names(c) = Wanted'
  PROVE  AccountsAgree'
  <1>1. Commands(Known) \subseteq Commands(Known')
    BY KnownGrows DEF Inv, Typed, TypedWorker
  <1>2. deferred \in Seq(Commands(Known')) /\ cmds \in Seq(Commands(Known'))
    BY <1>1, SeqMonotonic DEF Inv, Typed, TypedQueues
  <1> DEFINE n == Len(Heard) + Len(list)
  <1>3. /\ Heard \in Seq(Commands(Known'))
        /\ DOMAIN Heard' = 1 .. Len(Heard) + Len(list)
        /\ \A i \in (Len(Heard) + 1) .. (Len(Heard) + Len(list)) :
             Heard'[i] = list[i - Len(Heard)]
    BY <1>2, HeardGrows
  <1>4. Len(Heard) \in Nat /\ Len(list) \in Nat \ {0}
    BY <1>3, LenProperties DEF EndsWith
  <1>5. n \in DOMAIN Heard' /\ Heard'[n] = c /\ \A j \in DOMAIN Heard' : j =< n
    <2>1. /\ n \in (Len(Heard) + 1) .. (Len(Heard) + Len(list)) /\ n - Len(Heard) = Len(list)
          /\ n \in 1 .. n /\ \A j \in 1 .. n : j =< n
      BY <1>4
    <2>2. Heard'[n] = list[Len(list)]
      BY <1>3, <2>1
    <2>3. QED
      BY <1>3, <2>1, <2>2 DEF EndsWith
  <1> HIDE DEF n
  <1>6. WillUse(Wanted)'
    BY <1>5 DEF WillUse, Heard
  <1>7. QED
    BY <1>6 DEF AccountsAgree

(* Commands that decide nothing leave the agreement alone.                     *)
LEMMA AgreesStill ==
  ASSUME Inv, Longer, NEW list \in Seq(Commands(Known')), Send(list),
         UNCHANGED <<deferred, mode, cur, Wanted>>,
         \A i \in DOMAIN list : list[i].op \notin Decides,
         quitting => quitting',
         acct'.owner = acct.owner,
         \A i \in DOMAIN events : events[i].op = "signInExpired" =>
           \E j \in DOMAIN events' : events'[j] = events[i]
  PROVE  AccountsAgree'
  <1>1. Commands(Known) \subseteq Commands(Known')
    BY KnownGrows DEF Inv, Typed, TypedWorker
  <1>2. deferred \in Seq(Commands(Known')) /\ cmds \in Seq(Commands(Known'))
    BY <1>1, SeqMonotonic DEF Inv, Typed, TypedQueues
  <1> DEFINE n == Len(Heard)
             m == Len(list)
  <1>3. /\ Heard \in Seq(Commands(Known'))
        /\ DOMAIN Heard' = 1 .. n + m
        /\ \A i \in 1 .. n : Heard'[i] = Heard[i]
        /\ \A i \in (n + 1) .. (n + m) : Heard'[i] = list[i - n] /\ i - n \in DOMAIN list
    BY <1>2, HeardGrows
  <1>4. n \in Nat /\ m \in Nat /\ DOMAIN Heard = 1 .. n
    BY <1>3, LenProperties
  <1> HIDE DEF n, m
  <1>5. \A i \in (n + 1) .. (n + m) : Heard'[i].op \notin Decides
    BY <1>3
  <1>6. {i \in DOMAIN Heard' : Heard'[i].op \in Decides}
          = {i \in DOMAIN Heard : Heard[i].op \in Decides}
    <2>1. \A i \in 1 .. n + m : i \in 1 .. n \/ i \in (n + 1) .. (n + m)
      BY <1>4
    <2>2. 1 .. n \subseteq 1 .. n + m
      BY <1>4
    <2>3. QED
      BY <1>3, <1>4, <1>5, <2>1, <2>2
  <1>7. \A a : WillUse(a) => WillUse(a)'
    <2> SUFFICES ASSUME NEW a, WillUse(a)
                 PROVE  WillUse(a)'
      OBVIOUS
    <2> DEFINE D == {i \in DOMAIN Heard : Heard[i].op \in Decides}
    <2>1. CASE D = {}
      BY <1>6, <2>1 DEF WillUse, Heard
    <2>2. CASE D # {}
      <3>1. PICK i \in D : (\A j \in D : j =< i) /\ a = Names(Heard[i])
        BY <2>2 DEF WillUse, Heard
      <3>2. Heard'[i] = Heard[i]
        BY <1>3, <1>4, <3>1
      <3>3. QED
        BY <1>6, <3>1, <3>2 DEF WillUse, Heard
    <2>3. QED
      BY <2>1, <2>2
  <1>8. QED
    BY <1>7 DEF AccountsAgree, Inv

(* A step of the worker that treats store, sign-ins and queues as it should.   *)
LEMMA WorkerStep ==
  ASSUME Inv, Carried, Longer,
         UNCHANGED <<cur, hold, driveVars, deferred, late, serverVars>>,
         TypedWorker', cmds' \in Seq(Commands(Known')), events' \in Seq(Reports),
         EndOK', AccountsAgree'
  PROVE  Inv'
  <1>1. Known \subseteq Known' /\ Commands(Known) \subseteq Commands(Known')
    BY KnownGrows DEF Inv, Typed, TypedWorker
  <1>2. TypedQueues'
    BY <1>1, SeqMonotonic DEF Inv, Typed, TypedQueues
  <1>3. TypedDrive'
    BY <1>1 DEF Inv, Typed, TypedDrive, driveVars
  <1>4. ServerOK'
    BY ServerCarried DEF Inv, Carried
  <1>5. DriveOK' /\ EntryOK' /\ AnswerOK' /\ FlightOK'
    BY DriveCarried DEF serverVars
  <1>6. QED
    BY <1>2, <1>3, <1>4, <1>5 DEF Inv, Typed, Carried

\* The reports of a refused sign-in are still to be read.
KeepsReports ==
  \A i \in DOMAIN events : events[i].op = "signInExpired" =>
    \E j \in DOMAIN events' : events'[j] = events[i]

\* What every step of the worker leaves alone.
Elsewhere == UNCHANGED <<cur, hold, driveVars, deferred, late, serverVars>>

(* A step after which the uploader is to use another account, or none.         *)
LEMMA AnewStep ==
  ASSUME Inv, Carried, Longer, Elsewhere, TypedWorker', events' \in Seq(Reports),
         NEW list \in Seq(Commands(Known')), NEW c, EndsWith(list, c), Send(list),
         c.op \in Decides, Names(c) = Wanted', quitting' = quitting
  PROVE  Inv'
  <1>1. UNCHANGED <<deferred, pc, mode>>
    BY DEF Elsewhere, driveVars
  <1>2. AccountsAgree'
    BY <1>1, AgreesAnew
  <1>3. \A i \in DOMAIN list : list[i].op # "shutdown"
    BY DEF EndsWith, Cmd, Decides
  <1>4. CASE quitting
    BY <1>1, <1>2, <1>4, SendsWell, WorkerStep DEF Elsewhere
  <1>5. CASE ~quitting
    BY <1>1, <1>2, <1>3, <1>5, SendsWell, WorkerStep DEF Elsewhere
  <1>6. QED
    BY <1>4, <1>5

\* No command of the list changes the account, or ends a thread it should not.
Harmless(list) ==
  \A i \in DOMAIN list : \/ list[i].op \in {"rowsQueued", "now", "parkScope"}
                         \/ list[i].op = "shutdown" /\ quitting'

(* A step after which the uploader is to use the account it was to use.        *)
LEMMA StillStep ==
  ASSUME Inv, Carried, Longer, Elsewhere, TypedWorker', events' \in Seq(Reports),
         NEW list \in Seq(Commands(Known')), Send(list),
         Harmless(list), Wanted' = Wanted, acct'.owner = acct.owner, quitting => quitting', KeepsReports
  PROVE  Inv'
  <1>1. UNCHANGED <<deferred, pc, mode, cur>>
    BY DEF Elsewhere, driveVars
  <1>2. \A i \in DOMAIN list : list[i].op \notin Decides
    BY DEF Decides, Harmless
  <1>3. AccountsAgree'
    BY <1>1, <1>2, AgreesStill DEF KeepsReports
  <1>4. quitting' \/ (~quitting /\ \A i \in DOMAIN list : list[i].op # "shutdown")
    BY DEF Harmless
  <1>5. QED
    BY <1>1, <1>3, <1>4, SendsWell, WorkerStep DEF Elsewhere

(* The commands there are.                                                     *)
LEMMA CmdsTyped ==
  ASSUME NEW C
  PROVE  /\ \A op \in Plain : Cmd(op, None) \in Commands(C)
         /\ \A a \in C : Cmd("account", a) \in Commands(C)
         /\ \A w \in Workspaces : Cmd("parkScope", w) \in Commands(C)
  BY DEF Commands, Cmd

(* Announcing a block, or nothing, is harmless; so is saying nothing.          *)
LEMMA QueuedList ==
  ASSUME NEW C, NEW b
  PROVE  Queued(b) \in Seq(Commands(C)) /\ Harmless(Queued(b))
  <1>1. Cmd("rowsQueued", None) \in Commands(C)
    BY CmdsTyped DEF Plain
  <1>2. /\ Queued(b) \in Seq(Commands(C))
        /\ \A i \in DOMAIN Queued(b) : Queued(b)[i] = Cmd("rowsQueued", None)
    BY <1>1, ListEnding
  <1>3. QED
    BY <1>2 DEF Harmless, Cmd

LEMMA SilentList ==
  ASSUME Typed, UNCHANGED cmds, NEW C
  PROVE  <<>> \in Seq(Commands(C)) /\ Send(<<>>) /\ Harmless(<<>>)
  <1>1. cmds \o <<>> = cmds
    BY ConcatEmptySeq DEF Typed, TypedQueues
  <1>2. <<>> \in Seq(Commands(C)) /\ DOMAIN <<>> = {}
    OBVIOUS
  <1>3. QED
    BY <1>1, <1>2 DEF Send, Harmless

(* Announcements and a harmless command last.                                  *)
LEMMA HarmlessEnding ==
  ASSUME NEW list, NEW c, EndsWith(list, c),
         c.op \in {"rowsQueued", "now", "parkScope"} \/ (c.op = "shutdown" /\ quitting')
  PROVE  Harmless(list)
  BY DEF EndsWith, Harmless, Cmd

(* The worker's own state, when it is left alone.                              *)
LEMMA SameWorker ==
  ASSUME Typed, UNCHANGED workerVars
  PROVE  /\ Longer /\ TypedWorker' /\ Known' = Known /\ Wanted' = Wanted
         /\ acct' = acct /\ quitting' = quitting
  <1>1. UNCHANGED <<acct, expired, revokedHere, suspended, discarding, quitting, keyring, sessions>>
    BY DEF workerVars
  <1>2. Longer /\ Known' = Known
    BY <1>1 DEF Longer, Known, Typed, TypedWorker
  <1>3. TypedWorker'
    BY <1>1, <1>2 DEF Typed, TypedWorker
  <1>4. QED
    BY <1>1, <1>2, <1>3 DEF Wanted

(* The events, when they are left alone.                                       *)
LEMMA SameEvents ==
  ASSUME Typed, UNCHANGED events
  PROVE  events' \in Seq(Reports) /\ KeepsReports
  BY DEF Typed, TypedQueues, KeepsReports

(* The account signed in, as a record.                                         *)
LEMMA AccountParts ==
  ASSUME Typed, acct # None
  PROVE  /\ acct \in Known /\ acct \in Account
         /\ acct.owner \in Accounts /\ acct.workspace \in Workspaces \cup {None}
         /\ acct.key \in Keys \cup {NoKey} /\ acct.session \in 1 .. MaxSession
         /\ acct.session \in 1 .. Len(sessions) /\ sessions[acct.session] = acct.owner
  BY DEF Typed, TypedWorker, Known, Account

(* One sign-in's account in another workspace is known too.                    *)
LEMMA OtherWorkspace ==
  ASSUME Typed, acct # None, NEW w \in Workspaces \cup {None}
  PROVE  /\ [acct EXCEPT !.workspace = w] \in Known
         /\ [acct EXCEPT !.workspace = w].owner = acct.owner
  <1>1. /\ [acct EXCEPT !.workspace = w] \in Account
        /\ [acct EXCEPT !.workspace = w].owner = acct.owner
        /\ [acct EXCEPT !.workspace = w].session = acct.session
    BY AccountParts DEF Account
  <1>2. QED
    BY <1>1, AccountParts DEF Known

-------------------------------------------------------------------------------
(* The worker's steps. *)

LEMMA RecordBlockStep ==
  ASSUME Inv, RecordBlock
  PROVE  Inv'
  <1>1. PICK b \in LastBlock \ {None}, bytes \in Sizes : Record(b, bytes) /\ Send(Queued(b))
    BY DEF RecordBlock
  <1>2. Carried
    BY <1>1, LastCarries DEF Inv
  <1>3. UNCHANGED workerVars /\ UNCHANGED events /\ Elsewhere
    BY DEF RecordBlock, WorkerRest, Elsewhere
  <1>4. Queued(b) \in Seq(Commands(Known')) /\ Harmless(Queued(b))
    BY QueuedList
  <1>5. QED
    BY <1>1, <1>2, <1>3, <1>4, SameWorker, SameEvents, StillStep DEF Inv

LEMMA KeepAwayStep ==
  ASSUME Inv, KeepAway
  PROVE  Inv'
  <1>1. PICK b \in Unrecorded : Record(b, 0) /\ Send(Queued(b))
    BY DEF KeepAway
  <1>2. Carried
    <2>1. Recordable(b)
      BY DEF KeepAway, Recordable
    <2>2. QED
      BY <1>1, <2>1, RecordCarries DEF Inv
  <1>3. UNCHANGED workerVars /\ UNCHANGED events /\ Elsewhere
    BY DEF KeepAway, WorkerRest, Elsewhere
  <1>4. Queued(b) \in Seq(Commands(Known')) /\ Harmless(Queued(b))
    BY QueuedList
  <1>5. QED
    BY <1>1, <1>2, <1>3, <1>4, SameWorker, SameEvents, StillStep DEF Inv

LEMMA SuspendStep ==
  ASSUME Inv, Suspend
  PROVE  Inv'
  <1>1. PICK b \in LastBlock, bytes \in Sizes : Record(b, bytes)
    BY DEF Suspend
  <1>2. Carried
    BY <1>1, LastCarries DEF Inv
  <1>3. /\ UNCHANGED <<acct, expired, revokedHere, discarding, quitting, keyring, sessions, cmds>>
        /\ suspended' = TRUE /\ UNCHANGED events /\ Elsewhere
    BY DEF Suspend, WorkerRest, Elsewhere
  <1>4. Longer /\ Wanted' = Wanted /\ TypedWorker'
    BY <1>3 DEF Longer, Inv, Typed, TypedWorker, Known, Wanted
  <1>5. <<>> \in Seq(Commands(Known')) /\ Send(<<>>) /\ Harmless(<<>>)
    BY <1>3, SilentList DEF Inv
  <1>6. QED
    BY <1>2, <1>3, <1>4, <1>5, SameEvents, StillStep DEF Inv

LEMMA ResumeStep ==
  ASSUME Inv, Resume
  PROVE  Inv'
  <1>1. /\ UNCHANGED <<acct, expired, revokedHere, discarding, quitting, keyring, sessions>>
        /\ suspended' = FALSE /\ UNCHANGED events /\ Elsewhere /\ UNCHANGED storeVars
        /\ Send(<<Cmd("rowsQueued", None)>>)
    BY DEF Resume, WorkerRest, Elsewhere
  <1>2. Longer /\ Wanted' = Wanted /\ Known' = Known
    BY <1>1 DEF Longer, Inv, Typed, TypedWorker, Known, Wanted
  <1>3. TypedWorker'
    BY <1>1, <1>2 DEF Inv, Typed, TypedWorker
  <1>4. Carried
    BY <1>1, StoreSame DEF Inv, Typed
  <1>5. /\ <<Cmd("rowsQueued", None)>> \in Seq(Commands(Known'))
        /\ Harmless(<<Cmd("rowsQueued", None)>>)
    <2>1. Cmd("rowsQueued", None) \in Commands(Known')
      BY CmdsTyped DEF Plain
    <2>2. Cmd("rowsQueued", None).op = "rowsQueued"
      BY DEF Cmd
    <2>3. QED
      BY <2>1, <2>2 DEF Harmless
  <1>6. QED
    BY <1>1, <1>2, <1>3, <1>4, <1>5, SameEvents, StillStep DEF Inv

LEMMA SyncNowStep ==
  ASSUME Inv, SyncNow
  PROVE  Inv'
  <1> DEFINE c == Cmd("now", None)
  <1>1. PICK b \in LastBlock, bytes \in Sizes : Record(b, bytes) /\ Send(Queued(b) \o <<c>>)
    BY DEF SyncNow
  <1>2. Carried
    BY <1>1, LastCarries DEF Inv
  <1>3. UNCHANGED workerVars /\ UNCHANGED events /\ Elsewhere
    BY DEF SyncNow, WorkerRest, Elsewhere
  <1>4. Cmd("rowsQueued", None) \in Commands(Known') /\ c \in Commands(Known')
    BY CmdsTyped DEF Plain
  <1>5. c.op = "now" /\ Cmd("rowsQueued", None).op = "rowsQueued"
    BY DEF Cmd
  <1> HIDE DEF c
  <1>6. /\ Queued(b) \o <<c>> \in Seq(Commands(Known'))
        /\ EndsWith(Queued(b) \o <<c>>, c)
    BY <1>4, ListEnding
  <1>7. Harmless(Queued(b) \o <<c>>)
    BY <1>5, <1>6, HarmlessEnding
  <1>8. /\ Longer /\ TypedWorker' /\ Wanted' = Wanted /\ acct'.owner = acct.owner
        /\ quitting' = quitting /\ events' \in Seq(Reports) /\ KeepsReports
    BY <1>3, SameWorker, SameEvents DEF Inv
  <1>9. QED
    BY <1>1, <1>2, <1>3, <1>6, <1>7, <1>8, StillStep

LEMMA PurgeQueueStep ==
  ASSUME Inv, PurgeQueue
  PROVE  Inv'
  <1>1. PICK target \in PurgeTargets : PurgeRows(target)
    BY DEF PurgeQueue
  <1>2. Carried
    BY <1>1, PurgeCarries DEF Inv, Typed
  <1>3. UNCHANGED workerVars /\ UNCHANGED events /\ Elsewhere
    BY DEF PurgeQueue, WorkerRest, Elsewhere
  <1>4. <<>> \in Seq(Commands(Known')) /\ Send(<<>>) /\ Harmless(<<>>)
    BY <1>1, SilentList DEF PurgeRows, Inv
  <1>5. /\ Longer /\ TypedWorker' /\ Wanted' = Wanted /\ acct'.owner = acct.owner
        /\ quitting' = quitting /\ events' \in Seq(Reports) /\ KeepsReports
    BY <1>3, SameWorker, SameEvents DEF Inv
  <1>6. QED
    BY <1>2, <1>3, <1>4, <1>5, StillStep

LEMMA DiscardStep ==
  ASSUME Inv, Discard
  PROVE  Inv'
  <1>1. PurgeRows({"pending", "parked"})
    BY DEF Discard
  <1>2. Carried
    BY <1>1, PurgeCarries DEF Inv, Typed
  <1>3. /\ UNCHANGED <<acct, expired, revokedHere, suspended, quitting, keyring, sessions>>
        /\ discarding' = TRUE /\ UNCHANGED events /\ Elsewhere
    BY DEF Discard, WorkerRest, Elsewhere
  <1>4. Longer /\ Wanted' = Wanted /\ TypedWorker'
    BY <1>3 DEF Longer, Inv, Typed, TypedWorker, Known, Wanted
  <1>5. <<>> \in Seq(Commands(Known')) /\ Send(<<>>) /\ Harmless(<<>>)
    BY <1>1, SilentList DEF PurgeRows, Inv
  <1>6. QED
    BY <1>2, <1>3, <1>4, <1>5, SameEvents, StillStep DEF Inv

LEMMA SignOutStep ==
  ASSUME Inv, SignOut
  PROVE  Inv'
  <1> DEFINE c == Cmd("signOut", None)
  <1>1. PICK b \in LastBlock, bytes \in Sizes : Record(b, bytes) /\ Send(Queued(b) \o <<c>>)
    BY DEF SignOut
  <1>2. Carried
    BY <1>1, LastCarries DEF Inv
  <1>3. /\ UNCHANGED <<suspended, quitting, sessions>> /\ UNCHANGED events /\ Elsewhere
        /\ acct # None /\ keyring' = [keyring EXCEPT ![acct.owner] = NoKey]
        /\ acct' = None /\ expired' = FALSE /\ revokedHere' = FALSE /\ discarding' = FALSE
    BY DEF SignOut, WorkerRest, Elsewhere
  <1>4. Longer /\ Known' = Known /\ Wanted' = None
    BY <1>3 DEF Longer, Inv, Typed, TypedWorker, Known, Wanted
  <1>5. TypedWorker'
    BY <1>3, <1>4 DEF Inv, Typed, TypedWorker
  <1>6. Cmd("rowsQueued", None) \in Commands(Known') /\ c \in Commands(Known')
    BY CmdsTyped DEF Plain
  <1>7. c.op \in Decides /\ Names(c) = Wanted'
    BY <1>4 DEF Cmd, Decides, Names
  <1> HIDE DEF c
  <1>8. Queued(b) \o <<c>> \in Seq(Commands(Known')) /\ EndsWith(Queued(b) \o <<c>>, c)
    BY <1>6, ListEnding
  <1>9. events' \in Seq(Reports)
    BY <1>3, SameEvents DEF Inv
  <1>10. QED
    BY <1>1, <1>2, <1>3, <1>4, <1>5, <1>7, <1>8, <1>9, AnewStep

LEMMA SignInStep ==
  ASSUME Inv, NEW o \in Accounts, NEW w \in Workspaces, SignIn(o, w)
  PROVE  Inv'
  <1> DEFINE s   == Len(sessions) + 1
             key == IF keyring[o] = NoKey THEN s ELSE keyring[o]
             a   == [owner |-> o, workspace |-> w, key |-> key, session |-> s]
             c   == Cmd("account", a)
  <1>1. /\ s =< MaxSession /\ UNCHANGED storeVars
        /\ acct' = a /\ keyring' = [keyring EXCEPT ![o] = key]
        /\ sessions' = Append(sessions, o)
        /\ expired' = FALSE /\ revokedHere' = FALSE
        /\ Send(<<c>>)
        /\ UNCHANGED <<suspended, discarding, quitting>>
        /\ UNCHANGED events /\ Elsewhere
    BY DEF SignIn, WorkerRest, Elsewhere
  <1>2. /\ Len(sessions) \in Nat /\ s \in 1 .. MaxSession /\ MaxSession \in Nat
        /\ sessions \in Seq(Accounts)
    BY <1>1, UploadAssumption DEF Inv, Typed, TypedWorker
  <1>3. key \in Keys \cup {NoKey}
    BY <1>2, UploadAssumption DEF Inv, Typed, TypedWorker
  <1>4. /\ sessions' \in Seq(Accounts) /\ Len(sessions') = s /\ sessions'[s] = o
        /\ \A i \in 1 .. Len(sessions) : sessions'[i] = sessions[i]
    BY <1>1, <1>2, AppendProperties
  <1>5. Longer
    BY <1>2, <1>4 DEF Longer
  <1>6. a \in Account
    BY <1>2, <1>3 DEF Account
  <1>7. a.session = s /\ a.owner = o
    OBVIOUS
  <1> HIDE DEF a, key
  <1>8. a \in Known'
    BY <1>2, <1>4, <1>6, <1>7 DEF Known
  <1>9. TypedWorker'
    BY <1>1, <1>2, <1>3, <1>4, <1>8 DEF Inv, Typed, TypedWorker
  <1>10. Carried
    BY <1>1, StoreSame DEF Inv, Typed
  <1>11. Wanted' = a
    BY <1>1 DEF Wanted
  <1>12. c \in Commands(Known')
    BY <1>8, CmdsTyped
  <1>13. c.op \in Decides /\ Names(c) = Wanted'
    BY <1>11 DEF Cmd, Decides, Names
  <1> HIDE DEF c
  <1>14. <<c>> \in Seq(Commands(Known')) /\ EndsWith(<<c>>, c)
    BY <1>12 DEF EndsWith
  <1>15. events' \in Seq(Reports)
    BY <1>1, SameEvents DEF Inv
  <1>16. QED
    BY <1>1, <1>5, <1>9, <1>10, <1>13, <1>14, <1>15, AnewStep

LEMMA SwitchStep ==
  ASSUME Inv, NEW w \in Workspaces, Switch(w)
  PROVE  Inv'
  <1> DEFINE a == [acct EXCEPT !.workspace = w]
             c == Cmd("account", a)
  <1>1. PICK b \in LastBlock, bytes \in Sizes : Record(b, bytes) /\ Send(Queued(b) \o <<c>>)
    BY DEF Switch
  <1>2. Carried
    BY <1>1, LastCarries DEF Inv
  <1>3. /\ acct # None /\ ~expired /\ acct' = a /\ revokedHere' = FALSE
        /\ keyring' \in {keyring, [keyring EXCEPT ![acct.owner] = acct.key]}
        /\ UNCHANGED <<expired, suspended, discarding, quitting, sessions>>
        /\ UNCHANGED events /\ Elsewhere
    BY DEF Switch, WorkerRest, Elsewhere
  <1>4. a \in Known
    BY <1>3, OtherWorkspace DEF Inv
  <1> HIDE DEF a
  <1>5. Longer /\ Known' = Known /\ Wanted' = a
    BY <1>3 DEF Longer, Inv, Typed, TypedWorker, Known, Wanted
  <1>6. keyring' \in [Accounts -> Keys \cup {NoKey}]
    BY <1>3, AccountParts DEF Inv, Typed, TypedWorker
  <1>7. TypedWorker'
    BY <1>3, <1>4, <1>5, <1>6 DEF Inv, Typed, TypedWorker
  <1>8. Cmd("rowsQueued", None) \in Commands(Known') /\ c \in Commands(Known')
    BY <1>4, <1>5, CmdsTyped DEF Plain
  <1>9. c.op \in Decides /\ Names(c) = Wanted'
    BY <1>5 DEF Cmd, Decides, Names
  <1> HIDE DEF c
  <1>10. Queued(b) \o <<c>> \in Seq(Commands(Known')) /\ EndsWith(Queued(b) \o <<c>>, c)
    BY <1>8, ListEnding
  <1>11. events' \in Seq(Reports)
    BY <1>3, SameEvents DEF Inv
  <1>12. QED
    BY <1>1, <1>2, <1>3, <1>5, <1>7, <1>9, <1>10, <1>11, AnewStep

(* Expire, LoseWorkspace and LoseDevice, whichever message made the worker     *)
(* call them.                                                                  *)
LEMMA ExpireStep ==
  ASSUME Inv, Expire, Elsewhere, events' \in Seq(Reports)
  PROVE  Inv'
  <1> DEFINE c == Cmd("noAccount", None)
  <1>1. PICK b \in LastBlock, bytes \in Sizes : Record(b, bytes) /\ Send(Queued(b) \o <<c>>)
    BY DEF Expire
  <1>2. Carried
    BY <1>1, LastCarries DEF Inv
  <1>3. /\ UNCHANGED <<acct, revokedHere, suspended, discarding, quitting, keyring, sessions>>
        /\ expired' = TRUE
    BY DEF Expire
  <1>4. Longer /\ Known' = Known /\ Wanted' = None
    BY <1>3 DEF Longer, Inv, Typed, TypedWorker, Known, Wanted
  <1>5. TypedWorker'
    BY <1>3, <1>4 DEF Inv, Typed, TypedWorker
  <1>6. Cmd("rowsQueued", None) \in Commands(Known') /\ c \in Commands(Known')
    BY CmdsTyped DEF Plain
  <1>7. c.op \in Decides /\ Names(c) = Wanted'
    BY <1>4 DEF Cmd, Decides, Names
  <1> HIDE DEF c
  <1>8. Queued(b) \o <<c>> \in Seq(Commands(Known')) /\ EndsWith(Queued(b) \o <<c>>, c)
    BY <1>6, ListEnding
  <1>9. QED
    BY <1>1, <1>2, <1>3, <1>4, <1>5, <1>7, <1>8, AnewStep

LEMMA LoseWorkspaceStep ==
  ASSUME Inv, LoseWorkspace, acct # None, ~expired, Elsewhere, events' \in Seq(Reports)
  PROVE  Inv'
  <1> DEFINE a == [acct EXCEPT !.workspace = None]
             c == Cmd("account", a)
             r == Cmd("rowsQueued", None)
  <1>1. PICK b \in LastBlock, bytes \in Sizes :
               Record(b, bytes) /\ Send(Queued(b) \o <<r, c>>)
    BY DEF LoseWorkspace
  <1>2. Carried
    BY <1>1, LastCarries DEF Inv
  <1>3. /\ UNCHANGED <<expired, revokedHere, suspended, discarding, quitting, keyring, sessions>>
        /\ acct' = a
    BY DEF LoseWorkspace
  <1>4. a \in Known
    BY OtherWorkspace DEF Inv
  <1> HIDE DEF a
  <1>5. Longer /\ Known' = Known /\ Wanted' = a
    BY <1>3 DEF Longer, Inv, Typed, TypedWorker, Known, Wanted
  <1>6. TypedWorker'
    BY <1>3, <1>4, <1>5 DEF Inv, Typed, TypedWorker
  <1>7. r \in Commands(Known') /\ c \in Commands(Known')
    BY <1>4, <1>5, CmdsTyped DEF Plain
  <1>8. c.op \in Decides /\ Names(c) = Wanted'
    BY <1>5 DEF Cmd, Decides, Names
  <1> HIDE DEF c
  <1>9. Queued(b) \o <<r, c>> \in Seq(Commands(Known')) /\ EndsWith(Queued(b) \o <<r, c>>, c)
    BY <1>7, ListEnding
  <1>10. QED
    BY <1>1, <1>2, <1>3, <1>5, <1>6, <1>8, <1>9, AnewStep

LEMMA LoseDeviceStep ==
  ASSUME Inv, NEW w \in Workspaces, LoseDevice(w), acct # None, Elsewhere,
         events' \in Seq(Reports), KeepsReports
  PROVE  Inv'
  <1> DEFINE c == Cmd("parkScope", w)
  <1>1. PICK b \in LastBlock, bytes \in Sizes : Record(b, bytes) /\ Send(Queued(b) \o <<c>>)
    BY DEF LoseDevice
  <1>2. Carried
    BY <1>1, LastCarries DEF Inv
  <1>3. /\ UNCHANGED <<acct, expired, suspended, discarding, quitting, sessions>>
        /\ revokedHere' = TRUE /\ keyring' = [keyring EXCEPT ![acct.owner] = NoKey]
    BY DEF LoseDevice
  <1>4. Longer /\ Known' = Known /\ Wanted' = Wanted
    BY <1>3 DEF Longer, Inv, Typed, TypedWorker, Known, Wanted
  <1>5. TypedWorker'
    BY <1>3, <1>4 DEF Inv, Typed, TypedWorker
  <1>6. Cmd("rowsQueued", None) \in Commands(Known') /\ c \in Commands(Known')
    BY CmdsTyped DEF Plain
  <1>7. c.op = "parkScope"
    BY DEF Cmd
  <1> HIDE DEF c
  <1>8. Queued(b) \o <<c>> \in Seq(Commands(Known')) /\ EndsWith(Queued(b) \o <<c>>, c)
    BY <1>6, ListEnding
  <1>9. Harmless(Queued(b) \o <<c>>)
    BY <1>7, <1>8, HarmlessEnding
  <1>10. acct'.owner = acct.owner /\ quitting' = quitting
    BY <1>3
  <1>11. QED
    BY <1>1, <1>2, <1>4, <1>5, <1>8, <1>9, <1>10, StillStep

LEMMA ControlStep ==
  ASSUME Inv, ControlExpired \/ ControlBlocked
  PROVE  Inv'
  <1>1. UNCHANGED events /\ Elsewhere
    BY DEF ControlExpired, ControlBlocked, WorkerRest, Elsewhere
  <1>2. events' \in Seq(Reports) /\ KeepsReports
    BY <1>1, SameEvents DEF Inv
  <1>3. CASE ControlExpired
    BY <1>1, <1>2, <1>3, ExpireStep DEF ControlExpired
  <1>4. CASE ControlBlocked
    <2>1. acct # None /\ acct.workspace \in Workspaces
      BY <1>4, AccountParts DEF ControlBlocked, Inv
    <2>2. (~expired /\ LoseWorkspace) \/ LoseDevice(acct.workspace)
      BY <1>4 DEF ControlBlocked
    <2>3. QED
      BY <1>1, <1>2, <2>1, <2>2, LoseWorkspaceStep, LoseDeviceStep
  <1>5. QED
    BY <1>3, <1>4

LEMMA QuitStep ==
  ASSUME Inv, Quit
  PROVE  Inv'
  <1> DEFINE c == Cmd("shutdown", None)
  <1>1. PICK b \in LastBlock, bytes \in Sizes : Record(b, bytes) /\ Send(Queued(b) \o <<c>>)
    BY DEF Quit
  <1>2. Carried
    BY <1>1, LastCarries DEF Inv
  <1>3. /\ UNCHANGED <<acct, expired, revokedHere, suspended, discarding, keyring, sessions>>
        /\ quitting' = TRUE /\ UNCHANGED events /\ Elsewhere
    BY DEF Quit, WorkerRest, Elsewhere
  <1>4. Longer /\ Known' = Known /\ Wanted' = Wanted
    BY <1>3 DEF Longer, Inv, Typed, TypedWorker, Known, Wanted
  <1>5. TypedWorker'
    BY <1>3, <1>4 DEF Inv, Typed, TypedWorker
  <1>6. Cmd("rowsQueued", None) \in Commands(Known') /\ c \in Commands(Known')
    BY CmdsTyped DEF Plain
  <1>7. c.op = "shutdown"
    BY DEF Cmd
  <1> HIDE DEF c
  <1>8. Queued(b) \o <<c>> \in Seq(Commands(Known')) /\ EndsWith(Queued(b) \o <<c>>, c)
    BY <1>6, ListEnding
  <1>9. Harmless(Queued(b) \o <<c>>)
    BY <1>3, <1>7, <1>8, HarmlessEnding
  <1>10. /\ acct'.owner = acct.owner /\ quitting'
         /\ events' \in Seq(Reports) /\ KeepsReports
    BY <1>3, SameEvents DEF Inv
  <1>11. QED
    BY <1>1, <1>2, <1>3, <1>4, <1>5, <1>8, <1>9, <1>10, StillStep

(* Taking the first element of a queue keeps the others.                       *)
LEMMA TailKeeps ==
  ASSUME NEW S, NEW list \in Seq(S), list # <<>>
  PROVE  /\ Head(list) = list[1] /\ Head(list) \in S /\ Tail(list) \in Seq(S)
         /\ 1 \in DOMAIN list
         /\ \A i \in DOMAIN list :
              i = 1 \/ (i - 1 \in DOMAIN Tail(list) /\ Tail(list)[i - 1] = list[i])
         /\ \A i \in DOMAIN Tail(list) : i + 1 \in DOMAIN list /\ Tail(list)[i] = list[i + 1]
  <1>1. /\ Len(list) \in Nat \ {0} /\ DOMAIN list = 1 .. Len(list)
        /\ Head(list) \in S /\ Tail(list) \in Seq(S) /\ Len(Tail(list)) = Len(list) - 1
        /\ \A i \in 1 .. Len(Tail(list)) : Tail(list)[i] = list[i + 1]
    BY HeadTailProperties, LenProperties, EmptySeq
  <1>2. DOMAIN Tail(list) = 1 .. Len(Tail(list))
    BY <1>1, LenProperties
  <1>3. Head(list) = list[1]
    OBVIOUS
  <1>4. ASSUME NEW i \in DOMAIN list, i # 1
        PROVE  i - 1 \in DOMAIN Tail(list) /\ Tail(list)[i - 1] = list[i]
    <2>1. i - 1 \in 1 .. Len(Tail(list)) /\ (i - 1) + 1 = i
      BY <1>1, <1>4
    <2>2. Tail(list)[i - 1] = list[(i - 1) + 1]
      BY <1>1, <2>1
    <2>3. QED
      BY <1>2, <2>1, <2>2
  <1>5. \A i \in DOMAIN Tail(list) : i + 1 \in DOMAIN list /\ Tail(list)[i] = list[i + 1]
    BY <1>1, <1>2
  <1>6. 1 \in DOMAIN list
    BY <1>1
  <1>7. QED
    BY <1>1, <1>3, <1>4, <1>5, <1>6

LEMMA OnUploadStep ==
  ASSUME Inv, OnUpload
  PROVE  Inv'
  <1> DEFINE e == Head(events)
  <1>1. events # <<>> /\ events' = Tail(events) /\ Elsewhere
    BY DEF OnUpload, Elsewhere
  <1>2. events \in Seq(Reports)
    BY DEF Inv, Typed, TypedQueues
  <1>3. /\ e = events[1] /\ e \in Reports /\ events' \in Seq(Reports)
        /\ \A i \in DOMAIN events : i = 1 \/ \E j \in DOMAIN events' : events'[j] = events[i]
    BY <1>1, <1>2, TailKeeps
  <1>4. \/ Applies(e) /\ e.op = "signInExpired" /\ Expire
        \/ Applies(e) /\ e.op = "workspaceLost" /\ LoseWorkspace
        \/ Applies(e) /\ e.op = "deviceRevoked" /\ LoseDevice(e.workspace)
        \/ ~Applies(e) /\ UNCHANGED <<storeVars, workerVars, cmds>>
    BY DEF OnUpload
  <1>5. e.op # "signInExpired" => KeepsReports
    BY <1>3 DEF KeepsReports
  <1> HIDE DEF e
  <1>6. CASE Applies(e) /\ e.op = "signInExpired" /\ Expire
    BY <1>1, <1>3, <1>6, ExpireStep
  <1>7. CASE Applies(e) /\ e.op = "workspaceLost" /\ LoseWorkspace
    <2>1. acct # None /\ ~expired
      BY <1>7 DEF Applies
    <2>2. QED
      BY <1>1, <1>3, <1>7, <2>1, LoseWorkspaceStep
  <1>8. CASE Applies(e) /\ e.op = "deviceRevoked" /\ LoseDevice(e.workspace)
    <2>1. acct # None
      BY <1>8 DEF Applies
    <2>2. e.workspace \in Workspaces
      BY <1>3, <1>8 DEF Reports
    <2>3. QED
      BY <1>1, <1>3, <1>5, <1>8, <2>1, <2>2, LoseDeviceStep
  <1>9. CASE ~Applies(e) /\ UNCHANGED <<storeVars, workerVars, cmds>>
    <2>1. /\ Longer /\ TypedWorker' /\ Known' = Known /\ Wanted' = Wanted
          /\ acct' = acct /\ quitting' = quitting
      BY <1>9, SameWorker DEF Inv
    <2>2. Carried
      BY <1>9, StoreSame DEF Inv, Typed
    <2>3. cmds' \in Seq(Commands(Known'))
      BY <1>9, <2>1 DEF Inv, Typed, TypedQueues
    <2>4. EndOK'
      BY <1>1, <1>9, <2>1 DEF Inv, EndOK, Heard, Elsewhere, driveVars
    <2>5. \A a : WillUse(a)' <=> WillUse(a)
      BY <1>1, <1>9 DEF WillUse, Elsewhere, driveVars
    <2>6. AccountsAgree'
      <3>1. CASE quitting \/ WillUse(Wanted)
        BY <2>1, <2>5, <3>1 DEF AccountsAgree
      <3>2. ASSUME WillUse(None), NEW i \in DOMAIN events,
                   events[i].op = "signInExpired", events[i].owner = acct.owner
            PROVE  AccountsAgree'
        <4>1. CASE i = 1
          <5>1. acct = None \/ expired
            BY <1>3, <1>9, <3>2, <4>1 DEF Applies
          <5>2. Wanted' = None
            BY <2>1, <5>1 DEF Wanted
          <5>3. QED
            BY <2>5, <3>2, <5>2 DEF AccountsAgree
        <4>2. CASE i # 1
          <5>1. PICK j \in DOMAIN events' : events'[j] = events[i]
            BY <1>3, <4>2
          <5>2. QED
            BY <2>1, <2>5, <3>2, <5>1 DEF AccountsAgree
        <4>3. QED
          BY <4>1, <4>2
      <3>3. QED
        BY <3>1, <3>2 DEF Inv, AccountsAgree
    <2>7. QED
      BY <1>1, <1>3, <2>1, <2>2, <2>3, <2>4, <2>6, WorkerStep DEF Elsewhere
  <1>10. QED
    BY <1>4, <1>6, <1>7, <1>8, <1>9

LEMMA WorkerKeepsInv ==
  ASSUME Inv, Worker
  PROVE  Inv'
  <1>1. CASE RecordBlock \/ KeepAway \/ Suspend \/ Resume \/ SyncNow
    BY <1>1, RecordBlockStep, KeepAwayStep, SuspendStep, ResumeStep, SyncNowStep
  <1>2. CASE PurgeQueue \/ Discard \/ SignOut
    BY <1>2, PurgeQueueStep, DiscardStep, SignOutStep
  <1>3. CASE \E o \in Accounts, w \in Workspaces : SignIn(o, w)
    BY <1>3, SignInStep
  <1>4. CASE \E w \in Workspaces : Switch(w)
    BY <1>4, SwitchStep
  <1>5. CASE ControlExpired \/ ControlBlocked \/ OnUpload \/ Quit
    BY <1>5, ControlStep, OnUploadStep, QuitStep
  <1>6. QED
    BY <1>1, <1>2, <1>3, <1>4, <1>5 DEF Worker

-------------------------------------------------------------------------------
(* The uploader. *)

\* What every step of the uploader leaves alone.
UploaderOnly == UploaderRest /\ UNCHANGED <<late, serverVars>>

\* The account the uploader has once the drain it is in is over.
Base == IF mode = "signOut" THEN None ELSE cur

(* The uploader leaves the store to decay, and the worker's state alone.       *)
LEMMA UploaderLeaves ==
  ASSUME Inv, UploaderOnly, Decays(rows, rows')
  PROVE  /\ Longer /\ TypedWorker' /\ TypedStore' /\ StoreOK' /\ ServerOK'
         /\ Known' = Known /\ Wanted' = Wanted /\ acct' = acct /\ quitting' = quitting
         /\ UNCHANGED <<lastId, origin, discarded, workerVars, late, serverVars>>
  <1>1. UNCHANGED <<lastId, origin, discarded, workerVars, late, serverVars>>
    BY DEF UploaderOnly, UploaderRest
  <1>2. /\ Longer /\ TypedWorker' /\ Known' = Known /\ Wanted' = Wanted
        /\ acct' = acct /\ quitting' = quitting
    BY <1>1, SameWorker DEF Inv
  <1>3. TypedStore' /\ StoreOK'
    BY <1>1, DecayKeepsStore DEF Inv, Typed
  <1>4. ServerOK'
    BY <1>1, <1>2, ServerCarried DEF Inv
  <1>5. QED
    BY <1>1, <1>2, <1>3, <1>4

(* A step after which no row is at hand.                                       *)
LEMMA GroundStep ==
  ASSUME Inv, UploaderOnly, Decays(rows, rows'), pc' \notin Sent,
         TypedQueues', TypedDrive', DriveOK', EndOK', AccountsAgree'
  PROVE  Inv'
  <1>1. TypedWorker' /\ TypedStore' /\ StoreOK' /\ ServerOK'
    BY UploaderLeaves
  <1>2. EntryOK' /\ AnswerOK' /\ FlightOK'
    BY DEF EntryOK, AnswerOK, FlightOK, Flying, Sent
  <1>3. QED
    BY <1>1, <1>2 DEF Inv, Typed

(* What the uploader is to use stays, when neither what it heard nor what it   *)
(* has changed.                                                                *)
LEMMA AgreesSame ==
  ASSUME Inv, UNCHANGED workerVars, Heard' = Heard, Base' = Base, KeepsReports
  PROVE  AccountsAgree'
  <1>1. Wanted' = Wanted /\ acct' = acct /\ quitting' = quitting
    BY SameWorker DEF Inv
  <1>2. \A a : WillUse(a)' <=> WillUse(a)
    BY DEF WillUse, Heard, Base
  <1>3. QED
    BY <1>1, <1>2 DEF Inv, AccountsAgree, KeepsReports

(* The rows, left alone.                                                       *)
LEMMA SameRows ==
  ASSUME Inv, UNCHANGED rows
  PROVE  Decays(rows, rows')
  BY SubsetDecays DEF Inv, Typed, TypedStore, StoreOK

(* Moves of the loop that take no command and start no drain; one may begin a  *)
(* hold, and forget the scopes that were to be visited.                        *)
LEMMA IdleStep ==
  ASSUME Inv, UploaderOnly, UNCHANGED <<rows, cmds, events, cur, mode, deferred>>,
         hold' \in BOOLEAN, todo' = todo \/ todo' = <<>>,
         pc \in {"idle", "timed"}, pc' \in {"idle", "blocked", "timed", "unaware"}
  PROVE  Inv'
  <1>1. Decays(rows, rows')
    BY SameRows
  <1>2. Known' = Known /\ UNCHANGED workerVars /\ quitting' = quitting
    BY <1>1, UploaderLeaves
  <1>0. <<>> \in Seq(Scope)
    OBVIOUS
  <1>3. TypedQueues' /\ TypedDrive'
    BY <1>0, <1>2 DEF Inv, Typed, TypedQueues, TypedDrive
  <1>4. DriveOK'
    BY DEF Inv, DriveOK, Draining, Sent
  <1>5. Heard' = Heard /\ Base' = Base /\ KeepsReports
    BY DEF Heard, Base, KeepsReports
  <1>6. EndOK'
    BY <1>2, <1>5 DEF Inv, EndOK
  <1>7. AccountsAgree'
    BY <1>2, <1>5, AgreesSame
  <1>8. pc' \notin Sent
    BY DEF Sent
  <1>9. QED
    BY <1>1, <1>3, <1>4, <1>6, <1>7, <1>8, GroundStep

(* The scopes a drain visits are the account's.                                *)
LEMMA OldestFirstTyped ==
  ASSUME Inv, NEW account, NEW list \in OldestFirst(account)
  PROVE  list \in Seq(Scope) /\ \A i \in DOMAIN list : list[i].account = account
  <1> DEFINE T == {origin[b] : b \in Blocks}
             S == PendingScopes(rows, account)
  <1>1. IsFiniteSet(T)
    <2>1. origin \in Surjection(Blocks, T)
      BY DEF Surjection, Inv, Typed, TypedStore
    <2>2. IsFiniteSet(Blocks)
      BY UploadAssumption
    <2> HIDE DEF T
    <2>3. QED
      BY <2>1, <2>2, FS_Surjection
  <1>2. S \subseteq T
    <2> SUFFICES ASSUME NEW scope \in S
                 PROVE  scope \in T
      OBVIOUS
    <2>1. scope \in Scope /\ Ready(rows, scope) # {}
      BY DEF PendingScopes
    <2>2. PICK r \in rows : InScope(r, scope)
      BY <2>1 DEF Ready, Pending
    <2>3. r.cid \in Blocks /\ origin[r.cid] = ScopeOf(r.account, r.workspace)
      BY RowsAreRecorded DEF Inv, Typed, StoreOK
    <2>4. ScopeOf(r.account, r.workspace) = scope
      BY <2>1, <2>2 DEF InScope, ScopeOf, Scope
    <2>5. QED
      BY <2>3, <2>4
  <1>3. IsFiniteSet(S) /\ Cardinality(S) \in Nat
    BY <1>1, <1>2, FS_Subset, FS_CardinalityType
  <1>4. list \in [1 .. Cardinality(S) -> S]
    BY DEF OldestFirst
  <1> HIDE DEF S
  <1>5. list \in Seq(S) /\ DOMAIN list = 1 .. Cardinality(S)
    BY <1>3, <1>4
  <1>6. S \subseteq Scope /\ \A scope \in S : scope.account = account
    BY DEF S, PendingScopes
  <1>7. list \in Seq(Scope)
    BY <1>5, <1>6, SeqMonotonic
  <1>8. QED
    BY <1>4, <1>5, <1>6, <1>7

(* What is left of two queues when the first element of the first is taken.    *)
LEMMA TailConcat ==
  ASSUME NEW S, NEW a \in Seq(S), NEW b \in Seq(S), a # <<>>
  PROVE  /\ a \o b \in Seq(S) /\ Tail(a) \o b \in Seq(S)
         /\ 1 \in DOMAIN (a \o b) /\ (a \o b)[1] = a[1]
         /\ \A i \in DOMAIN (a \o b) :
              i = 1 \/ (i - 1 \in DOMAIN (Tail(a) \o b) /\ (Tail(a) \o b)[i - 1] = (a \o b)[i])
         /\ \A i \in DOMAIN (Tail(a) \o b) :
              i \in Nat /\ i + 1 \in DOMAIN (a \o b) /\ (Tail(a) \o b)[i] = (a \o b)[i + 1]
  <1> DEFINE t == Tail(a)
             u == a \o b
             v == t \o b
             n == Len(a)
             m == Len(b)
  <1>1. /\ n \in Nat \ {0} /\ t \in Seq(S) /\ Len(t) = n - 1
        /\ \A i \in 1 .. Len(t) : t[i] = a[i + 1]
    BY HeadTailProperties, LenProperties, EmptySeq
  <1>2. m \in Nat /\ Len(t) \in Nat
    BY <1>1, LenProperties
  <1>3. /\ u \in Seq(S) /\ Len(u) = n + m
        /\ \A i \in 1 .. n + m : u[i] = IF i =< n THEN a[i] ELSE b[i - n]
    BY ConcatProperties
  <1>4. /\ v \in Seq(S) /\ Len(v) = Len(t) + m
        /\ \A i \in 1 .. Len(t) + m : v[i] = IF i =< Len(t) THEN t[i] ELSE b[i - Len(t)]
    BY <1>1, ConcatProperties
  <1>5. DOMAIN u = 1 .. n + m /\ DOMAIN v = 1 .. (n - 1) + m
    BY <1>1, <1>3, <1>4, LenProperties
  <1> HIDE DEF t, u, v, n, m
  <1>6. ASSUME NEW i \in DOMAIN v
        PROVE  i \in Nat /\ i + 1 \in DOMAIN u /\ v[i] = u[i + 1]
    <2>1. i \in Nat /\ i \in 1 .. (n - 1) + m /\ i + 1 \in 1 .. n + m
      BY <1>1, <1>2, <1>5, <1>6
    <2>2. v[i] = IF i =< n - 1 THEN t[i] ELSE b[i - (n - 1)]
      BY <1>1, <1>4, <2>1
    <2>3. u[i + 1] = IF i + 1 =< n THEN a[i + 1] ELSE b[(i + 1) - n]
      BY <1>3, <2>1
    <2>4. CASE i =< n - 1
      <3>1. i \in 1 .. Len(t) /\ i + 1 =< n
        BY <1>1, <2>1, <2>4
      <3>2. QED
        BY <1>1, <1>5, <2>1, <2>2, <2>3, <2>4, <3>1
    <2>5. CASE ~(i =< n - 1)
      <3>1. ~(i + 1 =< n) /\ i - (n - 1) = (i + 1) - n
        BY <1>1, <2>1, <2>5
      <3>2. QED
        BY <1>5, <2>1, <2>2, <2>3, <2>5, <3>1
    <2>6. QED
      BY <2>4, <2>5
  <1>7. ASSUME NEW i \in DOMAIN u, i # 1
        PROVE  i - 1 \in DOMAIN v /\ v[i - 1] = u[i]
    <2>1. i - 1 \in 1 .. (n - 1) + m /\ (i - 1) + 1 = i
      BY <1>1, <1>2, <1>5, <1>7
    <2>2. QED
      BY <1>5, <1>6, <2>1
  <1>8. 1 \in DOMAIN u /\ u[1] = a[1]
    BY <1>1, <1>2, <1>3, <1>5
  <1>9. QED
    BY <1>3, <1>4, <1>6, <1>7, <1>8 DEF t, u, v

(* What is heard is less by its first command.                                 *)
LEMMA HeardShrinks ==
  ASSUME Inv, UNCHANGED cmds, deferred # <<>>, deferred' = Tail(deferred)
  PROVE  /\ 1 \in DOMAIN Heard /\ Heard[1] = deferred[1]
         /\ \A i \in DOMAIN Heard : i \in Nat
         /\ \A i \in DOMAIN Heard :
              i = 1 \/ (i - 1 \in DOMAIN Heard' /\ Heard'[i - 1] = Heard[i])
         /\ \A i \in DOMAIN Heard' :
              i \in Nat /\ i + 1 \in DOMAIN Heard /\ Heard'[i] = Heard[i + 1]
  <1> DEFINE u == deferred \o cmds
             v == Tail(deferred) \o cmds
             C == Commands(Known)
  <1>1. deferred \in Seq(C) /\ cmds \in Seq(C)
    BY DEF Inv, Typed, TypedQueues
  <1> HIDE DEF C
  <1>2. /\ u \in Seq(C)
        /\ 1 \in DOMAIN u /\ u[1] = deferred[1]
        /\ \A i \in DOMAIN u : i = 1 \/ (i - 1 \in DOMAIN v /\ v[i - 1] = u[i])
        /\ \A i \in DOMAIN v : i \in Nat /\ i + 1 \in DOMAIN u /\ v[i] = u[i + 1]
    BY <1>1, TailConcat
  <1>3. \A i \in DOMAIN u : i \in Nat
    BY <1>2, LenProperties
  <1>4. Heard = u /\ Heard' = v
    BY DEF Heard
  <1> HIDE DEF u, v
  <1>5. QED
    BY <1>2, <1>3, <1>4

(* Doing the first thing heard: when it names an account (or none), that is    *)
(* the one the uploader has then.                                              *)
LEMMA Obeys ==
  ASSUME Inv, UNCHANGED <<workerVars, cmds>>, KeepsReports,
         deferred # <<>>, deferred' = Tail(deferred),
         deferred[1].op \in Decides => Base' = Names(deferred[1]),
         deferred[1].op \notin Decides => Base' = Base
  PROVE  AccountsAgree'
  <1> DEFINE D == {i \in DOMAIN Heard : Heard[i].op \in Decides}
             E == {i \in DOMAIN Heard' : Heard'[i].op \in Decides}
  <1>1. Heard' = Tail(deferred) \o cmds
    BY DEF Heard
  <1>2. /\ 1 \in DOMAIN Heard /\ Heard[1] = deferred[1]
        /\ \A i \in DOMAIN Heard :
             i = 1 \/ (i - 1 \in DOMAIN Heard' /\ Heard'[i - 1] = Heard[i])
        /\ \A i \in DOMAIN Heard' :
             i \in Nat /\ i + 1 \in DOMAIN Heard /\ Heard'[i] = Heard[i + 1]
    BY <1>1, HeardShrinks
  <1>3. \A i \in DOMAIN Heard : i \in Nat
    BY HeardShrinks
  <1>4. \A i \in E : i + 1 \in D
    BY <1>2
  <1>5. \A a : WillUse(a) <=> (\/ D = {} /\ a = Base
                               \/ \E i \in D : (\A j \in D : j =< i) /\ a = Names(Heard[i]))
    BY DEF WillUse, Heard, Base
  <1>6. \A a : WillUse(a)' <=> (\/ E = {} /\ a = Base'
                                \/ \E i \in E : (\A j \in E : j =< i) /\ a = Names(Heard'[i]))
    BY DEF WillUse, Heard, Base
  <1>7. ASSUME NEW a, WillUse(a)
        PROVE  WillUse(a)'
    <2>1. CASE D = {} /\ a = Base
      <3>1. E = {} /\ deferred[1].op \notin Decides
        BY <1>2, <1>4, <2>1
      <3>2. QED
        BY <1>6, <2>1, <3>1
    <2>2. ASSUME NEW i \in D, \A j \in D : j =< i, a = Names(Heard[i])
          PROVE  WillUse(a)'
      <3>1. \A j \in E : j \in Nat /\ j + 1 =< i /\ i \in Nat
        BY <1>2, <1>3, <1>4, <2>2
      <3>2. CASE i = 1
        <4>1. E = {}
          BY <3>1, <3>2 DEF D
        <4>2. a = Base'
          BY <1>2, <2>2, <3>2
        <4>3. QED
          BY <1>6, <4>1, <4>2
      <3>3. CASE i # 1
        <4>1. i - 1 \in E /\ Heard'[i - 1] = Heard[i]
          BY <1>2, <3>3
        <4>2. \A j \in E : j =< i - 1
          BY <3>1
        <4>3. QED
          BY <1>6, <2>2, <4>1, <4>2
      <3>4. QED
        BY <3>2, <3>3
    <2>3. QED
      BY <1>5, <1>7, <2>1, <2>2
  <1>8. Wanted' = Wanted /\ acct' = acct /\ quitting' = quitting
    BY SameWorker DEF Inv
  <1>9. QED
    BY <1>7, <1>8 DEF Inv, AccountsAgree, KeepsReports

(* The thread is told to end no more often than before.                        *)
LEMMA EndsAsBefore ==
  ASSUME Inv, UNCHANGED <<workerVars, cmds>>, deferred # <<>>,
         deferred' = Tail(deferred) \/ deferred' = deferred,
         pc' = "exited" \/ mode' = "shutdown" => quitting
  PROVE  EndOK'
  <1>1. quitting' = quitting
    BY SameWorker DEF Inv
  <1>2. \A i \in DOMAIN Heard' : \E j \in DOMAIN Heard : Heard'[i] = Heard[j]
    <2>1. CASE deferred' = deferred
      BY <2>1 DEF Heard
    <2>2. CASE deferred' = Tail(deferred)
      BY <2>2, HeardShrinks
    <2>3. QED
      BY <2>1, <2>2
  <1>3. QED
    BY <1>1, <1>2 DEF EndOK, Inv

(* The loop starts a pass: what it has and what it heard stay.                 *)
LEMMA BeginStep ==
  ASSUME Inv, Begin
  PROVE  Inv'
  <1>1. /\ UploaderOnly /\ UNCHANGED <<rows, cmds, events, cur, hold, deferred>>
        /\ pc = "idle" /\ mode' = "pass" /\ pc' = "scope"
        /\ todo' \in OldestFirst(cur.owner) /\ cur # None
    BY DEF Begin, StartDrain, WorkWaits, UploaderOnly
  <1>2. Decays(rows, rows')
    BY <1>1, SameRows
  <1>3. Known' = Known /\ UNCHANGED workerVars /\ quitting' = quitting
    BY <1>1, <1>2, UploaderLeaves
  <1>4. todo' \in Seq(Scope) /\ \A i \in DOMAIN todo' : todo'[i].account = cur.owner
    BY <1>1, OldestFirstTyped
  <1>5. TypedQueues' /\ TypedDrive'
    BY <1>1, <1>3, <1>4 DEF Inv, Typed, TypedQueues, TypedDrive, Draining
  <1>6. DriveOK'
    BY <1>1, <1>4 DEF DriveOK, Draining, Sent
  <1>7. mode = "pass"
    BY <1>1 DEF Inv, DriveOK, Draining
  <1>8. Heard' = Heard /\ Base' = Base /\ KeepsReports
    BY <1>1, <1>7 DEF Heard, Base, KeepsReports
  <1>9. EndOK'
    BY <1>1, <1>3, <1>8 DEF Inv, EndOK
  <1>10. AccountsAgree'
    BY <1>3, <1>8, AgreesSame
  <1>11. pc' \notin Sent
    BY <1>1 DEF Sent
  <1>12. QED
    BY <1>1, <1>2, <1>5, <1>6, <1>9, <1>10, <1>11, GroundStep

(* It takes a command: what was heard is still heard, in the same order.       *)
LEMMA TakeStep ==
  ASSUME Inv, Take
  PROVE  Inv'
  <1>1. /\ UploaderOnly /\ UNCHANGED <<rows, events, cur, hold, mode, todo>>
        /\ pc \in {"blocked", "timed", "unaware"} /\ cmds # <<>>
        /\ deferred' = <<Head(cmds)>> /\ cmds' = Tail(cmds) /\ pc' = "apply"
    BY DEF Take, UploaderOnly
  <1>2. Decays(rows, rows')
    BY <1>1, SameRows
  <1>3. Known' = Known /\ UNCHANGED workerVars /\ quitting' = quitting
    BY <1>1, <1>2, UploaderLeaves
  <1>4. cmds \in Seq(Commands(Known)) /\ deferred = <<>>
    BY <1>1 DEF Inv, Typed, TypedQueues, DriveOK
  <1>5. /\ Head(cmds) = cmds[1] /\ Head(cmds) \in Commands(Known)
        /\ Tail(cmds) \in Seq(Commands(Known))
        /\ Len(cmds) = Len(Tail(cmds)) + 1
        /\ \A i \in 1 .. Len(Tail(cmds)) : cmds[i + 1] = Tail(cmds)[i]
    <2>1. Len(cmds) \in Nat /\ Len(Tail(cmds)) = Len(cmds) - 1
      BY <1>1, <1>4, HeadTailProperties, LenProperties
    <2>2. QED
      BY <1>1, <1>4, <2>1, HeadTailProperties, TailKeeps
  <1>6. <<Head(cmds)>> \o Tail(cmds) = cmds
    BY <1>4, <1>5, Prefixed
  <1>7. <<>> \o cmds = cmds
    BY <1>4, ConcatEmptySeq
  <1>8. Heard' = Heard /\ Base' = Base /\ KeepsReports
    BY <1>1, <1>4, <1>6, <1>7 DEF Heard, Base, KeepsReports
  <1>9. TypedQueues'
    BY <1>1, <1>3, <1>5 DEF Inv, Typed, TypedQueues
  <1>10. TypedDrive'
    BY <1>1, <1>3 DEF Inv, Typed, TypedDrive
  <1>11. DriveOK'
    BY <1>1 DEF Inv, DriveOK, Draining, Sent
  <1>12. EndOK'
    BY <1>1, <1>3, <1>8 DEF Inv, EndOK
  <1>13. AccountsAgree'
    BY <1>3, <1>8, AgreesSame
  <1>14. pc' \notin Sent
    BY <1>1 DEF Sent
  <1>15. QED
    BY <1>1, <1>2, <1>9, <1>10, <1>11, <1>12, <1>13, <1>14, GroundStep

(* What is at the front of the commands taken.                                 *)
LEMMA FirstDeferred ==
  ASSUME Inv, pc = "apply"
  PROVE  /\ deferred # <<>> /\ deferred \in Seq(Commands(Known)) /\ mode = "pass"
         /\ Head(deferred) = deferred[1] /\ Head(deferred) \in Commands(Known)
         /\ Tail(deferred) \in Seq(Commands(Known))
         /\ Head(deferred).op = "account" => Head(deferred).arg \in Known
         /\ Head(deferred).op = "parkScope" => Head(deferred).arg \in Workspaces
         /\ Head(deferred).op = "shutdown" => quitting
  <1>1. deferred # <<>> /\ deferred \in Seq(Commands(Known)) /\ mode = "pass"
    BY DEF Inv, Typed, TypedQueues, DriveOK, Draining
  <1>2. /\ Head(deferred) = deferred[1] /\ Head(deferred) \in Commands(Known)
        /\ Tail(deferred) \in Seq(Commands(Known))
    BY <1>1, TailKeeps
  <1>3. Head(deferred).op = "shutdown" => quitting
    <2>1. cmds \in Seq(Commands(Known))
      BY DEF Inv, Typed, TypedQueues
    <2>2. 1 \in DOMAIN Heard /\ Heard[1] = deferred[1]
      BY <1>1, <2>1, TailConcat DEF Heard
    <2>3. QED
      BY <1>2, <2>2 DEF Inv, EndOK
  <1>4. QED
    BY <1>1, <1>2, <1>3 DEF Commands, Plain

(* Parking a scope changes no account; nor does anything else done at once,    *)
(* but for the commands that name one.                                         *)
LEMMA ApplyNowStep ==
  ASSUME Inv, ApplyNow
  PROVE  Inv'
  <1> DEFINE c == Head(deferred)
  <1>1. /\ UploaderOnly /\ UNCHANGED <<cmds, events, mode, todo>>
        /\ pc = "apply" /\ deferred' = Tail(deferred) /\ pc' = AfterCommands(deferred')
    BY DEF ApplyNow, UploaderOnly
  <1>2. /\ deferred # <<>> /\ deferred \in Seq(Commands(Known)) /\ mode = "pass"
        /\ c = deferred[1] /\ c \in Commands(Known) /\ deferred' \in Seq(Commands(Known))
        /\ c.op = "account" => c.arg \in Known
        /\ c.op = "parkScope" => c.arg \in Workspaces
    BY <1>1, FirstDeferred
  <1>3. /\ hold' \in BOOLEAN
        /\ \/ c.op = "account" /\ cur' = c.arg
           \/ c.op = "noAccount" /\ cur' = None
           \/ c.op = "signOut" /\ cur = None /\ cur' = None
           \/ c.op \in {"rowsQueued", "now", "parkScope"} /\ cur' = cur
        /\ \/ UNCHANGED rows
           \/ cur # None /\ rows' = ParkScope(rows, ScopeOf(cur.owner, c.arg), 0)
    BY DEF ApplyNow, Inv, Typed, TypedDrive
  <1> HIDE DEF c
  <1>4. Decays(rows, rows')
    BY <1>3, SameRows, ParkScopeDecays DEF Inv, Typed, TypedStore, StoreOK
  <1>5. Known' = Known /\ UNCHANGED workerVars /\ quitting' = quitting
    BY <1>1, <1>4, UploaderLeaves
  <1>6. KeepsReports
    BY <1>1 DEF KeepsReports
  <1>7. c.op \in Decides => cur' = Names(c)
    BY <1>3 DEF Decides, Names
  <1>8. c.op \notin Decides => cur' = cur
    BY <1>3 DEF Decides
  <1>9. Base' = cur' /\ Base = cur
    BY <1>1, <1>2 DEF Base
  <1>10. AccountsAgree'
    BY <1>1, <1>2, <1>5, <1>6, <1>7, <1>8, <1>9, Obeys
  <1>11. pc' \in {"idle", "apply"}
    BY <1>1 DEF AfterCommands
  <1>12. EndOK'
    <2>1. pc' # "exited" /\ mode' # "shutdown"
      BY <1>1, <1>2, <1>11
    <2>2. QED
      BY <1>1, <1>2, <1>5, <2>1, EndsAsBefore
  <1>13. TypedQueues'
    BY <1>1, <1>2, <1>5 DEF Inv, Typed, TypedQueues
  <1>14. TypedDrive'
    <2>1. cur' \in Known \cup {None}
      BY <1>2, <1>3 DEF Inv, Typed, TypedDrive
    <2>2. QED
      BY <1>1, <1>3, <1>5, <1>11, <2>1 DEF Inv, Typed, TypedDrive
  <1>15. DriveOK'
    <2>1. pc' = "apply" => deferred' # <<>>
      BY <1>1 DEF AfterCommands
    <2>2. pc' = "idle" => deferred' = <<>>
      BY <1>1 DEF AfterCommands
    <2>3. QED
      BY <1>1, <1>2, <1>11, <2>1, <2>2 DEF DriveOK, Draining, Sent
  <1>16. pc' \notin Sent
    BY <1>11 DEF Sent
  <1>17. QED
    BY <1>1, <1>4, <1>10, <1>12, <1>13, <1>14, <1>15, <1>16, GroundStep

(* Signing out and quitting start a last drain.                                *)
LEMMA ApplyFinalStep ==
  ASSUME Inv, ApplyFinal
  PROVE  Inv'
  <1> DEFINE c == Head(deferred)
  <1>1. /\ UploaderOnly /\ UNCHANGED <<rows, cmds, events, cur, hold>>
        /\ pc = "apply" /\ cur # None /\ c.op \in {"signOut", "shutdown"}
        /\ deferred' = Tail(deferred) /\ mode' = c.op /\ pc' = "scope"
        /\ todo' \in OldestFirst(cur.owner)
    BY DEF ApplyFinal, UploaderOnly, StartDrain
  <1>2. /\ deferred # <<>> /\ deferred \in Seq(Commands(Known)) /\ mode = "pass"
        /\ c = deferred[1] /\ c \in Commands(Known) /\ deferred' \in Seq(Commands(Known))
        /\ c.op = "shutdown" => quitting
    BY <1>1, FirstDeferred
  <1> HIDE DEF c
  <1>3. Decays(rows, rows')
    BY <1>1, SameRows
  <1>4. Known' = Known /\ UNCHANGED workerVars /\ quitting' = quitting
    BY <1>1, <1>3, UploaderLeaves
  <1>5. KeepsReports
    BY <1>1 DEF KeepsReports
  <1>6. todo' \in Seq(Scope) /\ \A i \in DOMAIN todo' : todo'[i].account = cur.owner
    BY <1>1, OldestFirstTyped
  <1>7. c.op = "signOut" => Base' = Names(c)
    BY <1>1 DEF Base, Names
  <1>8. c.op = "shutdown" => Base' = Base
    BY <1>1, <1>2 DEF Base
  <1>9. AccountsAgree'
    BY <1>1, <1>2, <1>4, <1>5, <1>7, <1>8, Obeys DEF Decides
  <1>10. EndOK'
    <2>1. pc' = "exited" \/ mode' = "shutdown" => quitting
      BY <1>1, <1>2
    <2>2. QED
      BY <1>1, <1>2, <1>4, <2>1, EndsAsBefore
  <1>11. TypedQueues'
    BY <1>1, <1>2, <1>4 DEF Inv, Typed, TypedQueues
  <1>12. TypedDrive'
    BY <1>1, <1>4, <1>6 DEF Inv, Typed, TypedDrive, Draining
  <1>13. DriveOK'
    BY <1>1, <1>6 DEF DriveOK, Draining, Sent
  <1>14. pc' \notin Sent
    BY <1>1 DEF Sent
  <1>15. QED
    BY <1>1, <1>3, <1>9, <1>10, <1>11, <1>12, <1>13, <1>14, GroundStep

(* Without an account, quitting ends the thread.                               *)
LEMMA ApplyShutdownStep ==
  ASSUME Inv, ApplyShutdown
  PROVE  Inv'
  <1>1. /\ UploaderOnly /\ UNCHANGED <<rows, cmds, events, cur, hold, mode, todo>>
        /\ pc = "apply" /\ Head(deferred).op = "shutdown"
        /\ deferred' = <<>> /\ pc' = "exited"
    BY DEF ApplyShutdown, UploaderOnly
  <1>2. quitting /\ mode = "pass"
    BY <1>1, FirstDeferred
  <1>3. Decays(rows, rows')
    BY <1>1, SameRows
  <1>4. Known' = Known /\ quitting' = quitting
    BY <1>1, <1>3, UploaderLeaves
  <1>5. AccountsAgree' /\ EndOK'
    BY <1>2, <1>4 DEF AccountsAgree, EndOK
  <1>6. TypedQueues' /\ TypedDrive'
    BY <1>1, <1>4 DEF Inv, Typed, TypedQueues, TypedDrive
  <1>7. DriveOK' /\ pc' \notin Sent
    BY <1>1, <1>2 DEF DriveOK, Draining, Sent
  <1>8. QED
    BY <1>1, <1>3, <1>5, <1>6, <1>7, GroundStep

(* The end of a drain, whatever it leaves.                                     *)
LEMMA EndDrainStep ==
  ASSUME Inv, UploaderOnly, Decays(rows, rows'), pc \in Draining,
         NEW account \in {cur, None}, NEW wait \in BOOLEAN, EndDrain(account, wait),
         deferred' \in Seq(Commands(Known)), cmds' \in Seq(Commands(Known)),
         events' \in Seq(Reports), Heard' = Heard, AccountsAgree'
  PROVE  Inv'
  <1>1. Known' = Known /\ UNCHANGED workerVars /\ quitting' = quitting
    BY UploaderLeaves
  <1>2. /\ cur' \in {cur, None} /\ hold' \in BOOLEAN /\ mode' = "pass" /\ todo' = <<>>
        /\ pc' \in {"exited", "idle", "apply"}
        /\ pc' = "exited" => mode = "shutdown"
        /\ pc' = "apply" => deferred' # <<>>
        /\ pc' = "idle" => deferred' = <<>>
    BY DEF EndDrain, AfterCommands
  <1>3. TypedQueues'
    BY <1>1 DEF TypedQueues
  <1>4. TypedDrive'
    BY <1>1, <1>2 DEF Inv, Typed, TypedDrive
  <1>5. DriveOK' /\ pc' \notin Sent
    BY <1>2 DEF DriveOK, Draining, Sent
  <1>6. EndOK'
    BY <1>1, <1>2 DEF Inv, EndOK
  <1>7. QED
    BY <1>3, <1>4, <1>5, <1>6, GroundStep

(* The end of a drain that leaves the account as it is.                        *)
LEMMA EndDrainKeeps ==
  ASSUME Inv, UploaderOnly, Decays(rows, rows'), pc \in Draining,
         NEW wait \in BOOLEAN, EndDrain(cur, wait),
         deferred' \in Seq(Commands(Known)), cmds' \in Seq(Commands(Known)),
         UNCHANGED events, Heard' = Heard
  PROVE  Inv'
  <1>1. Base' = Base
    BY DEF EndDrain, Base
  <1>2. UNCHANGED workerVars /\ events' \in Seq(Reports) /\ KeepsReports
    BY UploaderLeaves, SameEvents DEF Inv
  <1>3. AccountsAgree'
    BY <1>1, <1>2, AgreesSame
  <1>4. QED
    BY <1>2, <1>3, EndDrainStep

\* What a step within a drain leaves alone: all but the rows, the row at hand, and
\* that it may report.
Within ==
  /\ UploaderOnly /\ UNCHANGED <<cmds, deferred, cur, hold, mode>>
  /\ events' \in Seq(Reports) /\ KeepsReports

(* A step within a drain: what is heard, and what the uploader is to use, stay.*)
LEMMA WithinSame ==
  ASSUME Inv, Within, Decays(rows, rows')
  PROVE  /\ UploaderOnly /\ UNCHANGED <<workerVars, cur>> /\ TypedQueues' /\ AccountsAgree'
         /\ TypedStore' /\ TypedWorker' /\ StoreOK' /\ ServerOK'
         /\ quitting' = quitting /\ Known' = Known
         /\ pc' # "exited" => EndOK'
  <1>1. /\ UploaderOnly /\ UNCHANGED <<cmds, deferred, cur, hold, mode>>
        /\ events' \in Seq(Reports) /\ KeepsReports
    BY DEF Within
  <1>2. /\ Known' = Known /\ UNCHANGED workerVars /\ quitting' = quitting
        /\ TypedStore' /\ TypedWorker' /\ StoreOK' /\ ServerOK'
    BY <1>1, UploaderLeaves
  <1>3. Heard' = Heard /\ Base' = Base
    BY <1>1 DEF Heard, Base
  <1>4. AccountsAgree'
    BY <1>1, <1>2, <1>3, AgreesSame
  <1>5. TypedQueues'
    BY <1>1, <1>2 DEF Inv, Typed, TypedQueues
  <1>6. pc' # "exited" => EndOK'
    BY <1>1, <1>2, <1>3 DEF Inv, EndOK
  <1>7. QED
    BY <1>1, <1>2, <1>4, <1>5, <1>6

(* On to the next row or the next scope.                                       *)
LEMMA ScopeStep ==
  ASSUME Inv, Within, Decays(rows, rows'), pc \in Draining, NextRow \/ (todo # <<>> /\ NextScope)
  PROVE  Inv'
  <1>1. /\ UploaderOnly /\ UNCHANGED <<workerVars, cur>> /\ TypedQueues' /\ AccountsAgree'
        /\ Known' = Known /\ UNCHANGED <<hold, mode>>
        /\ pc' # "exited" => EndOK'
    BY WithinSame DEF Within
  <1>2. pc' = "scope" /\ (todo' = todo \/ (todo # <<>> /\ todo' = Tail(todo)))
    BY DEF NextRow, NextScope
  <1>3. todo \in Seq(Scope) /\ cur # None /\ \A i \in DOMAIN todo : todo[i].account = cur.owner
    BY DEF Inv, Typed, TypedDrive, DriveOK
  <1>4. todo' \in Seq(Scope) /\ \A i \in DOMAIN todo' : todo'[i].account = cur.owner
    <2>1. CASE todo' = todo
      BY <1>3, <2>1
    <2>2. CASE todo # <<>> /\ todo' = Tail(todo)
      <3>1. /\ Tail(todo) \in Seq(Scope)
            /\ \A i \in DOMAIN Tail(todo) : i + 1 \in DOMAIN todo /\ Tail(todo)[i] = todo[i + 1]
        BY <1>3, <2>2, TailKeeps
      <3>2. QED
        BY <1>3, <2>2, <3>1
    <2>3. QED
      BY <1>2, <2>1, <2>2
  <1>5. TypedDrive'
    BY <1>1, <1>2, <1>4 DEF Inv, Typed, TypedDrive, Draining
  <1>6. DriveOK' /\ pc' \notin Sent /\ pc' # "exited"
    BY <1>1, <1>2, <1>3, <1>4 DEF DriveOK, Draining, Sent
  <1>7. QED
    BY <1>1, <1>5, <1>6, GroundStep

(* Between two rows.                                                           *)
LEMMA PollStep ==
  ASSUME Inv, Poll
  PROVE  Inv'
  <1>1. /\ UploaderOnly /\ UNCHANGED <<rows, events>> /\ pc = "scope" /\ todo # <<>>
        /\ deferred' = IF mode = "pass" THEN deferred \o cmds ELSE deferred
        /\ cmds' = IF mode = "pass" THEN <<>> ELSE cmds
    BY DEF Poll, UploaderOnly
  <1>2. Decays(rows, rows')
    BY <1>1, SameRows
  <1>3. Known' = Known /\ UNCHANGED workerVars /\ quitting' = quitting
    BY <1>1, <1>2, UploaderLeaves
  <1>4. deferred \in Seq(Commands(Known)) /\ cmds \in Seq(Commands(Known))
    BY DEF Inv, Typed, TypedQueues
  <1>5. /\ deferred' \in Seq(Commands(Known)) /\ cmds' \in Seq(Commands(Known))
        /\ Heard' = Heard
    <2>1. deferred \o cmds \in Seq(Commands(Known))
      BY <1>4, ConcatProperties
    <2>2. (deferred \o cmds) \o <<>> = deferred \o cmds
      BY <2>1, ConcatEmptySeq
    <2>3. QED
      BY <1>1, <1>4, <2>1, <2>2 DEF Heard
  <1>6. CASE EndDrain(cur, hold)
    <2>1. pc \in Draining /\ hold \in BOOLEAN
      BY <1>1 DEF Inv, Typed, TypedDrive, Draining
    <2>2. QED
      BY <1>1, <1>2, <1>5, <1>6, <2>1, EndDrainKeeps
  <1>7. CASE pc' = "peek" /\ UNCHANGED <<cur, hold, mode, todo, entry, answer>>
    <2>1. TypedQueues'
      BY <1>1, <1>3, <1>5 DEF Inv, Typed, TypedQueues
    <2>2. TypedDrive'
      BY <1>3, <1>7 DEF Inv, Typed, TypedDrive, Draining
    <2>3. DriveOK' /\ pc' \notin Sent
      BY <1>1, <1>7 DEF Inv, DriveOK, Draining, Sent
    <2>4. Base' = Base /\ KeepsReports
      BY <1>1, <1>7 DEF Base, KeepsReports
    <2>5. AccountsAgree'
      BY <1>3, <1>5, <2>4, AgreesSame
    <2>6. EndOK'
      BY <1>3, <1>5, <1>7 DEF Inv, EndOK
    <2>7. QED
      BY <1>1, <1>2, <2>1, <2>2, <2>3, <2>5, <2>6, GroundStep
  <1>8. QED
    BY <1>6, <1>7 DEF Poll

(* The last scope is done.                                                     *)
LEMMA DrainedStep ==
  ASSUME Inv, Drained
  PROVE  Inv'
  <1>1. /\ UploaderOnly /\ UNCHANGED <<rows, cmds, events, deferred>> /\ pc = "scope"
        /\ EndDrain(cur, hold)
    BY DEF Drained, UploaderOnly
  <1>2. Decays(rows, rows')
    BY <1>1, SameRows
  <1>3. pc \in Draining /\ hold \in BOOLEAN
    BY <1>1 DEF Inv, Typed, TypedDrive, Draining
  <1>4. /\ deferred' \in Seq(Commands(Known)) /\ cmds' \in Seq(Commands(Known))
        /\ Heard' = Heard
    BY <1>1 DEF Inv, Typed, TypedQueues, Heard
  <1>5. QED
    BY <1>1, <1>2, <1>3, <1>4, EndDrainKeeps

(* A step within a drain with a row at hand before and after.                  *)
LEMMA SentStep ==
  ASSUME Inv, Within, Decays(rows, rows'), pc \in Sent \cup {"peek"}, pc' \in Sent,
         UNCHANGED todo, EntryOK', AnswerOK', FlightOK'
  PROVE  Inv'
  <1>1. /\ UNCHANGED <<workerVars, cur, hold, mode>> /\ TypedQueues' /\ AccountsAgree'
        /\ TypedStore' /\ TypedWorker' /\ StoreOK' /\ ServerOK' /\ Known' = Known
        /\ pc' # "exited" => EndOK'
    BY WithinSame DEF Within
  <1>2. pc \in Draining /\ pc' \in Draining /\ pc' # "exited" /\ todo # <<>>
    BY DEF Sent, Draining, Inv, DriveOK
  <1>3. TypedDrive'
    BY <1>1, <1>2 DEF Inv, Typed, TypedDrive
  <1>4. DriveOK'
    BY <1>1, <1>2 DEF Inv, DriveOK, Draining
  <1>5. QED
    BY <1>1, <1>2, <1>3, <1>4 DEF Inv, Typed

(* The oldest ready row is taken up.                                           *)
LEMMA PeekStep ==
  ASSUME Inv, Peek
  PROVE  Inv'
  <1>1. /\ UploaderOnly /\ UNCHANGED <<rows, cmds, events, deferred>> /\ pc = "peek"
        /\ UNCHANGED <<cur, hold, mode>>
    BY DEF Peek, UploaderOnly, NextScope
  <1>2. Decays(rows, rows')
    BY <1>1, SameRows
  <1>3. Within
    BY <1>1, SameEvents DEF Inv, Within
  <1>4. todo # <<>> /\ pc \in Draining
    BY <1>1 DEF Inv, DriveOK, Draining
  <1>5. CASE Ready(rows, ScopeHere) = {} /\ NextScope
    BY <1>2, <1>3, <1>4, <1>5, ScopeStep
  <1>6. CASE /\ Ready(rows, ScopeHere) # {}
             /\ entry' = Sending(HeadRow(rows, ScopeHere)) /\ pc' = "load"
             /\ UNCHANGED <<cur, hold, mode, todo, answer>>
    <2> DEFINE h == HeadRow(rows, ScopeHere)
    <2>1. /\ h \in Ready(rows, ScopeHere) /\ \A q \in Ready(rows, ScopeHere) : h.id =< q.id
      BY <1>6, HeadIsOldest DEF Inv, Typed, TypedStore
    <2> HIDE DEF h
    <2>2. h \in rows /\ h.state = "pending" /\ InScope(h, ScopeHere)
      BY <2>1 DEF Ready, Pending
    <2>3. /\ entry' = [id |-> h.id, cid |-> h.cid, key |-> h.key, shots |-> h.shots,
                       bytes |-> 0, stripped |-> FALSE]
          /\ entry'.id = h.id /\ entry'.cid = h.cid
      BY <1>6 DEF Sending, h
    <2>4. ScopeHere' = ScopeHere /\ lastId' = lastId /\ origin' = origin
      BY <1>1, <1>6 DEF ScopeHere, UploaderOnly, UploaderRest
    <2>5. ScopeHere \in Scope
      BY <1>4 DEF ScopeHere, Inv, Typed, TypedDrive
    <2>6. /\ h.id \in 1 .. lastId /\ h.cid \in Blocks /\ h.id \in Nat
          /\ origin[h.cid] = ScopeOf(h.account, h.workspace)
      BY <2>2, RowsAreRecorded DEF Inv, Typed, StoreOK
    <2>7. ScopeOf(h.account, h.workspace) = ScopeHere
      BY <2>2, <2>5 DEF InScope, ScopeOf, Scope
    <2>8. \A r \in rows : r.id = h.id <=> r.cid = h.cid
      BY <2>2 DEF Inv, StoreOK, UniqueIds, UniqueBlocks
    <2>9. EntryOK'
      <3>1. entry' = [id |-> entry'.id, cid |-> entry'.cid, key |-> entry'.key,
                      shots |-> entry'.shots, bytes |-> entry'.bytes,
                      stripped |-> entry'.stripped]
        BY <2>3
      <3>2. QED
        BY <1>1, <2>3, <2>4, <2>6, <2>7, <2>8, <3>1 DEF EntryOK
    <2>10. FlightOK'
      <3>1. \A r \in rows : r.id = h.id => r.state = "pending"
        BY <2>2 DEF Inv, StoreOK, UniqueIds
      <3>2. \A r \in Ready(rows, ScopeHere) : r.id \in Nat
        BY DEF Ready, Pending, Inv, Typed, TypedStore, Row
      <3>3. \A r \in Ready(rows, ScopeHere) : r.id >= h.id
        BY <2>1, <2>6, <3>2
      <3>4. QED
        BY <1>1, <2>3, <2>4, <3>1, <3>3 DEF FlightOK
    <2>11. AnswerOK'
      BY <1>6 DEF AnswerOK
    <2>12. pc' \in Sent
      BY <1>6 DEF Sent
    <2>13. QED
      BY <1>1, <1>2, <1>3, <1>6, <2>9, <2>10, <2>11, <2>12, SentStep
  <1>7. QED
    BY <1>5, <1>6 DEF Peek

(* The row at hand stays what it was while only what is carried along changes. *)
LEMMA EntryHeld ==
  ASSUME Inv, pc \in Sent, Decays(rows, rows'), UNCHANGED <<lastId, origin, discarded, todo>>,
         entry'.id = entry.id, entry'.cid = entry.cid,
         entry' = [id |-> entry'.id, cid |-> entry'.cid, key |-> entry'.key,
                   shots |-> entry'.shots, bytes |-> entry'.bytes,
                   stripped |-> entry'.stripped]
  PROVE  EntryOK'
  <1>1. TypedStore'
    BY DecayKeepsStore DEF Inv, Typed
  <1>2. lastId' >= lastId
    BY DEF Inv, Typed, TypedStore
  <1>3. /\ entry.id \in 1 .. lastId' /\ entry.cid \in Blocks
        /\ origin'[entry.cid] = ScopeHere
        /\ \A q \in rows' : q.id = entry.id <=> q.cid = entry.cid
    BY <1>1, <1>2, EntryCarried DEF Decays
  <1>4. ScopeHere' = ScopeHere
    BY DEF ScopeHere
  <1>5. QED
    BY <1>3, <1>4 DEF EntryOK

(* Its captures are loaded and its signature looked at.                        *)
LEMMA LoadStep ==
  ASSUME Inv, Load
  PROVE  Inv'
  <1>1. /\ UploaderOnly /\ UNCHANGED <<rows, cmds, events, deferred, cur, hold, mode, todo>>
        /\ pc = "load" /\ pc' \in {"wait", "settle"} /\ answer' \in {None, "tampered"}
        /\ pc' = "settle" => answer' = "tampered"
        /\ \E bytes : entry' = [entry EXCEPT !.bytes = bytes]
    BY DEF Load, UploaderOnly
  <1>2. PICK bytes : entry' = [entry EXCEPT !.bytes = bytes]
    BY <1>1
  <1>3. Decays(rows, rows') /\ UNCHANGED <<lastId, origin, discarded>>
    BY <1>1, SameRows DEF UploaderOnly, UploaderRest
  <1>4. Within
    BY <1>1, SameEvents DEF Inv, Within
  <1>5. pc \in Sent /\ pc' \in Sent /\ Flying
    BY <1>1 DEF Sent, Flying
  <1>6. entry = [id |-> entry.id, cid |-> entry.cid, key |-> entry.key,
                 shots |-> entry.shots, bytes |-> entry.bytes, stripped |-> entry.stripped]
    BY <1>5 DEF Inv, EntryOK
  <1>7. entry' = [id |-> entry.id, cid |-> entry.cid, key |-> entry.key,
                  shots |-> entry.shots, bytes |-> bytes, stripped |-> entry.stripped]
    BY <1>2, <1>6
  <1>8. EntryOK'
    <2>1. /\ entry'.id = entry.id /\ entry'.cid = entry.cid
          /\ entry' = [id |-> entry'.id, cid |-> entry'.cid, key |-> entry'.key,
                       shots |-> entry'.shots, bytes |-> entry'.bytes,
                       stripped |-> entry'.stripped]
      BY <1>7
    <2>2. QED
      BY <1>1, <1>3, <1>5, <2>1, EntryHeld
  <1>9. FlightOK'
    <2>1. ScopeHere' = ScopeHere /\ entry'.id = entry.id
      BY <1>1, <1>7 DEF ScopeHere
    <2>2. QED
      BY <1>1, <1>5, <2>1 DEF Inv, FlightOK
  <1>10. AnswerOK'
    BY <1>1 DEF AnswerOK
  <1>11. QED
    BY <1>1, <1>3, <1>4, <1>5, <1>8, <1>9, <1>10, SentStep

-------------------------------------------------------------------------------
(* The network and the server. *)

\* What no step of the network or the server touches.
Remote == UNCHANGED <<storeVars, workerVars, cmds, events, cur, hold, mode, todo, deferred,
                      entry>>

(* The server stores what a sound request names, or does nothing.              *)
LEMMA ArrivalOK ==
  ASSUME Inv, NEW q, Sound(q), UNCHANGED <<storeVars, workerVars, erased, access, revoked>>,
         stored \subseteq stored', stored' \subseteq stored \cup {HeldAs(q)},
         late' \subseteq late \cup {q}
  PROVE  ServerOK'
  <1>1. UNCHANGED <<origin, sessions>>
    BY DEF storeVars, workerVars
  <1>2. HeldAs(q) \in Holding /\ origin[HeldAs(q).cid] = ScopeOf(HeldAs(q).account, HeldAs(q).workspace)
    BY DEF Sound, HeldAs, Holding, ScopeAt, Inv, Typed, TypedWorker
  <1>3. \A p \in late' : Sound(p)
    BY DEF Inv, ServerOK
  <1>4. \A p \in late' : Sound(p)'
    BY <1>1, <1>3 DEF Sound, ScopeAt
  <1>5. QED
    BY <1>1, <1>2, <1>4 DEF Inv, ServerOK

(* An answer, or none, brings the uploader on; anything else leaves it where it*)
(* is.                                                                         *)
LEMMA RemoteStep ==
  ASSUME Inv, Remote, ServerOK', stored \cup erased \subseteq stored' \cup erased',
         \/ UNCHANGED <<pc, answer>>
         \/ /\ pc = "wait" /\ pc' = "settle" /\ answer' \in Answers \cup {"network"}
            /\ answer' = "ok" => HeldAs(Request) \in stored' \cup erased'
  PROVE  Inv'
  <1>1. UNCHANGED <<storeVars, workerVars, cmds, events, cur, hold, mode, todo, deferred, entry>>
    BY DEF Remote
  <1>2. UNCHANGED <<rows, lastId, origin, discarded, sessions>>
    BY <1>1 DEF storeVars, workerVars
  <1>3. /\ Longer /\ TypedWorker' /\ Known' = Known /\ UNCHANGED workerVars
        /\ quitting' = quitting
    BY <1>1, SameWorker DEF Inv
  <1>4. Carried
    BY <1>1, StoreSame DEF Inv, Typed
  <1>5. TypedQueues'
    BY <1>1, <1>3 DEF Inv, Typed, TypedQueues
  <1>6. Heard' = Heard /\ Base' = Base /\ KeepsReports
    BY <1>1 DEF Heard, Base, KeepsReports
  <1>7. AccountsAgree'
    BY <1>1, <1>6, AgreesSame
  <1>8. CASE UNCHANGED <<pc, answer>>
    <2>1. DriveOK' /\ EntryOK' /\ AnswerOK' /\ FlightOK'
      BY <1>1, <1>3, <1>4, <1>8, DriveCarried DEF driveVars
    <2>2. TypedDrive'
      BY <1>1, <1>3, <1>8 DEF Inv, Typed, TypedDrive
    <2>3. EndOK'
      BY <1>1, <1>3, <1>6, <1>8 DEF Inv, EndOK
    <2>4. QED
      BY <1>3, <1>4, <1>5, <1>7, <2>1, <2>2, <2>3 DEF Inv, Typed, Carried
  <1>9. CASE /\ pc = "wait" /\ pc' = "settle" /\ answer' \in Answers \cup {"network"}
             /\ answer' = "ok" => HeldAs(Request) \in stored' \cup erased'
    <2>1. TypedDrive'
      BY <1>1, <1>3, <1>9 DEF Inv, Typed, TypedDrive, Draining
    <2>2. DriveOK'
      BY <1>1, <1>9 DEF Inv, DriveOK, Draining, Sent
    <2>3. ScopeHere' = ScopeHere /\ Request' = Request
      BY <1>1 DEF ScopeHere, Request
    <2>4. EntryOK'
      BY <1>1, <1>2, <1>9, <2>3 DEF Inv, EntryOK, Sent
    <2>5. AnswerOK'
      <3>1. HeldAs(Request)' = HeldAs(Request)
        BY <1>2, <2>3 DEF HeldAs
      <3>2. QED
        BY <1>9, <3>1 DEF AnswerOK
    <2>6. FlightOK'
      BY <1>1, <1>2, <1>9, <2>3 DEF Inv, FlightOK, Flying
    <2>7. EndOK'
      BY <1>1, <1>3, <1>6, <1>9 DEF Inv, EndOK
    <2>8. QED
      BY <1>3, <1>4, <1>5, <1>7, <2>1, <2>2, <2>4, <2>5, <2>6, <2>7 DEF Inv, Typed, Carried
  <1>10. QED
    BY <1>8, <1>9

(* What the server stores of a request.                                        *)
LEMMA KeptStored ==
  ASSUME NEW q, NEW stores \in BOOLEAN, Kept(q, stores)
  PROVE  /\ stored \subseteq stored' /\ stored' \subseteq stored \cup {HeldAs(q)}
         /\ stores => HeldAs(q) \in stored'
  BY DEF Kept

LEMMA ServerAnswerStep ==
  ASSUME Inv, ServerAnswer
  PROVE  Inv'
  <1>1. /\ Remote /\ pc = "wait" /\ pc' = "settle" /\ UNCHANGED <<late, erased, access, revoked>>
        /\ UNCHANGED <<storeVars, workerVars>>
    BY DEF ServerAnswer, Remote
  <1>2. PICK a \in Answers, stores \in BOOLEAN :
          MayAnswer(Request, a, stores) /\ Kept(Request, stores) /\ answer' = a
    BY DEF ServerAnswer
  <1>3. Sound(Request)
    BY <1>1, RequestSound DEF Inv, Sent
  <1>4. /\ stored \subseteq stored' /\ stored' \subseteq stored \cup {HeldAs(Request)}
        /\ stores => HeldAs(Request) \in stored'
    BY <1>2, KeptStored
  <1>5. ServerOK'
    BY <1>1, <1>3, <1>4, ArrivalOK
  <1>6. answer' = "ok" => HeldAs(Request) \in stored' \cup erased'
    BY <1>2, <1>4 DEF MayAnswer
  <1>7. QED
    BY <1>1, <1>2, <1>4, <1>5, <1>6, RemoteStep

LEMMA NoAnswerStep ==
  ASSUME Inv, NoAnswer
  PROVE  Inv'
  <1>1. /\ Remote /\ pc = "wait" /\ pc' = "settle" /\ UNCHANGED <<erased, access, revoked>>
        /\ UNCHANGED <<storeVars, workerVars>> /\ answer' = "network"
    BY DEF NoAnswer, Remote
  <1>2. Sound(Request)
    BY <1>1, RequestSound DEF Inv, Sent
  <1>3. /\ stored \subseteq stored' /\ stored' \subseteq stored \cup {HeldAs(Request)}
        /\ late' \subseteq late \cup {Request}
    <2>1. CASE UNCHANGED <<stored, late>>
      BY <2>1
    <2>2. CASE Kept(Request, TRUE) /\ UNCHANGED late
      BY <2>2, KeptStored
    <2>3. CASE late' = late \cup {Request} /\ UNCHANGED stored
      BY <2>3
    <2>4. QED
      BY <2>1, <2>2, <2>3 DEF NoAnswer
  <1>4. ServerOK'
    BY <1>1, <1>2, <1>3, ArrivalOK
  <1>5. QED
    BY <1>1, <1>3, <1>4, RemoteStep

LEMMA LateArrivalStep ==
  ASSUME Inv, LateArrival
  PROVE  Inv'
  <1>1. /\ Remote /\ UNCHANGED <<pc, answer, erased, access, revoked>>
        /\ UNCHANGED <<storeVars, workerVars>>
    BY DEF LateArrival, Remote, driveVars
  <1>2. PICK q \in late : /\ late' = late \ {q}
                          /\ \E a \in Answers, stores \in BOOLEAN :
                               MayAnswer(q, a, stores) /\ Kept(q, stores)
    BY DEF LateArrival
  <1>3. stored \subseteq stored' /\ stored' \subseteq stored \cup {HeldAs(q)}
    BY <1>2, KeptStored
  <1>4. Sound(q)
    BY DEF Inv, ServerOK
  <1>5. ServerOK'
    BY <1>1, <1>2, <1>3, <1>4, ArrivalOK
  <1>6. QED
    BY <1>1, <1>3, <1>5, RemoteStep

LEMMA WorldStep ==
  ASSUME Inv, World
  PROVE  Inv'
  <1>1. /\ Remote /\ UNCHANGED <<pc, answer, late>>
        /\ UNCHANGED <<storeVars, workerVars>>
    BY DEF World, Remote, driveVars
  <1>2. /\ stored' \cup erased' = stored \cup erased
        /\ access' \subseteq Scope /\ revoked' \subseteq Scope
    <2>1. Troubled \subseteq Scope /\ access \subseteq Scope /\ revoked \subseteq Scope
      BY UploadAssumption DEF Inv, ServerOK
    <2>2. QED
      BY <2>1 DEF World
  <1>3. ServerOK'
    <2>1. UNCHANGED <<origin, sessions>>
      BY <1>1 DEF storeVars, workerVars
    <2>2. \A q \in late : Sound(q)'
      BY <2>1 DEF Inv, ServerOK, Sound, ScopeAt
    <2>3. QED
      BY <1>1, <1>2, <2>1, <2>2 DEF Inv, ServerOK
  <1>4. QED
    BY <1>1, <1>2, <1>3, RemoteStep

(* Waiting ends.                                                               *)
LEMMA HoldElapsesStep ==
  ASSUME Inv, HoldElapses
  PROVE  Inv'
  <1>1. /\ UNCHANGED <<storeVars, workerVars, cmds, events, cur, driveVars, deferred, late,
                       serverVars>>
        /\ hold' = FALSE
    BY DEF HoldElapses
  <1>2. UNCHANGED <<pc, mode, todo, stored, erased>>
    BY <1>1 DEF driveVars, serverVars
  <1>3. /\ Longer /\ TypedWorker' /\ Known' = Known /\ quitting' = quitting
    BY <1>1, SameWorker DEF Inv
  <1>4. Carried
    BY <1>1, StoreSame DEF Inv, Typed
  <1>5. DriveOK' /\ EntryOK' /\ AnswerOK' /\ FlightOK'
    BY <1>1, <1>2, <1>3, <1>4, DriveCarried
  <1>6. Heard' = Heard /\ Base' = Base /\ KeepsReports
    BY <1>1, <1>2 DEF Heard, Base, KeepsReports
  <1>7. AccountsAgree'
    BY <1>1, <1>6, AgreesSame
  <1>8. TypedQueues' /\ TypedDrive'
    BY <1>1, <1>2, <1>3 DEF Inv, Typed, TypedQueues, TypedDrive
  <1>9. EndOK'
    BY <1>2, <1>3, <1>6 DEF Inv, EndOK
  <1>10. ServerOK'
    BY <1>1, <1>3, <1>4, ServerCarried DEF Inv, Carried
  <1>11. QED
    BY <1>3, <1>4, <1>5, <1>7, <1>8, <1>9, <1>10 DEF Inv, Typed, Carried

-------------------------------------------------------------------------------
(* What the uploader does with an answer. *)

(* A report is one more event.                                                 *)
LEMMA EventAdded ==
  ASSUME Typed, NEW e \in Reports, events' = Append(events, e)
  PROVE  /\ events' \in Seq(Reports) /\ KeepsReports
         /\ \E j \in DOMAIN events' : events'[j] = e
  <1>1. events \in Seq(Reports)
    BY DEF Typed, TypedQueues
  <1>2. /\ Append(events, e) \in Seq(Reports)
        /\ Len(Append(events, e)) = Len(events) + 1
        /\ \A i \in 1 .. Len(events) : Append(events, e)[i] = events[i]
        /\ Append(events, e)[Len(events) + 1] = e
    BY <1>1, AppendProperties
  <1>3. /\ Len(events) \in Nat /\ DOMAIN events = 1 .. Len(events)
        /\ DOMAIN Append(events, e) = 1 .. Len(events) + 1
    BY <1>1, <1>2, LenProperties
  <1>4. Len(events) + 1 \in 1 .. Len(events) + 1
        /\ \A i \in 1 .. Len(events) : i \in 1 .. Len(events) + 1
    BY <1>3
  <1>5. QED
    BY <1>2, <1>3, <1>4 DEF KeepsReports

(* Where the uploader stands when it has an answer.                            *)
LEMMA Settled ==
  ASSUME Inv, SettleRest, pc = "settle"
  PROVE  /\ UploaderOnly /\ UNCHANGED <<cmds, deferred>>
         /\ pc \in Draining /\ pc \in Sent /\ todo # <<>>
         /\ deferred' \in Seq(Commands(Known)) /\ cmds' \in Seq(Commands(Known))
         /\ Heard' = Heard /\ hold \in BOOLEAN
         /\ rows \subseteq Row /\ UniqueIds(rows)
         /\ UNCHANGED events => events' \in Seq(Reports) /\ KeepsReports
  <1>1. UploaderOnly /\ UNCHANGED <<cmds, deferred>>
    BY DEF SettleRest, UploaderOnly
  <1>2. pc \in Draining /\ pc \in Sent /\ todo # <<>>
    BY DEF Draining, Sent, Inv, DriveOK
  <1>3. deferred' \in Seq(Commands(Known)) /\ cmds' \in Seq(Commands(Known)) /\ Heard' = Heard
    BY <1>1 DEF Inv, Typed, TypedQueues, Heard
  <1>4. rows \subseteq Row /\ UniqueIds(rows) /\ hold \in BOOLEAN
    BY DEF Inv, Typed, TypedStore, TypedDrive, StoreOK
  <1>5. UNCHANGED events => events' \in Seq(Reports) /\ KeepsReports
    BY SameEvents DEF Inv
  <1>6. QED
    BY <1>1, <1>2, <1>3, <1>4, <1>5

(* The row is dealt with, and the drain goes on with the next one.             *)
LEMMA NextRowStep ==
  ASSUME Inv, SettleRest, pc = "settle", UNCHANGED events, Decays(rows, rows'), NextRow
  PROVE  Inv'
  <1>1. Within
    BY Settled DEF Within, NextRow
  <1>2. pc \in Draining
    BY Settled
  <1>3. QED
    BY <1>1, <1>2, ScopeStep

(* The pass ends here and comes back later.                                    *)
LEMMA GiveUpStep ==
  ASSUME Inv, SettleRest, pc = "settle", UNCHANGED events, Decays(rows, rows'),
         EndDrain(cur, TRUE)
  PROVE  Inv'
  <1>1. /\ UploaderOnly /\ pc \in Draining /\ deferred' \in Seq(Commands(Known))
        /\ cmds' \in Seq(Commands(Known)) /\ Heard' = Heard
    BY Settled
  <1>2. QED
    BY <1>1, EndDrainKeeps

LEMMA AcceptedStep ==
  ASSUME Inv, Accepted
  PROVE  Inv'
  <1>1. SettleRest /\ pc = "settle" /\ UNCHANGED events
    BY DEF Accepted, Settling
  <1>2. CASE rows' = AckDelivered(rows, ScopeHere, entry.cid) /\ NextRow
    <2>1. rows' \subseteq rows
      BY <1>2 DEF AckDelivered
    <2>2. Decays(rows, rows')
      BY <1>1, <2>1, Settled, SubsetDecays
    <2>3. QED
      BY <1>1, <1>2, <2>2, NextRowStep
  <1>3. CASE NotFound
    BY <1>1, <1>3, SameRows, GiveUpStep DEF NotFound
  <1>4. QED
    BY <1>2, <1>3 DEF Accepted

LEMMA LaterStep ==
  ASSUME Inv, Later
  PROVE  Inv'
  <1>1. /\ SettleRest /\ pc = "settle" /\ UNCHANGED events /\ EndDrain(cur, TRUE)
        /\ rows' = MarkAttemptFailed(rows, ScopeHere, entry.cid)
    BY DEF Later, Settling
  <1>2. Decays(rows, rows')
    BY <1>1, Settled, FailDecays
  <1>3. QED
    BY <1>1, <1>2, GiveUpStep

LEMMA ParkRowStep ==
  ASSUME Inv, SettleRest, pc = "settle", UNCHANGED events, ParkRow
  PROVE  Inv'
  <1>1. CASE rows' = Park(rows, ScopeHere, entry.cid, 0) /\ NextRow
    <2>1. Decays(rows, rows')
      BY <1>1, Settled, ParkDecays
    <2>2. QED
      BY <1>1, <2>1, NextRowStep
  <1>2. CASE NotFound
    BY <1>2, SameRows, GiveUpStep DEF NotFound
  <1>3. QED
    BY <1>1, <1>2 DEF ParkRow

LEMMA RefusedStep ==
  ASSUME Inv, Refused
  PROVE  Inv'
  BY ParkRowStep DEF Refused, Settling

LEMMA TooLargeStep ==
  ASSUME Inv, TooLarge
  PROVE  Inv'
  <1>1. SettleRest /\ pc = "settle" /\ Outcome(answer) = "strip" /\ UNCHANGED events
    BY DEF TooLarge, Settling
  <1>2. CASE ParkRow
    BY <1>1, <1>2, ParkRowStep
  <1>3. CASE /\ rows' = StripCaptures(rows, ScopeHere, entry.cid)
             /\ entry' = [entry EXCEPT !.bytes = 0, !.stripped = TRUE]
             /\ answer' = None /\ pc' = "wait"
             /\ UNCHANGED <<cur, hold, mode, todo>>
    <2>1. /\ UploaderOnly /\ UNCHANGED <<cmds, deferred>> /\ pc \in Sent
          /\ rows \subseteq Row /\ UniqueIds(rows) /\ events' \in Seq(Reports) /\ KeepsReports
      BY <1>1, Settled
    <2>2. Within
      BY <1>3, <2>1 DEF Within
    <2>3. Decays(rows, rows')
      BY <1>3, <2>1, StripDecays
    <2>4. UNCHANGED <<lastId, origin, discarded>>
      BY <2>1 DEF UploaderOnly, UploaderRest
    <2>5. entry = [id |-> entry.id, cid |-> entry.cid, key |-> entry.key,
                   shots |-> entry.shots, bytes |-> entry.bytes, stripped |-> entry.stripped]
      BY <2>1 DEF Inv, EntryOK
    <2>6. entry' = [id |-> entry.id, cid |-> entry.cid, key |-> entry.key,
                    shots |-> entry.shots, bytes |-> 0, stripped |-> TRUE]
      BY <1>3, <2>5
    <2>7. EntryOK'
      <3>1. /\ entry'.id = entry.id /\ entry'.cid = entry.cid
            /\ entry' = [id |-> entry'.id, cid |-> entry'.cid, key |-> entry'.key,
                         shots |-> entry'.shots, bytes |-> entry'.bytes,
                         stripped |-> entry'.stripped]
        BY <2>6
      <3>2. QED
        BY <1>3, <2>1, <2>3, <2>4, <3>1, EntryHeld
    <2>8. Carried
      <3>1. Thins(rows, rows')
        BY <1>3, <2>1, StripThins
      <3>2. TypedStore' /\ StoreOK'
        BY <2>3, <2>4, DecayKeepsStore DEF Inv, Typed
      <3>3. lastId' >= lastId
        BY <2>4 DEF Inv, Typed, TypedStore
      <3>4. QED
        BY <2>4, <3>1, <3>2, <3>3 DEF Carried, Thins
    <2>9. Flying
      <3>1. answer # "scopeRevoked"
        BY <1>1 DEF Outcome
      <3>2. QED
        BY <1>1, <3>1 DEF Flying
    <2>10. FlightOK'
      <3>1. ScopeHere' = ScopeHere /\ entry'.id = entry.id
        BY <1>3, <2>6 DEF ScopeHere
      <3>2. /\ \A q \in rows' : q.id = entry.id => q.state = "pending"
            /\ \A q \in Ready(rows', ScopeHere) : q.id >= entry.id
        BY <2>8, <2>9, FlightCarried
      <3>3. QED
        BY <3>1, <3>2 DEF FlightOK
    <2>11. AnswerOK' /\ pc' \in Sent
      BY <1>3 DEF AnswerOK, Sent
    <2>12. QED
      BY <1>3, <2>1, <2>2, <2>3, <2>7, <2>10, <2>11, SentStep
  <1>4. QED
    BY <1>2, <1>3 DEF TooLarge

LEMMA DeviceRevokedStep ==
  ASSUME Inv, DeviceRevoked
  PROVE  Inv'
  <1>1. SettleRest /\ pc = "settle" /\ UNCHANGED events
    BY DEF DeviceRevoked, Settling
  <1>2. CASE NotFound
    BY <1>1, <1>2, SameRows, GiveUpStep DEF NotFound
  <1>3. CASE /\ rows' = Park(rows, ScopeHere, entry.cid, 0)
             /\ answer' = "scopeRevoked"
             /\ UNCHANGED <<cur, hold, pc, mode, todo, entry>>
    <2>1. /\ UploaderOnly /\ UNCHANGED <<cmds, deferred>> /\ pc \in Sent
          /\ rows \subseteq Row /\ UniqueIds(rows) /\ events' \in Seq(Reports) /\ KeepsReports
      BY <1>1, Settled
    <2>2. Within
      BY <1>3, <2>1 DEF Within
    <2>3. Decays(rows, rows')
      BY <1>3, <2>1, ParkDecays
    <2>4. UNCHANGED <<lastId, origin, discarded>>
      BY <2>1 DEF UploaderOnly, UploaderRest
    <2>5. EntryOK'
      <3>1. /\ entry'.id = entry.id /\ entry'.cid = entry.cid
            /\ entry' = [id |-> entry'.id, cid |-> entry'.cid, key |-> entry'.key,
                         shots |-> entry'.shots, bytes |-> entry'.bytes,
                         stripped |-> entry'.stripped]
        BY <1>3, <2>1 DEF Inv, EntryOK
      <3>2. QED
        BY <1>3, <2>1, <2>3, <2>4, <3>1, EntryHeld
    <2>6. AnswerOK' /\ FlightOK'
      BY <1>1, <1>3 DEF AnswerOK, FlightOK, Flying
    <2>7. QED
      BY <1>3, <2>1, <2>2, <2>3, <2>5, <2>6, SentStep
  <1>4. QED
    BY <1>2, <1>3 DEF DeviceRevoked

(* The scope is set aside, and the worker told why.                            *)
LEMMA ScopeBlockedStep ==
  ASSUME Inv, ScopeBlocked
  PROVE  Inv'
  <1> DEFINE w == ScopeHere.workspace
  <1>1. /\ SettleRest /\ pc = "settle" /\ NextScope
        /\ rows' = ParkScope(rows, ScopeHere, 0)
        /\ \/ events' = Append(events, Event("deviceRevoked", cur.owner, w))
           \/ events' = Append(events, Event("workspaceLost", cur.owner, w))
           \/ events' = events
    BY DEF ScopeBlocked
  <1>2. /\ UploaderOnly /\ UNCHANGED <<cmds, deferred>> /\ pc \in Draining /\ todo # <<>>
        /\ rows \subseteq Row /\ UniqueIds(rows)
        /\ UNCHANGED events => events' \in Seq(Reports) /\ KeepsReports
    BY <1>1, Settled
  <1>3. /\ ScopeHere \in Scope /\ cur \in Known
    BY <1>1, RequestSound DEF Inv, Sent
  <1>4. w \in Workspaces /\ cur.owner \in Accounts
    BY <1>3 DEF Scope, Known, Account
  <1>5. /\ Event("deviceRevoked", cur.owner, w) \in Reports
        /\ Event("workspaceLost", cur.owner, w) \in Reports
    BY <1>4 DEF Event, Reports
  <1> HIDE DEF w
  <1>6. events' \in Seq(Reports) /\ KeepsReports
    BY <1>1, <1>2, <1>5, EventAdded DEF Inv
  <1>7. Within
    BY <1>1, <1>2, <1>6 DEF Within, NextScope
  <1>8. Decays(rows, rows')
    BY <1>1, <1>2, ParkScopeDecays
  <1>9. QED
    BY <1>1, <1>2, <1>7, <1>8, ScopeStep

(* A refused sign-in: the uploader lets go of the account, and the worker,     *)
(* which may still think it has it, will read why.                             *)
LEMMA SignInRefusedStep ==
  ASSUME Inv, SignInRefused
  PROVE  Inv'
  <1> DEFINE e == Event("signInExpired", cur.owner, None)
  <1>1. /\ SettleRest /\ pc = "settle" /\ UNCHANGED rows /\ EndDrain(None, hold)
        /\ events' = Append(events, e)
    BY DEF SignInRefused, Settling
  <1>2. /\ UploaderOnly /\ UNCHANGED <<cmds, deferred>> /\ pc \in Draining
        /\ deferred' \in Seq(Commands(Known)) /\ cmds' \in Seq(Commands(Known))
        /\ Heard' = Heard /\ hold \in BOOLEAN
    BY <1>1, Settled
  <1>3. Decays(rows, rows')
    BY <1>1, SameRows
  <1>4. cur \in Known /\ cur # None
    BY <1>1 DEF Inv, DriveOK, Draining, Typed, TypedDrive
  <1>5. e \in Reports /\ e.op = "signInExpired" /\ e.owner = cur.owner
    BY <1>4 DEF Event, Reports, Known, Account
  <1> HIDE DEF e
  <1>6. /\ events' \in Seq(Reports) /\ KeepsReports /\ \E j \in DOMAIN events' : events'[j] = e
    BY <1>1, <1>5, EventAdded DEF Inv
  <1>7. Wanted' = Wanted /\ acct' = acct /\ quitting' = quitting
    BY <1>3, <1>2, UploaderLeaves
  <1> DEFINE D == {i \in DOMAIN Heard : Heard[i].op \in Decides}
             Last(a) == \E i \in D : (\A j \in D : j =< i) /\ a = Names(Heard[i])
  <1>8. Base' = None
    BY <1>1 DEF EndDrain, Base
  <1>9. \A a : WillUse(a) <=> (D = {} /\ a = Base) \/ Last(a)
    BY DEF WillUse, Heard, Base
  <1>10. \A a : WillUse(a)' <=> (D = {} /\ a = None) \/ Last(a)
    BY <1>2, <1>8 DEF WillUse, Heard, Base
  <1> HIDE DEF D, Last
  <1>11. AccountsAgree'
    <2>1. CASE quitting
      BY <1>7, <2>1 DEF AccountsAgree
    <2>2. CASE Last(Wanted)
      BY <1>7, <1>10, <2>2 DEF AccountsAgree
    <2>3. CASE D = {} /\ Wanted = Base
      <3>1. WillUse(None)'
        BY <1>10, <2>3
      <3>2. CASE Base = None
        BY <1>7, <2>3, <3>1, <3>2 DEF AccountsAgree
      <3>3. CASE Base # None
        <4>1. acct = cur
          BY <2>3, <3>3 DEF Base, Wanted
        <4>2. \E j \in DOMAIN events' : /\ events'[j].op = "signInExpired"
                                        /\ events'[j].owner = acct'.owner
          BY <1>5, <1>6, <1>7, <4>1
        <4>3. QED
          BY <3>1, <4>2 DEF AccountsAgree
      <3>4. QED
        BY <3>2, <3>3
    <2>4. CASE /\ WillUse(None)
               /\ \E i \in DOMAIN events : events[i].op = "signInExpired"
                                           /\ events[i].owner = acct.owner
      <3>1. WillUse(None)'
        BY <1>9, <1>10, <2>4
      <3>2. QED
        BY <1>6, <1>7, <2>4, <3>1 DEF AccountsAgree, KeepsReports
    <2>5. QED
      BY <1>9, <2>1, <2>2, <2>3, <2>4 DEF Inv, AccountsAgree
  <1>12. QED
    BY <1>1, <1>2, <1>3, <1>6, <1>11, EndDrainStep

LEMMA StoreFailsStep ==
  ASSUME Inv, StoreFails
  PROVE  Inv'
  <1>1. /\ UploaderOnly /\ UNCHANGED <<rows, cmds, events, deferred>>
        /\ EndDrain(cur, TRUE)
        /\ pc = "idle" \/ pc \in Draining
    BY DEF StoreFails, SettleRest, UploaderOnly, Draining
  <1>2. CASE pc = "idle"
    <2>1. deferred = <<>> /\ mode = "pass"
      BY <1>2 DEF Inv, DriveOK, Draining
    <2>2. /\ UNCHANGED <<cur, mode>> /\ hold' = TRUE /\ todo' = <<>> /\ pc' = "idle"
      BY <1>1, <2>1 DEF EndDrain, AfterCommands
    <2>3. QED
      BY <1>1, <1>2, <2>2, IdleStep
  <1>3. CASE pc \in Draining
    <2>1. Decays(rows, rows')
      BY <1>1, SameRows
    <2>2. /\ deferred' \in Seq(Commands(Known)) /\ cmds' \in Seq(Commands(Known))
          /\ Heard' = Heard
      BY <1>1 DEF Inv, Typed, TypedQueues, Heard
    <2>3. QED
      BY <1>1, <1>3, <2>1, <2>2, EndDrainKeeps
  <1>4. QED
    BY <1>1, <1>2, <1>3

-------------------------------------------------------------------------------
(* The process ends and starts again. *)

LEMMA RestartStep ==
  ASSUME Inv, Restart
  PROVE  Inv'
  <1> DEFINE again == [acct EXCEPT !.key = keyring[acct.owner]]
             known == acct # None /\ keyring[acct.owner] # NoKey
  <1>1. /\ quitting' = FALSE /\ suspended' = FALSE /\ discarding' = FALSE
        /\ revokedHere' = FALSE
        /\ acct' = IF acct = None THEN None ELSE again
        /\ expired' = (acct # None /\ ~known)
        /\ cmds' = IF known THEN <<Cmd("account", again)>> ELSE <<>>
        /\ events' = <<>> /\ cur' = None /\ hold' = FALSE
        /\ pc' = "idle" /\ mode' = "pass" /\ todo' = <<>> /\ deferred' = <<>>
        /\ late' = IF pc = "wait" THEN late \cup {Request} ELSE late
    BY DEF Restart
  <1>2. /\ UNCHANGED <<rows, lastId, origin, discarded, keyring, sessions, stored, erased,
                       access, revoked>>
    BY DEF Restart, storeVars, serverVars
  <1>3. acct # None => again \in Known
    <2> SUFFICES ASSUME acct # None PROVE again \in Known
      OBVIOUS
    <2>1. acct \in Account /\ acct \in Known /\ keyring[acct.owner] \in Keys \cup {NoKey}
      BY AccountParts DEF Inv, Typed, TypedWorker
    <2>2. again \in Account /\ again.owner = acct.owner /\ again.session = acct.session
      BY <2>1 DEF Account
    <2>3. QED
      BY <2>1, <2>2 DEF Known
  <1>4. Known' = Known
    BY <1>2 DEF Known
  <1> HIDE DEF again, known
  <1>5. TypedStore' /\ StoreOK'
    BY <1>2 DEF Inv, Typed, TypedStore, StoreOK
  <1>6. TypedWorker'
    <2>1. acct' \in Known' \cup {None} /\ expired' \in BOOLEAN
      BY <1>1, <1>3, <1>4
    <2>2. QED
      BY <1>1, <1>2, <2>1 DEF Inv, Typed, TypedWorker
  <1>7. known => again \in Known
    BY <1>3 DEF known
  <1>8. TypedQueues'
    <2>1. known => Cmd("account", again) \in Commands(Known)
      BY <1>7, CmdsTyped
    <2>2. cmds' \in Seq(Commands(Known))
      BY <1>1, <2>1
    <2>3. QED
      BY <1>1, <1>4, <2>2 DEF TypedQueues
  <1>9. TypedDrive' /\ DriveOK'
    <2>1. /\ cur' = None /\ hold' = FALSE /\ pc' = "idle" /\ mode' = "pass"
          /\ todo' = <<>> /\ deferred' = <<>>
      BY <1>1
    <2>2. TypedDrive'
      <3>1. hold' \in BOOLEAN
        BY <2>1
      <3>2. todo' \in Seq(Scope)
        BY <2>1
      <3>3. QED
        BY <2>1, <3>1, <3>2 DEF TypedDrive
    <2>3. DriveOK'
      BY <2>1 DEF DriveOK, Draining, Sent
    <2>4. QED
      BY <2>2, <2>3
  <1>10. EntryOK' /\ AnswerOK' /\ FlightOK'
    BY <1>1 DEF EntryOK, AnswerOK, FlightOK, Flying, Sent
  <1>11. ServerOK'
    <2>1. pc = "wait" => Sound(Request)
      BY RequestSound DEF Inv, Sent
    <2>2. \A q \in late' : Sound(q)
      BY <1>1, <2>1 DEF Inv, ServerOK
    <2>3. \A q \in late' : Sound(q)'
      BY <1>2, <2>2 DEF Sound, ScopeAt
    <2>4. QED
      BY <1>2, <2>3 DEF Inv, ServerOK
  <1>12. Heard' = cmds'
    BY <1>1, <1>8, ConcatEmptySeq DEF Heard, TypedQueues
  <1>13. \A i \in DOMAIN Heard' : i = 1 /\ Heard'[i] = Cmd("account", again) /\ known
    BY <1>1, <1>12
  <1>14. EndOK'
    BY <1>1, <1>13 DEF EndOK, Cmd
  <1>15. WillUse(Wanted)'
    <2>1. CASE known
      <3>1. Wanted' = again
        BY <1>1, <2>1 DEF Wanted, known
      <3>2. Heard' = <<Cmd("account", again)>>
        BY <1>1, <1>12, <2>1
      <3>3. 1 \in DOMAIN Heard' /\ Heard'[1].op \in Decides /\ Names(Heard'[1]) = again
        BY <3>2 DEF Cmd, Decides, Names
      <3>4. QED
        BY <1>13, <3>1, <3>3 DEF WillUse, Heard
    <2>2. CASE ~known
      <3>1. Wanted' = None
        BY <1>1, <2>2 DEF Wanted
      <3>2. DOMAIN Heard' = {}
        BY <1>13, <2>2
      <3>3. QED
        BY <1>1, <3>1, <3>2 DEF WillUse, Heard
    <2>3. QED
      BY <2>1, <2>2
  <1>16. AccountsAgree'
    BY <1>15 DEF AccountsAgree
  <1>17. QED
    BY <1>5, <1>6, <1>8, <1>9, <1>10, <1>11, <1>14, <1>16 DEF Inv, Typed

-------------------------------------------------------------------------------
(* The invariant. *)

LEMMA InvInit ==
  ASSUME Init
  PROVE  Inv
  <1>1. PICK o \in Accounts, w \in Workspaces :
          acct = [owner |-> o, workspace |-> w, key |-> 1, session |-> 1]
    BY DEF Init
  <1>2. /\ sessions = <<o>> /\ sessions \in Seq(Accounts) /\ Len(sessions) = 1
        /\ sessions[1] = o
    BY <1>1 DEF Init
  <1>3. 1 \in Keys /\ 1 \in 1 .. MaxSession /\ MaxSession \in Nat /\ 1 =< MaxSession
    BY UploadAssumption
  <1>4. acct \in Known
    BY <1>1, <1>2, <1>3 DEF Known, Account
  <1>5. TypedStore
    BY DEF Init, TypedStore
  <1>6. {b \in Blocks : origin[b] # None} = {}
    BY DEF Init
  <1>7. StoreOK
    BY <1>6, FS_EmptySet DEF Init, StoreOK, UniqueIds, UniqueBlocks
  <1>8. TypedWorker
    BY <1>2, <1>3, <1>4 DEF Init, TypedWorker
  <1>9. cmds = <<Cmd("account", acct)>> /\ deferred = <<>> /\ events = <<>>
    BY DEF Init, Cmd
  <1>10. Cmd("account", acct) \in Commands(Known)
    BY <1>4, CmdsTyped
  <1>11. TypedQueues
    BY <1>9, <1>10 DEF TypedQueues
  <1>12. TypedDrive /\ DriveOK /\ EntryOK /\ AnswerOK /\ FlightOK
    <2>1. /\ cur = None /\ hold = FALSE /\ pc = "idle" /\ mode = "pass"
          /\ todo = <<>> /\ deferred = <<>>
      BY DEF Init
    <2>2. TypedDrive
      <3>1. hold \in BOOLEAN
        BY <2>1
      <3>2. todo \in Seq(Scope)
        BY <2>1
      <3>3. QED
        BY <2>1, <3>1, <3>2 DEF TypedDrive
    <2>3. DriveOK /\ EntryOK /\ AnswerOK /\ FlightOK
      BY <2>1 DEF DriveOK, EntryOK, AnswerOK, FlightOK, Flying, Sent, Draining
    <2>4. QED
      BY <2>2, <2>3
  <1>13. ServerOK
    BY DEF Init, ServerOK
  <1>14. Heard = <<Cmd("account", acct)>>
    BY <1>9, <1>11, ConcatEmptySeq DEF Heard, TypedQueues
  <1>15. EndOK
    BY <1>14 DEF Init, EndOK, Cmd
  <1>16. AccountsAgree
    <2>1. /\ DOMAIN Heard = {1} /\ Heard[1].op \in Decides /\ Names(Heard[1]) = acct
      BY <1>14 DEF Cmd, Decides, Names
    <2>2. Wanted = IF acct = None THEN None ELSE acct
      BY DEF Init, Wanted
    <2>3. QED
      BY <2>1, <2>2 DEF AccountsAgree, WillUse, Heard
  <1>17. QED
    BY <1>5, <1>7, <1>8, <1>11, <1>12, <1>13, <1>15, <1>16 DEF Inv, Typed

LEMMA UploaderKeepsInv ==
  ASSUME Inv, Loop \/ HoldElapses \/ Drain \/ StoreFails \/ Overlook
  PROVE  Inv'
  <1>0. hold \in BOOLEAN
    BY DEF Inv, Typed, TypedDrive
  <1>1. CASE Loop
    <2>1. CASE Block \/ Timer
      BY <1>0, <2>1, IdleStep DEF Block, Timer, UploaderOnly
    <2>2. QED
      BY <1>1, <2>1, BeginStep, TakeStep, ApplyNowStep, ApplyFinalStep, ApplyShutdownStep
         DEF Loop
  <1>2. CASE Settle
    BY <1>2, AcceptedStep, LaterStep, RefusedStep, TooLargeStep, SignInRefusedStep,
       DeviceRevokedStep, ScopeBlockedStep DEF Settle
  <1>3. CASE Drain
    BY <1>2, <1>3, PollStep, DrainedStep, PeekStep, LoadStep DEF Drain
  <1>4. CASE Overlook
    BY <1>0, <1>4, IdleStep DEF Overlook, UploaderOnly
  <1>5. QED
    BY <1>1, <1>3, <1>4, HoldElapsesStep, StoreFailsStep

LEMMA InvNext ==
  ASSUME Inv, [Next]_vars
  PROVE  Inv'
  <1>1. CASE Worker
    BY <1>1, WorkerKeepsInv
  <1>2. CASE Loop \/ HoldElapses \/ Drain \/ StoreFails \/ Overlook
    BY <1>2, UploaderKeepsInv
  <1>3. CASE Network \/ World \/ Restart
    BY <1>3, ServerAnswerStep, NoAnswerStep, LateArrivalStep, WorldStep, RestartStep
       DEF Network
  <1>4. CASE UNCHANGED vars
    <2>1. /\ UNCHANGED <<storeVars, workerVars, cmds, events, cur, hold, driveVars, deferred,
                         late, serverVars>>
      BY <1>4 DEF vars
    <2>2. /\ Remote /\ UNCHANGED <<pc, answer, late, stored, erased, access, revoked>>
      BY <2>1 DEF Remote, driveVars, serverVars
    <2>3. UNCHANGED <<origin, sessions>>
      BY <2>1 DEF storeVars, workerVars
    <2>4. ServerOK'
      BY <2>2, <2>3 DEF Inv, ServerOK, Sound, ScopeAt
    <2>5. QED
      BY <2>2, <2>4, RemoteStep
  <1>5. QED
    BY <1>1, <1>2, <1>3, <1>4 DEF Next

(* Every behaviour of worker, uploader and server keeps the invariant.         *)
THEOREM Invariant == Spec => []Inv
  <1>1. Init => Inv
    BY InvInit
  <1>2. Inv /\ [Next]_vars => Inv'
    BY InvNext
  <1>3. QED
    BY <1>1, <1>2, PTL DEF Spec

(* Rows are well formed, numbers of rows stay within the blocks there are,     *)
(* worker and uploader send each other only what the other understands, and    *)
(* the uploader is always at one of its points.                                *)
THEOREM TypeCorrect == Spec => []TypeOK
  <1>1. Inv => TypeOK
    <2> SUFFICES ASSUME Inv PROVE TypeOK
      OBVIOUS
    <2>1. rows \subseteq Row /\ origin \in [Blocks -> Scope \cup {None}] /\ discarded \subseteq Blocks
      BY DEF Inv, Typed, TypedStore
    <2>2. lastId \in 0 .. Cardinality(Blocks)
      <3> DEFINE recorded == {b \in Blocks : origin[b] # None}
      <3>1. IsFiniteSet(Blocks) /\ recorded \in SUBSET Blocks
        BY UploadAssumption
      <3>2. Cardinality(recorded) =< Cardinality(Blocks) /\ Cardinality(Blocks) \in Nat
        BY <3>1, FS_Subset, FS_CardinalityType
      <3>3. lastId = Cardinality(recorded) /\ lastId \in Nat
        BY DEF Inv, StoreOK, Typed, TypedStore
      <3>4. QED
        BY <3>2, <3>3
    <2>3. acct \in Account \cup {None} /\ cur \in Account \cup {None}
      BY DEF Inv, Typed, TypedWorker, TypedDrive, Known
    <2>4. {expired, revokedHere, suspended, discarding, quitting, hold} \subseteq BOOLEAN
      BY DEF Inv, Typed, TypedWorker, TypedDrive
    <2>5. keyring \in [Accounts -> Keys \cup {NoKey}] /\ sessions \in Seq(Accounts)
          /\ Len(sessions) =< MaxSession
      BY DEF Inv, Typed, TypedWorker
    <2>6. \A i \in DOMAIN cmds : cmds[i].op \in {"account", "noAccount", "rowsQueued", "now",
                                              "signOut", "shutdown", "parkScope"}
      <3>1. cmds \in Seq(Commands(Known))
        BY DEF Inv, Typed, TypedQueues
      <3>2. \A c \in Commands(Known) :
              c.op \in {"account", "noAccount", "rowsQueued", "now", "signOut", "shutdown",
                        "parkScope"}
        BY DEF Commands, Plain
      <3>3. \A i \in DOMAIN cmds : cmds[i] \in Commands(Known)
        BY <3>1
      <3>4. QED
        BY <3>2, <3>3
    <2>7. \A i \in DOMAIN events : events[i].op \in {"signInExpired", "workspaceLost", "deviceRevoked"}
      <3>1. events \in Seq(Reports)
        BY DEF Inv, Typed, TypedQueues
      <3>2. \A e \in Reports : e.op \in {"signInExpired", "workspaceLost", "deviceRevoked"}
        BY DEF Reports
      <3>3. \A i \in DOMAIN events : events[i] \in Reports
        BY <3>1
      <3>4. QED
        BY <3>2, <3>3
    <2>8. /\ pc \in {"idle", "blocked", "timed", "unaware", "apply", "scope", "peek", "load", "wait",
                     "settle", "exited"}
          /\ mode \in {"pass", "signOut", "shutdown"} /\ todo \in Seq(Scope)
      BY DEF Inv, Typed, TypedDrive, Draining
    <2>9. access \subseteq Scope /\ revoked \subseteq Scope
      BY DEF Inv, ServerOK
    <2>10. QED
      BY <2>1, <2>2, <2>3, <2>4, <2>5, <2>6, <2>7, <2>8, <2>9 DEF TypeOK
  <1>2. QED
    BY <1>1, Invariant, PTL

(* Whatever is in the two queues between them, the uploader ends up with the   *)
(* account the worker has, or with none while the report that the sign-in was  *)
(* refused is still to be read (agent/worker.rs, agent/uploader.rs).           *)
THEOREM UploaderFollowsWorker == Spec => []AccountsAgree
  <1>1. Inv => AccountsAgree
    BY DEF Inv
  <1>2. QED
    BY <1>1, Invariant, PTL

(* No row is parked while it is being delivered, so the answer that deletes it *)
(* by its block (ack_delivered) never deletes one that was set aside.          *)
THEOREM DeliveredRowStaysPending == Spec => []ParksOnlyBetweenRows
  <1>1. Inv => ParksOnlyBetweenRows
    BY DEF Inv, FlightOK, Flying, ParksOnlyBetweenRows, InFlight
  <1>2. QED
    BY <1>1, Invariant, PTL

(* The row being delivered is the oldest one pending in its workspace, however *)
(* the worker records, purges and sheds meanwhile.                             *)
THEOREM OldestGoesFirst == Spec => []HeadOfLine
  <1>1. Inv => HeadOfLine
    BY DEF Inv, FlightOK, Flying, HeadOfLine, InFlight
  <1>2. QED
    BY <1>1, Invariant, PTL

-------------------------------------------------------------------------------
(* Agent and server implement Delivery.tla: what each step is there. *)

\* The variables of Delivery.tla, as Promise reads them off a state.
Where    == [b \in Blocks |-> Fate(b)]
Recorded == {<<b, origin[b]>> : b \in {c \in Blocks : origin[c] # None}}
Holds    == AtServer(stored)
Held     == AtServer(erased)

\* A step of Delivery.tla, or one it does not see.
Promised == [Promise!Next]_(Promise!vars)

(* Where a block is, by the blocks queued, known and given up.                 *)
LEMMA FateOf ==
  ASSUME NEW b
  PROVE  /\ Fate(b) = (IF origin[b] = None THEN "unrecorded"
                       ELSE IF b \in QueuedIn(rows) THEN "queued"
                       ELSE IF b \in KnownIn(rows) THEN "parked"
                       ELSE IF b \in discarded THEN "discarded" ELSE "delivered")
         /\ Fate(b)' = (IF origin'[b] = None THEN "unrecorded"
                        ELSE IF b \in QueuedIn(rows') THEN "queued"
                        ELSE IF b \in KnownIn(rows') THEN "parked"
                        ELSE IF b \in discarded' THEN "discarded" ELSE "delivered")
  <1>1. \A s : /\ b \in QueuedIn(s) <=> \E r \in Pending(s) : r.cid = b
               /\ b \in KnownIn(s) <=> \E r \in s : r.cid = b
    BY DEF QueuedIn, KnownIn
  <1>2. QED
    BY <1>1 DEF Fate

(* The blocks that are queued are those with a queued row.                     *)
LEMMA QueuedFate ==
  ASSUME Inv
  PROVE  /\ QueuedIn(rows) \subseteq KnownIn(rows)
         /\ KnownIn(rows) \subseteq {b \in Blocks : origin[b] # None /\ b \notin discarded}
         /\ {b \in Blocks : Fate(b) = "queued"} = QueuedIn(rows)
         /\ {b \in Blocks : Fate(b) = "parked"} = KnownIn(rows) \ QueuedIn(rows)
  <1>1. QueuedIn(rows) \subseteq KnownIn(rows)
    BY DEF QueuedIn, KnownIn, Pending
  <1>2. \A b \in KnownIn(rows) : b \in Blocks /\ origin[b] # None /\ b \notin discarded
    BY RowsAreRecorded DEF KnownIn, Inv, Typed, StoreOK
  <1>3. QED
    BY <1>1, <1>2, FateOf

(* Nothing seen from outside.                                                  *)
LEMMA UnseenStep ==
  ASSUME UNCHANGED <<rows, origin, discarded, stored, erased>>
  PROVE  Promised
  <1>1. UNCHANGED <<Where, Recorded, Holds, Held>>
    BY DEF Where, Fate, Recorded, Holds, Held, AtServer
  <1>2. QED
    BY <1>1 DEF Promised, Promise!vars, Where, Recorded, Holds, Held

(* The uploader sets rows aside.                                               *)
LEMMA AsideStep ==
  ASSUME Inv, UNCHANGED <<origin, discarded, stored, erased>>,
         KnownIn(rows') = KnownIn(rows), QueuedIn(rows') \subseteq QueuedIn(rows)
  PROVE  Promised
  <1> DEFINE S == QueuedIn(rows) \ QueuedIn(rows')
  <1>1. S \in SUBSET {b \in Blocks : Fate(b) = "queued"}
    BY QueuedFate
  <1>2. \A b \in Blocks : Fate(b)' = IF b \in S THEN "parked" ELSE Fate(b)
    BY QueuedFate, FateOf
  <1> HIDE DEF S
  <1>3. Where' = [b \in Blocks |-> IF b \in S THEN "parked" ELSE Where[b]]
    BY <1>2 DEF Where
  <1>4. S \in SUBSET {b \in Blocks : Where[b] = "queued"}
    BY <1>1 DEF Where
  <1>5. UNCHANGED <<Recorded, Holds, Held>>
    BY DEF Recorded, Holds, Held, AtServer
  <1>6. Promise!SetAside(S) /\ S \in SUBSET Promise!At("queued")
    BY <1>3, <1>4, <1>5 DEF Promise!SetAside, Promise!Moved, Promise!At, Where, Recorded, Holds, Held
  <1>7. QED
    BY <1>6 DEF Promised, Promise!Next

(* The user purges rows.                                                       *)
LEMMA GivenUpStep ==
  ASSUME Inv, NEW target, PurgeRows(target), UNCHANGED <<stored, erased>>
  PROVE  Promised
  <1> DEFINE S == KnownIn(rows) \ KnownIn(rows')
  <1>1. /\ rows' = Purge(rows, acct.owner, target) /\ UNCHANGED origin
        /\ discarded' = discarded \cup S
    BY DEF PurgeRows, KnownIn
  <1>2. rows' \subseteq rows
    BY <1>1 DEF Purge
  <1>3. /\ KnownIn(rows') \subseteq KnownIn(rows)
        /\ QueuedIn(rows') = QueuedIn(rows) \cap KnownIn(rows')
    BY <1>2, SubsetThins, ThinsMoves DEF Inv, Typed, TypedStore, StoreOK
  <1>4. S \in SUBSET ({b \in Blocks : Fate(b) = "queued"} \cup {b \in Blocks : Fate(b) = "parked"})
    BY QueuedFate
  <1>5. \A b \in Blocks : Fate(b)' = IF b \in S THEN "discarded" ELSE Fate(b)
    BY <1>1, <1>3, QueuedFate, FateOf
  <1> HIDE DEF S
  <1>6. Where' = [b \in Blocks |-> IF b \in S THEN "discarded" ELSE Where[b]]
    BY <1>5 DEF Where
  <1>7. S \in SUBSET ({b \in Blocks : Where[b] = "queued"} \cup {b \in Blocks : Where[b] = "parked"})
    BY <1>4 DEF Where
  <1>8. UNCHANGED <<Recorded, Holds, Held>>
    BY <1>1 DEF Recorded, Holds, Held, AtServer
  <1>9. Promise!Discard(S) /\ S \in SUBSET (Promise!At("queued") \cup Promise!At("parked"))
    BY <1>6, <1>7, <1>8 DEF Promise!Discard, Promise!Moved, Promise!At, Where, Recorded, Holds, Held
  <1>10. QED
    BY <1>9 DEF Promised, Promise!Next

(* The worker records a block; what is pushed over the limits is given up.     *)
LEMMA RecordedStep ==
  ASSUME Inv, NEW b, Recordable(b), NEW bytes \in Nat, Record(b, bytes),
         UNCHANGED <<stored, erased>>
  PROVE  Promised
  <1>1. CASE b = None
    BY <1>1, UnseenStep DEF Record, storeVars
  <1>2. CASE b # None
    <2> DEFINE scope == ScopeOf(acct.owner, acct.workspace)
               over  == KnownIn(With(b, bytes)) \ KnownIn(rows')
    <2>1. b \in Unrecorded /\ acct # None /\ acct.workspace # None
      BY <1>2 DEF Recordable
    <2>2. b \in Blocks /\ origin[b] = None
      BY <2>1 DEF Unrecorded
    <2>3. /\ rows' = EnforceLimits(With(b, bytes), 0)
          /\ origin' = [origin EXCEPT ![b] = scope]
          /\ discarded' = discarded \cup over
      BY <1>2 DEF Record, With, KnownIn
    <2>4. /\ With(b, bytes) \subseteq Row /\ UniqueBlocks(With(b, bytes))
          /\ QueuedIn(With(b, bytes)) = QueuedIn(rows) \cup {b}
          /\ KnownIn(With(b, bytes)) = KnownIn(rows) \cup {b}
          /\ scope \in Scope
      BY <2>1, FreshRow DEF Inv
    <2>5. Thins(With(b, bytes), rows') /\ over \subseteq QueuedIn(rows) \cup {b}
      BY <2>3, <2>4, LimitThins
    <2>6. /\ KnownIn(rows') \subseteq KnownIn(rows) \cup {b}
          /\ QueuedIn(rows') = (QueuedIn(rows) \cup {b}) \cap KnownIn(rows')
      BY <2>4, <2>5, ThinsMoves
    <2>7. scope # None
      BY <2>4, UploadAssumption
    <2>8. \A c \in Blocks : origin'[c] = IF c = b THEN scope ELSE origin[c]
      BY <2>2, <2>3 DEF Inv, Typed, TypedStore
    <2>9. over = (KnownIn(rows) \cup {b}) \ KnownIn(rows')
      BY <2>4
    <2> HIDE DEF over, scope
    <2>10. \A c \in Blocks : Fate(c)' = IF c \in over THEN "discarded"
                                       ELSE IF c = b THEN "queued" ELSE Fate(c)
      <3> SUFFICES ASSUME NEW c \in Blocks
                   PROVE  Fate(c)' = IF c \in over THEN "discarded"
                                     ELSE IF c = b THEN "queued" ELSE Fate(c)
        OBVIOUS
      <3>1. CASE c \in over
        <4>1. origin'[c] # None /\ c \in discarded' /\ c \notin KnownIn(rows')
          BY <2>3, <2>5, <2>7, <2>8, <2>9, <3>1, QueuedFate
        <4>2. QED
          BY <2>6, <3>1, <4>1, FateOf
      <3>2. CASE c \notin over /\ c = b
        <4>1. c \in QueuedIn(rows')
          BY <2>6, <2>9, <3>2
        <4>2. QED
          BY <2>7, <2>8, <3>2, <4>1, FateOf
      <3>3. CASE c \notin over /\ c # b
        <4>1. /\ origin'[c] = origin[c] /\ (c \in discarded' <=> c \in discarded)
              /\ (c \in KnownIn(rows') <=> c \in KnownIn(rows))
              /\ (c \in QueuedIn(rows') <=> c \in QueuedIn(rows))
          BY <2>3, <2>6, <2>8, <2>9, <3>3, QueuedFate
        <4>2. QED
          BY <3>3, <4>1, FateOf
      <3>4. QED
        BY <3>1, <3>2, <3>3
    <2>11. Where' = [c \in Blocks |-> IF c \in over THEN "discarded"
                                      ELSE IF c = b THEN "queued" ELSE Where[c]]
      BY <2>10 DEF Where
    <2>12. over \in SUBSET ({c \in Blocks : Where[c] = "queued"} \cup {b}) /\ Where[b] = "unrecorded"
      BY <2>2, <2>5, QueuedFate, FateOf DEF Where
    <2>13. Recorded' = Recorded \cup {<<b, scope>>}
      BY <2>2, <2>7, <2>8 DEF Recorded
    <2>14. UNCHANGED <<Holds, Held>>
      BY DEF Holds, Held, AtServer
    <2>15. PICK place \in Scope : place = scope
      BY <2>4
    <2>16. Promise!Record(b, place)
      BY <2>11, <2>12, <2>13, <2>14, <2>15
         DEF Promise!Record, Promise!At, Where, Recorded, Holds, Held
    <2>17. QED
      BY <2>2, <2>16 DEF Promised, Promise!Next
  <1>3. QED
    BY <1>1, <1>2

(* A row leaves the queue as delivered.                                        *)
LEMMA DeliveredStep ==
  ASSUME Inv, InStore, Flying, pc = "settle", answer = "ok",
         rows' = AckDelivered(rows, ScopeHere, entry.cid),
         UNCHANGED <<origin, discarded, stored, erased>>
  PROVE  Promised
  <1> DEFINE c == entry.cid
             h == <<c, ScopeHere>>
  <1>0. pc \in Sent
    BY DEF Sent
  <1>1. /\ c \in Blocks /\ origin[c] = ScopeHere /\ ScopeHere \in Scope
        /\ Sound(Request) /\ ScopeAt(Request) = ScopeHere
    BY <1>0, RequestSound DEF Inv, EntryOK
  <1>2. origin[c] # None
    BY <1>1, UploadAssumption
  <1>3. PICK r \in rows : IsRow(r, ScopeHere, c)
    BY DEF InStore
  <1>4. r.cid = c /\ r.state = "pending"
    BY <1>0, <1>3 DEF IsRow, Inv, EntryOK, FlightOK
  <1>5. c \in QueuedIn(rows)
    BY <1>4 DEF QueuedIn, Pending
  <1>6. \A q \in rows : q.cid = c => InScope(q, ScopeHere)
    BY <1>1, RowsAreRecorded DEF Inv, Typed
  <1>7. rows' \subseteq rows /\ KnownIn(rows') = KnownIn(rows) \ {c}
    BY <1>6, AckMoves
  <1>8. QueuedIn(rows') = QueuedIn(rows) \cap KnownIn(rows')
    <2>1. rows \subseteq Row /\ UniqueBlocks(rows)
      BY DEF Inv, Typed, TypedStore, StoreOK
    <2>2. Thins(rows, rows')
      BY <1>7, <2>1, SubsetThins
    <2>3. QED
      BY <2>1, <2>2, ThinsMoves
  <1>9. h \in Holds \cup Held
    <2>1. HeldAs(Request) \in stored \cup erased
      BY DEF Inv, AnswerOK
    <2>2. /\ HeldAs(Request).cid = c
          /\ ScopeOf(HeldAs(Request).account, HeldAs(Request).workspace) = ScopeHere
      BY <1>1 DEF HeldAs, ScopeAt, Request
    <2>3. QED
      BY <2>1, <2>2 DEF Holds, Held, AtServer
  <1>10. h \in Recorded
    BY <1>1, <1>2 DEF Recorded
  <1>11. c \notin discarded
    BY <1>5, QueuedFate
  <1>12. \A b \in Blocks : Fate(b)' = IF b = c THEN "delivered" ELSE Fate(b)
    <2>1. /\ origin'[c] # None /\ c \notin KnownIn(rows') /\ c \notin QueuedIn(rows')
          /\ c \notin discarded'
      BY <1>2, <1>7, <1>8, <1>11
    <2>2. \A b \in Blocks \ {c} :
            /\ origin'[b] = origin[b] /\ (b \in discarded' <=> b \in discarded)
            /\ (b \in KnownIn(rows') <=> b \in KnownIn(rows))
            /\ (b \in QueuedIn(rows') <=> b \in QueuedIn(rows))
      BY <1>7, <1>8, QueuedFate
    <2>3. QED
      BY <2>1, <2>2, FateOf
  <1>13. Where[c] = "queued"
    BY <1>1, <1>5, QueuedFate DEF Where
  <1>14. h[1] = c
    OBVIOUS
  <1> HIDE DEF h
  <1>15. Where' = [b \in Blocks |-> IF b \in {h[1]} THEN "delivered" ELSE Where[b]]
    BY <1>12, <1>14 DEF Where
  <1>16. UNCHANGED <<Recorded, Holds, Held>>
    BY DEF Recorded, Holds, Held, AtServer
  <1>17. Promise!Deliver(h)
    BY <1>9, <1>13, <1>14, <1>15, <1>16
       DEF Promise!Deliver, Promise!Moved, Where, Recorded, Holds, Held
  <1>18. QED
    BY <1>10, <1>17 DEF Promised, Promise!Next, Recorded

(* The server stores a block under the scope it was recorded in, once.         *)
LEMMA StoredStep ==
  ASSUME Inv, NEW q, Sound(q), NEW a, NEW stores \in BOOLEAN, MayAnswer(q, a, stores),
         Kept(q, stores), UNCHANGED <<rows, origin, discarded, erased>>
  PROVE  Promised
  <1> DEFINE h == <<q.cid, ScopeAt(q)>>
  <1>1. CASE ~stores
    BY <1>1, UnseenStep DEF Kept
  <1>2. CASE stores
    <2>1. stored' = stored \cup {HeldAs(q)}
      BY <1>2 DEF Kept
    <2>2. HeldAs(q) \notin stored \cup erased
      BY <1>2 DEF MayAnswer
    <2>3. /\ HeldAs(q) \in Holding /\ HeldAs(q).cid = q.cid
          /\ ScopeOf(HeldAs(q).account, HeldAs(q).workspace) = ScopeAt(q)
      BY DEF Sound, HeldAs, Holding, ScopeAt, Inv, Typed, TypedWorker
    <2>4. \A g \in stored \cup erased :
            g.cid = HeldAs(q).cid
              /\ ScopeOf(g.account, g.workspace) = ScopeOf(HeldAs(q).account, HeldAs(q).workspace)
            => g = HeldAs(q)
      BY <2>3 DEF Inv, ServerOK, Holding, ScopeOf
    <2>5. h \notin Holds \cup Held
      BY <2>2, <2>3, <2>4 DEF Holds, Held, AtServer
    <2>6. Holds' = Holds \cup {h}
      BY <2>1, <2>3 DEF Holds, AtServer
    <2>7. h \in Recorded
      <3>1. ScopeAt(q) \in Scope
        BY DEF Sound, ScopeAt, ScopeOf, Scope, Inv, Typed, TypedWorker
      <3>2. QED
        BY <3>1, UploadAssumption DEF Recorded, Sound
    <2>8. UNCHANGED <<Where, Recorded, Held>>
      BY DEF Where, Fate, Recorded, Held, AtServer
    <2> HIDE DEF h
    <2>9. Promise!Store(h)
      BY <2>5, <2>6, <2>7, <2>8 DEF Promise!Store, Where, Recorded, Holds, Held
    <2>10. QED
      BY <2>7, <2>9 DEF Promised, Promise!Next, Recorded
  <1>3. QED
    BY <1>1, <1>2

(* An owner deletes a block the server holds.                                  *)
LEMMA ErasedStep ==
  ASSUME Inv, NEW block \in stored, stored' = stored \ {block}, erased' = erased \cup {block},
         UNCHANGED <<rows, origin, discarded>>
  PROVE  Promised
  <1> DEFINE h == <<block.cid, ScopeOf(block.account, block.workspace)>>
  <1>1. \A g \in stored :
          g.cid = block.cid
            /\ ScopeOf(g.account, g.workspace) = ScopeOf(block.account, block.workspace)
          => g = block
    BY DEF Inv, ServerOK, Holding, ScopeOf
  <1>2. h \in Holds /\ Held' = Held \cup {h}
    BY DEF Holds, Held, AtServer
  <1>3. Holds' = Holds \ {h}
    BY <1>1 DEF Holds, AtServer
  <1>4. UNCHANGED <<Where, Recorded>>
    BY DEF Where, Fate, Recorded
  <1> HIDE DEF h
  <1>5. Promise!Erase(h)
    BY <1>2, <1>3, <1>4 DEF Promise!Erase, Where, Recorded, Holds, Held
  <1>6. QED
    BY <1>2, <1>5 DEF Promised, Promise!Next, Holds

(* The worker records, purges, or leaves the store alone.                      *)
LEMMA WorkerPromised ==
  ASSUME Inv, Worker
  PROVE  Promised
  <1>1. \A b \in LastBlock, bytes \in Sizes : Recordable(b) /\ bytes \in Nat
    BY UploadAssumption DEF LastBlock, Recordable, Tracking
  <1>2. /\ UNCHANGED <<stored, erased>>
        /\ \/ UNCHANGED storeVars
           \/ \E b, bytes : Recordable(b) /\ bytes \in Nat /\ Record(b, bytes)
           \/ \E target : PurgeRows(target)
    <2>1. CASE RecordBlock
      BY <1>1, <2>1 DEF RecordBlock, WorkerRest, serverVars
    <2>2. CASE KeepAway
      BY <2>2 DEF KeepAway, Recordable, WorkerRest, serverVars
    <2>3. CASE Suspend \/ Resume \/ SyncNow
      BY <1>1, <2>3 DEF Suspend, Resume, SyncNow, WorkerRest, serverVars
    <2>4. CASE PurgeQueue \/ Discard
      BY <2>4 DEF PurgeQueue, Discard, WorkerRest, serverVars
    <2>5. CASE SignOut \/ Quit
      BY <1>1, <2>5 DEF SignOut, Quit, WorkerRest, serverVars
    <2>6. CASE \E o \in Accounts, w \in Workspaces : SignIn(o, w)
      BY <2>6 DEF SignIn, WorkerRest, serverVars
    <2>7. CASE \E w \in Workspaces : Switch(w)
      BY <1>1, <2>7 DEF Switch, WorkerRest, serverVars
    <2>8. CASE ControlExpired
      BY <1>1, <2>8 DEF ControlExpired, Expire, WorkerRest, serverVars
    <2>9. CASE ControlBlocked
      BY <1>1, <2>9 DEF ControlBlocked, LoseWorkspace, LoseDevice, WorkerRest, serverVars
    <2>10. CASE OnUpload
      BY <1>1, <2>10 DEF OnUpload, Expire, LoseWorkspace, LoseDevice, serverVars
    <2>11. QED
      BY <2>1, <2>2, <2>3, <2>4, <2>5, <2>6, <2>7, <2>8, <2>9, <2>10 DEF Worker
  <1>3. CASE UNCHANGED storeVars
    BY <1>2, <1>3, UnseenStep DEF storeVars
  <1>4. CASE \E b, bytes : Recordable(b) /\ bytes \in Nat /\ Record(b, bytes)
    BY <1>2, <1>4, RecordedStep
  <1>5. CASE \E target : PurgeRows(target)
    BY <1>2, <1>5, GivenUpStep
  <1>6. QED
    BY <1>2, <1>3, <1>4, <1>5

(* The uploader delivers, sets aside, or leaves the blocks where they are.     *)
LEMMA UploaderPromised ==
  ASSUME Inv, Loop \/ HoldElapses \/ Drain \/ StoreFails \/ Overlook
  PROVE  Promised
  <1>1. CASE HoldElapses
    BY <1>1, UnseenStep DEF HoldElapses, storeVars, serverVars
  <1>2. CASE (Loop /\ ~ApplyNow) \/ Poll \/ Drained \/ Peek \/ Load \/ StoreFails \/ Overlook
    <2>1. UNCHANGED <<rows, origin, discarded, stored, erased>>
      BY <1>2 DEF Loop, Begin, Block, Timer, Take, ApplyFinal, ApplyShutdown, Poll, Drained,
                  Peek, Load, StoreFails, Overlook, SettleRest, UploaderRest, serverVars
    <2>2. QED
      BY <2>1, UnseenStep
  <1>3. rows \subseteq Row /\ UniqueBlocks(rows)
    BY DEF Inv, Typed, TypedStore, StoreOK
  <1>4. \A scope : /\ KnownIn(ParkScope(rows, scope, 0)) = KnownIn(rows)
                   /\ QueuedIn(ParkScope(rows, scope, 0)) \subseteq QueuedIn(rows)
    BY <1>3, ParkScopeMoves
  <1>5. CASE ApplyNow
    <2>1. UNCHANGED <<origin, discarded, stored, erased>>
      BY <1>5 DEF ApplyNow, UploaderRest, serverVars
    <2>2. rows' = rows \/ \E scope : rows' = ParkScope(rows, scope, 0)
      BY <1>5 DEF ApplyNow
    <2>3. QED
      BY <1>4, <2>1, <2>2, AsideStep
  <1>6. CASE Settle
    <2>1. UNCHANGED <<origin, discarded, stored, erased>> /\ pc = "settle"
      BY <1>6 DEF Settle, Accepted, Later, Refused, TooLarge, SignInRefused, DeviceRevoked,
                  ScopeBlocked, Settling, SettleRest, UploaderRest, serverVars
    <2>2. \A r \in rows : r.cid = entry.cid => InScope(r, ScopeHere)
      <3>1. origin[entry.cid] = ScopeHere
        BY <2>1 DEF Inv, EntryOK, Sent
      <3>2. QED
        BY <3>1, RowsAreRecorded DEF Inv, Typed
    <2>3. CASE UNCHANGED rows
      BY <2>1, <2>3, UnseenStep
    <2>4. CASE rows' = Park(rows, ScopeHere, entry.cid, 0)
      BY <1>3, <2>1, <2>2, <2>4, ParkMoves, AsideStep
    <2>5. CASE rows' = ParkScope(rows, ScopeHere, 0)
      BY <1>4, <2>1, <2>5, AsideStep
    <2>6. CASE \/ rows' = MarkAttemptFailed(rows, ScopeHere, entry.cid)
               \/ rows' = StripCaptures(rows, ScopeHere, entry.cid)
      <3>1. Thins(rows, rows') /\ KnownIn(rows') = KnownIn(rows)
        BY <1>3, <2>6, FailThins, StripThins
      <3>2. QueuedIn(rows') \subseteq QueuedIn(rows)
        BY <1>3, <3>1, ThinsMoves
      <3>3. QED
        BY <2>1, <3>1, <3>2, AsideStep
    <2>7. CASE Accepted /\ InStore /\ rows' = AckDelivered(rows, ScopeHere, entry.cid)
      <3>1. answer = "ok" /\ Flying
        <4>1. Outcome(answer) = "accepted" /\ pc = "settle"
          BY <2>7 DEF Accepted, Settling
        <4>2. answer \in Answers \cup {"network", "tampered", "scopeRevoked"}
          BY <4>1 DEF Inv, AnswerOK
        <4>3. answer = "ok"
          BY <4>1, <4>2 DEF Outcome, Answers
        <4>4. QED
          BY <4>1, <4>3 DEF Flying
      <3>2. QED
        BY <2>1, <2>7, <3>1, DeliveredStep
    <2>8. QED
      <3>1. CASE Accepted
        BY <2>3, <2>7, <3>1 DEF Accepted, NotFound
      <3>2. CASE Later \/ TooLarge \/ Refused
        BY <2>3, <2>4, <2>6, <3>2 DEF Later, TooLarge, Refused, ParkRow, NotFound
      <3>3. CASE SignInRefused \/ DeviceRevoked \/ ScopeBlocked
        BY <2>3, <2>4, <2>5, <3>3 DEF SignInRefused, DeviceRevoked, ScopeBlocked, NotFound
      <3>4. QED
        BY <1>6, <3>1, <3>2, <3>3 DEF Settle
  <1>7. QED
    BY <1>1, <1>2, <1>5, <1>6 DEF Drain

(* The server stores and erases; a request it does not store changes nothing.  *)
LEMMA RemotePromised ==
  ASSUME Inv, Network \/ World \/ Restart
  PROVE  Promised
  <1>1. CASE ServerAnswer
    <2>1. pc = "wait" /\ UNCHANGED <<rows, origin, discarded, erased>>
      BY <1>1 DEF ServerAnswer, storeVars
    <2>2. PICK a \in Answers, stores \in BOOLEAN :
            MayAnswer(Request, a, stores) /\ Kept(Request, stores)
      BY <1>1 DEF ServerAnswer
    <2>3. Sound(Request)
      BY <2>1, RequestSound DEF Inv, Sent
    <2>4. QED
      BY <2>1, <2>2, <2>3, StoredStep
  <1>2. CASE NoAnswer
    <2>1. pc = "wait" /\ UNCHANGED <<rows, origin, discarded, erased>>
      BY <1>2 DEF NoAnswer, storeVars
    <2>2. Sound(Request)
      BY <2>1, RequestSound DEF Inv, Sent
    <2>3. CASE UNCHANGED stored
      BY <2>1, <2>3, UnseenStep
    <2>4. CASE \E a \in Answers : MayAnswer(Request, a, TRUE) /\ Kept(Request, TRUE)
      BY <2>1, <2>2, <2>4, StoredStep
    <2>5. QED
      BY <1>2, <2>3, <2>4 DEF NoAnswer
  <1>3. CASE LateArrival
    <2>1. UNCHANGED <<rows, origin, discarded, erased>>
      BY <1>3 DEF LateArrival, storeVars
    <2>2. PICK q \in late : \E a \in Answers, stores \in BOOLEAN :
                              MayAnswer(q, a, stores) /\ Kept(q, stores)
      BY <1>3 DEF LateArrival
    <2>3. Sound(q)
      BY DEF Inv, ServerOK
    <2>4. QED
      BY <2>1, <2>2, <2>3, StoredStep
  <1>4. CASE World
    <2>1. UNCHANGED <<rows, origin, discarded>>
      BY <1>4 DEF World, storeVars
    <2>2. CASE UNCHANGED <<stored, erased>>
      BY <2>1, <2>2, UnseenStep
    <2>3. CASE \E block \in stored : stored' = stored \ {block} /\ erased' = erased \cup {block}
      BY <2>1, <2>3, ErasedStep
    <2>4. QED
      BY <1>4, <2>2, <2>3 DEF World
  <1>5. CASE Restart
    BY <1>5, UnseenStep DEF Restart, storeVars, serverVars
  <1>6. QED
    BY <1>1, <1>2, <1>3, <1>4, <1>5 DEF Network

(* The agent and the server together implement Delivery.tla: a block leaves    *)
(* the queue as delivered only when the server has (or had) it, the server     *)
(* holds it where it was recorded, once, and nothing else makes a block        *)
(* disappear or come back.                                                     *)
THEOREM Implements == Spec => KeepsPromise
  <1>1. Init => Promise!Init
    <2> SUFFICES ASSUME Init PROVE Promise!Init
      OBVIOUS
    <2>1. \A b \in Blocks : Fate(b) = "unrecorded" /\ origin[b] = None
      BY DEF Init, Fate
    <2>2. stored = {} /\ erased = {}
      BY DEF Init
    <2>3. Where = [b \in Blocks |-> "unrecorded"] /\ Recorded = {} /\ Holds = {} /\ Held = {}
      BY <2>1, <2>2 DEF Where, Recorded, Holds, Held, AtServer
    <2>4. QED
      BY <2>3 DEF Promise!Init, Where, Recorded, Holds, Held
  <1>2. Inv /\ [Next]_vars => [Promise!Next]_(Promise!vars)
    <2> SUFFICES ASSUME Inv, [Next]_vars PROVE Promised
      BY DEF Promised
    <2>1. CASE UNCHANGED vars
      BY <2>1, UnseenStep DEF vars, storeVars, serverVars
    <2>2. QED
      BY <2>1, WorkerPromised, UploaderPromised, RemotePromised DEF Next
  <1>3. QED
    BY <1>1, <1>2, Invariant, PTL DEF Spec, KeepsPromise, Promise!Spec

-------------------------------------------------------------------------------
(* What Delivery.tla promises, of the agent and the server. *)

Delivered == INSTANCE DeliveryProofs WITH
  Scopes <- Scope, fate <- Where, origin <- Recorded, stored <- Holds, erased <- Held

(* A block that left the agent's queue as delivered is at the server, or was   *)
(* until an owner deleted it; and the server holds a block under the one       *)
(* account and workspace it was recorded in, and not again once deleted.       *)
COROLLARY NothingIsLost ==
  Spec => [](Promise!DeliveredIsHeld /\ Promise!HeldWhereRecorded)
  <1>1. Promise!Init => Delivered!Init
    BY DEF Promise!Init, Delivered!Init, Where, Recorded, Holds, Held
  <1>2. [Promise!Next]_(Promise!vars) => [Delivered!Next]_(Delivered!vars)
    BY DEF Promise!Next, Promise!vars, Promise!Record, Promise!Store, Promise!Deliver,
           Promise!SetAside, Promise!Discard, Promise!Erase, Promise!Moved, Promise!At,
           Delivered!Next, Delivered!vars, Delivered!Record, Delivered!Store,
           Delivered!Deliver, Delivered!SetAside, Delivered!Discard, Delivered!Erase,
           Delivered!Moved, Delivered!At, Where, Recorded, Holds, Held
  <1>3. Delivered!DeliveredIsHeld => Promise!DeliveredIsHeld
    BY DEF Promise!DeliveredIsHeld, Delivered!DeliveredIsHeld, Where, Holds, Held
  <1>4. Delivered!HeldWhereRecorded => Promise!HeldWhereRecorded
    BY DEF Promise!HeldWhereRecorded, Delivered!HeldWhereRecorded, Recorded, Holds, Held
  <1>5. QED
    BY <1>1, <1>2, <1>3, <1>4, Implements, Delivered!NothingLost, Delivered!OnePlace, PTL
       DEF KeepsPromise, Promise!Spec, Delivered!Spec
================================================================================
