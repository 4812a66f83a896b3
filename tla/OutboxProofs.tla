----------------------------- MODULE OutboxProofs -----------------------------
(***************************************************************************)
(* What Outbox.tla promises, for any accounts, workspaces, blocks, keys    *)
(* and limits.  OutboxStoreProofs shows that every transaction that does   *)
(* not insert maps each row to at most one row it `Becomes`; one lemma     *)
(* here turns that into the invariant and the action property.             *)
(***************************************************************************)
EXTENDS Outbox, OutboxStoreProofs

Inv == TypeOK /\ Identity

-------------------------------------------------------------------------------
(* A step that only decays rows keeps the invariant and is allowed by          *)
(* RowsOnlyDecay.                                                              *)
DecayStep == \A r \in rows, q \in rows' : q.id = r.id => Becomes(r, q)

LEMMA DecaysKeepsInv ==
  ASSUME Inv, Decays(rows, rows'), lastId' = lastId, today' \in Nat
  PROVE  Inv' /\ DecayStep
  <1>1. TypeOK'
    <2>1. \A q \in rows' : q.id \in 1 .. lastId
      BY DEF Inv, TypeOK, Decays, Becomes
    <2>2. QED
      BY <2>1 DEF Inv, TypeOK, Decays
  <1>2. Identity'
    <2> SUFFICES ASSUME NEW p \in rows', NEW q \in rows',
                        p.id = q.id \/ IsRow(p, q, q.cid)
                 PROVE  p = q
      BY DEF Identity, IsRow, InScope
    <2>1. CASE p.id = q.id
      BY <2>1 DEF Decays, UniqueIds
    <2>2. CASE IsRow(p, q, q.cid)
      <3>1. PICK r \in rows : Becomes(r, p)
        BY DEF Decays
      <3>2. PICK t \in rows : Becomes(t, q)
        BY DEF Decays
      <3>3. IsRow(r, t, t.cid)
        BY <2>2, <3>1, <3>2 DEF Becomes, SameBlock, IsRow, InScope
      <3>4. r = t
        BY <3>3 DEF Inv, Identity
      <3>5. p.id = q.id
        BY <3>1, <3>2, <3>4 DEF Becomes
      <3>6. QED
        BY <3>5 DEF Decays, UniqueIds
    <2>3. QED
      BY <2>1, <2>2
  <1>3. DecayStep
    <2> SUFFICES ASSUME NEW r \in rows, NEW q \in rows', q.id = r.id
                 PROVE  Becomes(r, q)
      BY DEF DecayStep
    <2>1. PICK t \in rows : Becomes(t, q)
      BY DEF Decays
    <2>2. t = r
      BY <2>1 DEF Becomes, Inv, Identity
    <2>3. QED
      BY <2>1, <2>2
  <1>4. QED
    BY <1>1, <1>2, <1>3 DEF Inv

(* A step that inserts a row of a fresh id and a free identity. *)
LEMMA InsertKeepsInv ==
  ASSUME Inv, NEW scope \in Scope, NEW cid \in Blocks, Free(scope, cid),
         NEW row \in Row, row.id = lastId + 1, IsRow(row, scope, cid),
         Insert(row), today' = today
  PROVE  Inv' /\ DecayStep
  <1>1. \A r \in rows : r.id # row.id /\ r.id \in 1 .. lastId'
    BY DEF Inv, TypeOK, Insert
  <1>2. row.id \in 1 .. lastId' /\ lastId' \in Nat
    BY DEF Inv, TypeOK, Insert, Row
  <1>3. TypeOK'
    BY <1>1, <1>2 DEF Inv, TypeOK, Insert
  <1>4. \A r \in rows : ~IsRow(r, row, row.cid) /\ ~IsRow(row, r, r.cid)
    BY DEF Free, IsRow, InScope
  <1>5. Identity'
    BY <1>1, <1>4 DEF Inv, Identity, Insert, IsRow, InScope
  <1>6. \A r \in rows : Becomes(r, r)
    BY FormsInRow DEF Inv, TypeOK
  <1>7. DecayStep
    BY <1>1, <1>6 DEF DecayStep, Insert, Inv, Identity
  <1>8. QED
    BY <1>3, <1>5, <1>7 DEF Inv

LEMMA InvNext ==
  ASSUME Inv, [Next]_vars
  PROVE  Inv' /\ DecayStep
  <1>0. /\ rows \subseteq Row /\ UniqueIds(rows)
        /\ lastId \in Nat /\ today \in Nat
    BY DEF Inv, TypeOK, Identity, UniqueIds
  <1>1. ASSUME NEW scope \in Scope, NEW cid \in Blocks, RowCall(scope, cid)
        PROVE  Inv' /\ DecayStep
    <2>1. ASSUME NEW key \in Keys, NEW started \in 0 .. today, NEW bytes \in Sizes,
                 EnqueueActivity(scope, cid, key, started, bytes)
          PROVE  Inv' /\ DecayStep
      <3> DEFINE row == NewRow(lastId + 1, scope, cid, key, started, today, bytes > 0, bytes)
      <3>1. /\ started \in Nat /\ bytes \in Nat /\ (bytes > 0) \in BOOLEAN
            /\ lastId + 1 \in Nat /\ key \in Keys \cup {NoKey}
        BY <1>0, BoundAssumption
      <3>2. row \in Row /\ row.id = lastId + 1 /\ IsRow(row, scope, cid)
        BY <1>0, <3>1 DEF NewRow, Row, Scope, IsRow, InScope
      <3>3. Free(scope, cid) /\ Insert(row) /\ today' = today
        BY <2>1 DEF EnqueueActivity
      <3> HIDE DEF row
      <3>4. QED
        BY <3>2, <3>3, InsertKeepsInv
    <2>2. ASSUME NEW started \in 0 .. today, EnqueueV1(scope, cid, started)
          PROVE  Inv' /\ DecayStep
      <3> DEFINE row == NewRow(lastId + 1, scope, cid, NoKey, started, today, FALSE, 0)
      <3>0. /\ started \in Nat /\ lastId + 1 \in Nat /\ 0 \in Nat /\ FALSE \in BOOLEAN
            /\ NoKey \in Keys \cup {NoKey}
        BY <1>0
      <3>1. row \in Row /\ row.id = lastId + 1 /\ IsRow(row, scope, cid)
        BY <1>0, <3>0 DEF NewRow, Row, Scope, IsRow, InScope
      <3>2. Free(scope, cid) /\ Insert(row) /\ today' = today
        BY <2>2 DEF EnqueueV1
      <3> HIDE DEF row
      <3>3. QED
        BY <3>1, <3>2, InsertKeepsInv
    <2>3. CASE Ack(scope, cid)
      <3>1. rows' \subseteq rows
        BY <2>3 DEF Ack, AckDelivered
      <3>2. QED
        BY <1>0, <2>3, <3>1, SubsetDecays, DecaysKeepsInv DEF Ack
    <2>4. CASE Fail(scope, cid)
      BY <1>0, <2>4, FailDecays, DecaysKeepsInv DEF Fail
    <2>5. CASE ParkOne(scope, cid)
      BY <1>0, <2>5, ParkDecays, DecaysKeepsInv DEF ParkOne
    <2>6. CASE Strip(scope, cid)
      BY <1>0, <2>6, StripDecays, DecaysKeepsInv DEF Strip
    <2>7. QED
      BY <1>1, <2>1, <2>2, <2>3, <2>4, <2>5, <2>6 DEF RowCall
  <1>2. ASSUME NEW scope \in Scope, ParkAll(scope)
        PROVE  Inv' /\ DecayStep
    BY <1>0, <1>2, ParkScopeDecays, DecaysKeepsInv DEF ParkAll
  <1>3. CASE Limit
    BY <1>0, <1>3, LimitDecays, DecaysKeepsInv DEF Limit
  <1>4. CASE ExpireParked
    <2>1. rows' \subseteq rows
      BY <1>4 DEF ExpireParked, PurgeParkedOld
    <2>2. QED
      BY <1>0, <1>4, <2>1, SubsetDecays, DecaysKeepsInv DEF ExpireParked
  <1>5. ASSUME NEW current, ExpireForeign(current)
        PROVE  Inv' /\ DecayStep
    <2>1. rows' \subseteq rows
      BY <1>5 DEF ExpireForeign, PurgeForeignOld
    <2>2. QED
      BY <1>0, <1>5, <2>1, SubsetDecays, DecaysKeepsInv DEF ExpireForeign
  <1>6. ASSUME NEW a \in Accounts, NEW target, PurgeAccount(a, target)
        PROVE  Inv' /\ DecayStep
    <2>1. rows' \subseteq rows
      BY <1>6 DEF PurgeAccount, Purge
    <2>2. QED
      BY <1>0, <1>6, <2>1, SubsetDecays, DecaysKeepsInv DEF PurgeAccount
  <1>7. CASE NextDay
    <2>1. rows' \subseteq rows /\ lastId' = lastId /\ today' \in Nat
      BY <1>0, <1>7 DEF NextDay
    <2>2. QED
      BY <1>0, <2>1, SubsetDecays, DecaysKeepsInv
  <1>8. CASE UNCHANGED vars
    <2>1. rows' \subseteq rows /\ lastId' = lastId /\ today' \in Nat
      BY <1>0, <1>8 DEF vars
    <2>2. QED
      BY <1>0, <2>1, SubsetDecays, DecaysKeepsInv
  <1>9. QED
    BY <1>1, <1>2, <1>3, <1>4, <1>5, <1>6, <1>7, <1>8 DEF Next

LEMMA InvInit == Init => Inv
  BY BoundAssumption DEF Init, Inv, TypeOK, Identity

-------------------------------------------------------------------------------
(* Every row the store ever holds is well formed and was numbered by its       *)
(* counter, whatever the callers do.                                           *)
THEOREM TypeCorrect == Spec => []TypeOK
  <1>1. Inv /\ [Next]_vars => Inv'
    BY InvNext
  <1>2. Inv => TypeOK
    BY DEF Inv
  <1>3. QED
    BY InvInit, <1>1, <1>2, PTL DEF Spec

(* No operation, in whatever order they are called, makes two rows of one      *)
(* block of a scope or gives two rows one id.                                  *)
THEOREM IdentityKept == Spec => []Identity
  <1>1. Inv /\ [Next]_vars => Inv'
    BY InvNext
  <1>2. Inv => Identity
    BY DEF Inv
  <1>3. QED
    BY InvInit, <1>1, <1>2, PTL DEF Spec

(* A parked row is never pending again, shed bytes never come back, a row to   *)
(* be uploaded keeps what its signature binds.                                 *)
THEOREM OnlyDecay == Spec => RowsOnlyDecay
  <1>1. Inv /\ [Next]_vars => Inv'
    BY InvNext
  <1>2. Inv /\ [Next]_vars =>
          [\A r \in rows, q \in rows' : q.id = r.id => Becomes(r, q)]_vars
    BY InvNext DEF DecayStep
  <1>3. QED
    BY InvInit, <1>1, <1>2, PTL DEF Spec, RowsOnlyDecay

-------------------------------------------------------------------------------
(* What enforce_limits does to a queue with the invariant.                     *)
LEMMA LimitStep ==
  ASSUME Inv, Limit
  PROVE  /\ WithinLimits(rows', today)
         /\ \A d \in Dropped :
              /\ d.state = "pending"
              /\ TooOld(d, today) \/
                   /\ Cardinality(Pending(rows')) = MaxPendingRows
                   /\ \A k \in Pending(rows') : k.id > d.id
  <1>1. /\ rows \subseteq Row /\ UniqueIds(rows) /\ lastId \in Nat /\ today \in Nat
        /\ \A r \in rows : r.id \in 1 .. lastId
    BY DEF Inv, TypeOK, Identity, UniqueIds
  <1>2. IsFiniteSet(rows) /\ \A r \in rows : r.id =< lastId
    BY <1>1, NumberedAreFinite
  <1>3. rows' = EnforceLimits(rows, today)
    BY DEF Limit
  <1>4. QED
    BY <1>1, <1>2, <1>3, LimitsLeave DEF WithinLimits, WithImages, Dropped

(* However many rows there are and however they came there, enforce_limits     *)
(* leaves no more pending rows, and no more with images, than QueueLimits      *)
(* allows, and none that is too old.                                           *)
THEOREM LimitsAreKept == Spec => LimitsHold
  <1>1. Inv /\ [Next]_vars => Inv'
    BY InvNext
  <1>2. Inv /\ [Next]_vars => [Limit => WithinLimits(rows', today)]_vars
    BY LimitStep
  <1>3. QED
    BY InvInit, <1>1, <1>2, PTL DEF Spec, LimitsHold

(* A row the server would still take is dropped only when as many as may wait  *)
(* stay, all of them newer; a parked row is never dropped.                     *)
THEOREM NewestStay == Spec => DropsOldestFirst
  <1>1. Inv /\ [Next]_vars => Inv'
    BY InvNext
  <1>2. Inv /\ [Next]_vars =>
          [Limit => \A d \in Dropped :
             /\ d.state = "pending"
             /\ TooOld(d, today) \/
                  /\ Cardinality(Pending(rows')) = MaxPendingRows
                  /\ \A k \in Pending(rows') : k.id > d.id]_vars
    BY LimitStep
  <1>3. QED
    BY InvInit, <1>1, <1>2, PTL DEF Spec, DropsOldestFirst
================================================================================
