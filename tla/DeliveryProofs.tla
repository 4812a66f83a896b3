---------------------------- MODULE DeliveryProofs ----------------------------
(***************************************************************************)
(* What the promise of Delivery.tla amounts to, for any number of blocks,  *)
(* accounts and workspaces.  Upload.tla implements Delivery, so its        *)
(* behaviours have these properties too.                                   *)
(***************************************************************************)
EXTENDS Delivery, TLAPS

\* A block was recorded under a scope when it has left "unrecorded".
RecordedSomewhere ==
  \A b \in Blocks : fate[b] = "unrecorded" => \A h \in origin : h[1] # b

IInv == TypeOK /\ RecordedSomewhere /\ DeliveredIsHeld /\ HeldWhereRecorded

LEMMA InitIInv == Init => IInv
  BY DEF Init, IInv, TypeOK, Fates, RecordedSomewhere, DeliveredIsHeld, HeldWhereRecorded

LEMMA RecordKeeps ==
  ASSUME IInv, NEW b \in Blocks, NEW scope \in Scopes, Record(b, scope)
  PROVE  IInv'
<1> USE DEF IInv
<1>1. PICK over \in SUBSET (At("queued") \cup {b}) :
        fate' = [c \in Blocks |-> IF c \in over THEN "discarded"
                                  ELSE IF c = b THEN "queued" ELSE fate[c]]
  BY DEF Record
<1>2. /\ fate[b] = "unrecorded"
      /\ origin' = origin \cup {<<b, scope>>}
      /\ stored' = stored /\ erased' = erased
  BY DEF Record
<1>3. TypeOK'
  BY <1>1, <1>2 DEF TypeOK, Fates, Held
<1>4. RecordedSomewhere'
  BY <1>1, <1>2 DEF TypeOK, RecordedSomewhere, At
<1>5. DeliveredIsHeld'
  BY <1>1, <1>2 DEF TypeOK, DeliveredIsHeld
<1>6. \A h \in origin : h[1] # b
  BY <1>2 DEF RecordedSomewhere
<1>7. HeldWhereRecorded'
  BY <1>2, <1>6 DEF TypeOK, HeldWhereRecorded
<1> QED BY <1>3, <1>4, <1>5, <1>7

LEMMA StoreKeeps ==
  ASSUME IInv, NEW h \in origin, Store(h)
  PROVE  IInv'
<1> USE DEF IInv, Store
<1>1. TypeOK' BY DEF TypeOK, Held
<1>2. RecordedSomewhere' BY DEF RecordedSomewhere
<1>3. DeliveredIsHeld' BY DEF DeliveredIsHeld
<1>4. HeldWhereRecorded' BY DEF HeldWhereRecorded
<1> QED BY <1>1, <1>2, <1>3, <1>4

LEMMA EraseKeeps ==
  ASSUME IInv, NEW h \in stored, Erase(h)
  PROVE  IInv'
<1> USE DEF IInv, Erase
<1>1. TypeOK' BY DEF TypeOK
<1>2. RecordedSomewhere' BY DEF RecordedSomewhere
<1>3. DeliveredIsHeld' BY DEF DeliveredIsHeld
<1>4. HeldWhereRecorded' BY DEF HeldWhereRecorded
<1> QED BY <1>1, <1>2, <1>3, <1>4

\* Delivering, setting aside and discarding only move blocks on.
LEMMA MoveKeeps ==
  ASSUME IInv, NEW S \in SUBSET Blocks, NEW to \in {"parked", "discarded", "delivered"},
         \A b \in S : fate[b] # "unrecorded",
         to = "delivered" => \A b \in S : \E h \in stored \cup erased : h[1] = b,
         fate' = Moved(S, to), UNCHANGED <<origin, stored, erased>>
  PROVE  IInv'
<1> USE DEF IInv, Moved
<1>1. TypeOK' BY DEF TypeOK, Fates
<1>2. RecordedSomewhere' BY DEF TypeOK, RecordedSomewhere
<1>3. DeliveredIsHeld' BY DEF TypeOK, DeliveredIsHeld
<1>4. HeldWhereRecorded' BY DEF HeldWhereRecorded
<1> QED BY <1>1, <1>2, <1>3, <1>4

LEMMA NextKeeps == IInv /\ [Next]_vars => IInv'
<1> SUFFICES ASSUME IInv, [Next]_vars PROVE IInv'
  OBVIOUS
<1>1. CASE \E b \in Blocks, scope \in Scopes : Record(b, scope)
  BY <1>1, RecordKeeps
<1>2. CASE \E h \in origin : Store(h)
  BY <1>2, StoreKeeps
<1>3. CASE \E h \in stored : Erase(h)
  BY <1>3, EraseKeeps
<1>4. ASSUME NEW h \in origin, Deliver(h) PROVE IInv'
  <2>1. /\ h[1] \in Blocks
        /\ \A c \in {h[1]} : fate[c] # "unrecorded"
        /\ \A c \in {h[1]} : \E g \in stored \cup erased : g[1] = c
        /\ fate' = Moved({h[1]}, "delivered") /\ UNCHANGED <<origin, stored, erased>>
    BY <1>4 DEF Deliver, IInv, TypeOK, Held
  <2>2. {h[1]} \in SUBSET Blocks
    BY <2>1
  <2> QED BY <2>1, <2>2, MoveKeeps
<1>5. ASSUME NEW S \in SUBSET At("queued"), SetAside(S) PROVE IInv'
  <2>1. S \in SUBSET Blocks /\ (\A b \in S : fate[b] # "unrecorded")
    BY <1>5 DEF At
  <2> QED BY <1>5, <2>1, MoveKeeps DEF SetAside
<1>6. ASSUME NEW S \in SUBSET (At("queued") \cup At("parked")), Discard(S) PROVE IInv'
  <2>1. S \in SUBSET Blocks /\ (\A b \in S : fate[b] # "unrecorded")
    BY <1>6 DEF At
  <2> QED BY <1>6, <2>1, MoveKeeps DEF Discard
<1>7. CASE UNCHANGED vars
  BY <1>7 DEF vars, IInv, TypeOK, RecordedSomewhere, DeliveredIsHeld, HeldWhereRecorded
<1> QED BY <1>1, <1>2, <1>3, <1>4, <1>5, <1>6, <1>7 DEF Next

(* No block is lost in silence: one that left the queue as delivered is held. *)
THEOREM NothingLost == Spec => []DeliveredIsHeld
<1>1. IInv => DeliveredIsHeld BY DEF IInv
<1> QED BY InitIInv, NextKeeps, <1>1, PTL DEF Spec

(* A block is at the server under one scope, the one it was recorded in, and  *)
(* a deleted one stays deleted.                                               *)
THEOREM OnePlace == Spec => []HeldWhereRecorded
<1>1. IInv => HeldWhereRecorded BY DEF IInv
<1> QED BY InitIInv, NextKeeps, <1>1, PTL DEF Spec
================================================================================
