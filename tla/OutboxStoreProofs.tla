---------------------------- MODULE OutboxStoreProofs ----------------------------
(***************************************************************************)
(* What the transactions of OutboxStore do to a set of rows, for any rows, *)
(* scopes, ages and limits: which rows are left, what became of each, and  *)
(* which blocks are queued or set aside afterwards.  OutboxProofs and      *)
(* UploadProofs build on these lemmas.                                     *)
(***************************************************************************)
EXTENDS OutboxStore, FiniteSetTheorems, WellFoundedInduction, TLAPS

UniqueIds(s) == \A r, q \in s : r.id = q.id => r = q

\* s2 holds nothing but what rows of s may become, one row for each.
Decays(s, s2) ==
  /\ s2 \subseteq Row
  /\ UniqueIds(s2)
  /\ \A q \in s2 : \E r \in s : Becomes(r, q)

-------------------------------------------------------------------------------
(* Removing rows, whichever they are. *)
LEMMA SubsetDecays ==
  ASSUME NEW s, NEW s2, s \subseteq Row, UniqueIds(s), s2 \subseteq s
  PROVE  Decays(s, s2)
  BY DEF Decays, UniqueIds, Becomes, SameBlock, Row

LEMMA FormsInRow ==
  ASSUME NEW r \in Row, NEW day \in Nat
  PROVE  /\ ParkedForm(r, day) \in Row /\ ShedForm(r) \in Row /\ FailedForm(r) \in Row
         /\ Becomes(r, r)
         /\ r.state = "pending" =>
              /\ Becomes(r, ParkedForm(r, day))
              /\ Becomes(r, ShedForm(r))
              /\ Becomes(r, FailedForm(r))
  BY DEF ParkedForm, ShedForm, FailedForm, Row, Becomes, SameBlock

LEMMA FormsKeepId ==
  ASSUME NEW r \in Row, NEW day \in Nat
  PROVE  /\ ParkedForm(r, day).id = r.id /\ ShedForm(r).id = r.id
         /\ FailedForm(r).id = r.id
  BY DEF ParkedForm, ShedForm, FailedForm, Row

LEMMA ParkDecays ==
  ASSUME NEW s, s \subseteq Row, UniqueIds(s), NEW scope, NEW cid, NEW day \in Nat
  PROVE  Decays(s, Park(s, scope, cid, day))
  BY FormsInRow, FormsKeepId DEF Decays, UniqueIds, Park

LEMMA ParkScopeDecays ==
  ASSUME NEW s, s \subseteq Row, UniqueIds(s), NEW scope, NEW day \in Nat
  PROVE  Decays(s, ParkScope(s, scope, day))
  BY FormsInRow, FormsKeepId DEF Decays, UniqueIds, ParkScope

LEMMA FailDecays ==
  ASSUME NEW s, s \subseteq Row, UniqueIds(s), NEW scope, NEW cid
  PROVE  Decays(s, MarkAttemptFailed(s, scope, cid))
  BY FormsInRow, FormsKeepId DEF Decays, UniqueIds, MarkAttemptFailed

LEMMA StripDecays ==
  ASSUME NEW s, s \subseteq Row, UniqueIds(s), NEW scope, NEW cid
  PROVE  Decays(s, StripCaptures(s, scope, cid))
  BY FormsInRow, FormsKeepId DEF Decays, UniqueIds, StripCaptures

(* Shedding and then dropping: two steps of one transaction. *)
LEMMA ShedDecays ==
  ASSUME NEW s, s \subseteq Row, UniqueIds(s), NEW day \in Nat
  PROVE  Decays(s, ShedBeyondLimits(s, day))
  <1>1. \A r \in s : Sheds(s, r, day) => r.state = "pending"
    BY DEF Sheds
  <1>2. QED
    BY <1>1, FormsInRow, FormsKeepId DEF Decays, UniqueIds, ShedBeyondLimits

LEMMA LimitDecays ==
  ASSUME NEW s, s \subseteq Row, UniqueIds(s), NEW day \in Nat
  PROVE  Decays(s, EnforceLimits(s, day))
  <1>1. EnforceLimits(s, day) \subseteq ShedBeyondLimits(s, day)
    BY DEF EnforceLimits
  <1>2. Decays(s, ShedBeyondLimits(s, day))
    BY ShedDecays
  <1>3. QED
    BY <1>1, <1>2 DEF Decays, UniqueIds

-------------------------------------------------------------------------------
(* Which blocks a set of rows holds.                                           *)

\* Every row of s2 is one of s, in the state it had.
Thins(s, s2) == \A q \in s2 : \E r \in s : Becomes(r, q) /\ q.state = r.state

UniqueBlocks(s) == \A r, q \in s : r.cid = q.cid => r = q

KnownIn(s) == {r.cid : r \in s}

QueuedIn(s) == {r.cid : r \in Pending(s)}

(* A nonempty set of numbers has a least one.                                  *)
LEMMA Least ==
  ASSUME NEW S \in SUBSET Nat, S # {}
  PROVE  \E m \in S : \A n \in S : m =< n
  <1> DEFINE R == OpToRel(<, Nat)
  <1>1. \A n, m \in S : <<n, m>> \in R <=> n < m
    BY DEF OpToRel
  <1>2. IsWellFoundedOn(R, Nat)
    BY NatLessThanWellFounded
  <1> HIDE DEF R
  <1>3. PICK m \in S : \A n \in S : <<n, m>> \notin R
    BY <1>2, WFMin
  <1>4. \A n \in S : n \in Nat /\ m \in Nat /\ ~(n < m)
    BY <1>1, <1>3
  <1>5. QED
    BY <1>4

(* The head row of a scope with pending rows: it is one of them, the oldest.   *)
LEMMA HeadIsOldest ==
  ASSUME NEW s, s \subseteq Row, NEW scope, Ready(s, scope) # {}
  PROVE  /\ HeadRow(s, scope) \in Ready(s, scope)
         /\ \A q \in Ready(s, scope) : HeadRow(s, scope).id =< q.id
  <1> DEFINE ids == {r.id : r \in Ready(s, scope)}
  <1>1. ids \in SUBSET Nat /\ ids # {}
    BY DEF Ready, Pending, Row
  <1>2. PICK m \in ids : \A n \in ids : m =< n
    BY <1>1, Least
  <1>3. \E r \in Ready(s, scope) : \A q \in Ready(s, scope) : r.id =< q.id
    BY <1>2
  <1>4. QED
    BY <1>3 DEF HeadRow

(* Removing rows changes no state.                                             *)
LEMMA SubsetThins ==
  ASSUME NEW s, s \subseteq Row, NEW s2, s2 \subseteq s
  PROVE  Thins(s, s2)
  BY DEF Thins, Becomes, SameBlock, Row

(* A failed attempt leaves every row where it is.                              *)
LEMMA FailThins ==
  ASSUME NEW s, s \subseteq Row, NEW scope, NEW cid
  PROVE  /\ Thins(s, MarkAttemptFailed(s, scope, cid))
         /\ KnownIn(MarkAttemptFailed(s, scope, cid)) = KnownIn(s)
  <1>1. \A r \in s : FailedForm(r).state = r.state /\ FailedForm(r).cid = r.cid
    BY DEF FailedForm, Row
  <1>2. Thins(s, MarkAttemptFailed(s, scope, cid))
    BY <1>1, FormsInRow DEF Thins, MarkAttemptFailed
  <1>3. QED
    BY <1>1, <1>2 DEF KnownIn, MarkAttemptFailed

(* So does stripping a row of its images.                                      *)
LEMMA StripThins ==
  ASSUME NEW s, s \subseteq Row, NEW scope, NEW cid
  PROVE  /\ Thins(s, StripCaptures(s, scope, cid))
         /\ KnownIn(StripCaptures(s, scope, cid)) = KnownIn(s)
  <1>1. \A r \in s : ShedForm(r).state = r.state /\ ShedForm(r).cid = r.cid
    BY DEF ShedForm, Row
  <1>2. Thins(s, StripCaptures(s, scope, cid))
    BY <1>1, FormsInRow DEF Thins, StripCaptures
  <1>3. QED
    BY <1>1, <1>2 DEF KnownIn, StripCaptures

(* The limits shed and drop, they move no row; what they drop was pending.     *)
LEMMA LimitThins ==
  ASSUME NEW s, s \subseteq Row, NEW day \in Nat
  PROVE  /\ Thins(s, EnforceLimits(s, day))
         /\ KnownIn(s) \ KnownIn(EnforceLimits(s, day)) \subseteq QueuedIn(s)
  <1> DEFINE shed == ShedBeyondLimits(s, day)
             left == EnforceLimits(s, day)
  <1>1. \A r \in s : /\ ShedForm(r).state = r.state /\ ShedForm(r).cid = r.cid
                     /\ Sheds(s, r, day) => r.state = "pending"
    BY DEF ShedForm, Row, Sheds
  <1>2. \A q \in shed : \E r \in s : Becomes(r, q) /\ q.state = r.state
    BY <1>1, FormsInRow DEF ShedBeyondLimits
  <1>3. left \subseteq shed
    BY DEF EnforceLimits
  <1>4. \A r \in s : r.state # "pending" => r \in shed
    BY <1>1 DEF ShedBeyondLimits
  <1>5. \A q \in shed : q.state # "pending" => q \in left
    BY DEF EnforceLimits, TooOld, Overflows
  <1>6. \A r \in s : r.cid \notin QueuedIn(s) => r \in left
    BY <1>4, <1>5 DEF QueuedIn, Pending
  <1>7. QED
    BY <1>2, <1>3, <1>6 DEF Thins, KnownIn

(* When nothing moved, the queued blocks are those whose row is left.          *)
LEMMA ThinsMoves ==
  ASSUME NEW s, NEW s2, s \subseteq Row, UniqueBlocks(s), Thins(s, s2)
  PROVE  /\ KnownIn(s2) \subseteq KnownIn(s)
         /\ QueuedIn(s2) = QueuedIn(s) \cap KnownIn(s2)
  <1>1. \A q \in s2 : \E r \in s : q.cid = r.cid /\ q.state = r.state
    BY DEF Thins, Becomes, SameBlock
  <1>2. QED
    BY <1>1 DEF KnownIn, QueuedIn, Pending, UniqueBlocks

(* The row of the block given is gone, and no other.                           *)
LEMMA AckMoves ==
  ASSUME NEW s, NEW scope, NEW cid, \A r \in s : r.cid = cid => InScope(r, scope)
  PROVE  /\ AckDelivered(s, scope, cid) \subseteq s
         /\ KnownIn(AckDelivered(s, scope, cid)) = KnownIn(s) \ {cid}
  BY DEF AckDelivered, KnownIn, IsRow

(* The row of the block given is queued no more, the others are what they were.*)
LEMMA ParkMoves ==
  ASSUME NEW s, s \subseteq Row, NEW scope, NEW cid,
         \A r \in s : r.cid = cid => InScope(r, scope)
  PROVE  /\ KnownIn(Park(s, scope, cid, 0)) = KnownIn(s)
         /\ QueuedIn(Park(s, scope, cid, 0)) = QueuedIn(s) \ {cid}
  <1>1. \A r \in s : ParkedForm(r, 0).state = "parked" /\ ParkedForm(r, 0).cid = r.cid
    BY DEF ParkedForm, Row
  <1>2. KnownIn(Park(s, scope, cid, 0)) = KnownIn(s)
    BY <1>1 DEF KnownIn, Park
  <1>3. Pending(Park(s, scope, cid, 0)) = {r \in Pending(s) : r.cid # cid}
    BY <1>1 DEF Pending, Park, IsRow
  <1>4. QED
    BY <1>2, <1>3 DEF QueuedIn

(* The blocks of the scope are queued no more, the others are what they were.  *)
LEMMA ParkScopeMoves ==
  ASSUME NEW s, s \subseteq Row, UniqueBlocks(s), NEW scope
  PROVE  /\ KnownIn(ParkScope(s, scope, 0)) = KnownIn(s)
         /\ QueuedIn(ParkScope(s, scope, 0)) =
              QueuedIn(s) \ {r.cid : r \in Ready(s, scope)}
  <1>1. \A r \in s : ParkedForm(r, 0).state = "parked" /\ ParkedForm(r, 0).cid = r.cid
    BY DEF ParkedForm, Row
  <1>2. KnownIn(ParkScope(s, scope, 0)) = KnownIn(s)
    BY <1>1 DEF KnownIn, ParkScope
  <1>3. Pending(ParkScope(s, scope, 0)) = {r \in Pending(s) : r \notin Ready(s, scope)}
    BY <1>1 DEF Pending, ParkScope, Ready
  <1>4. \A r \in Pending(s) :
          r.cid \in {q.cid : q \in Ready(s, scope)} <=> r \in Ready(s, scope)
    BY DEF UniqueBlocks, Pending, Ready
  <1>5. QED
    BY <1>2, <1>3, <1>4 DEF QueuedIn

-------------------------------------------------------------------------------
(* Counting rows from the newest back.                                         *)

\* Those of the rows of T that are at least as new as r.
AsNew(T, r) == {q \in T : q.id >= r.id}

(* Rows with an id each, none above a bound, are finitely many.                *)
LEMMA NumberedAreFinite ==
  ASSUME NEW s, s \subseteq Row, UniqueIds(s), NEW n \in Nat, \A r \in s : r.id \in 1 .. n
  PROVE  IsFiniteSet(s)
  <1> DEFINE f == [r \in s |-> r.id]
  <1>1. f \in Injection(s, 1 .. n)
    BY DEF Injection, IsInjective, UniqueIds
  <1>2. IsFiniteSet(1 .. n)
    BY FS_Interval
  <1> HIDE DEF f
  <1>3. QED
    BY <1>1, <1>2, FS_Injection

(* Rows of which each is among the n newest of a set are at most n.            *)
LEMMA NewestAreFew ==
  ASSUME NEW T, T \subseteq Row, IsFiniteSet(T), NEW n \in Nat, NEW K, K \subseteq T,
         \A r \in K : Cardinality(AsNew(T, r)) =< n
  PROVE  Cardinality(K) =< n
  <1>1. CASE K = {}
    BY <1>1, FS_EmptySet
  <1>2. CASE K # {}
    <2> DEFINE ids == {r.id : r \in K}
    <2>1. ids \in SUBSET Nat /\ ids # {}
      BY <1>2 DEF Row
    <2>2. PICK m \in ids : \A i \in ids : m =< i
      BY <2>1, Least
    <2>3. PICK r \in K : \A q \in K : r.id =< q.id
      BY <2>2
    <2>4. K \in SUBSET AsNew(T, r) /\ AsNew(T, r) \in SUBSET T
      <3>1. \A q \in K : r.id \in Nat /\ q.id \in Nat
        BY DEF Row
      <3>2. QED
        BY <2>3, <3>1 DEF AsNew
    <2>5. IsFiniteSet(AsNew(T, r))
      BY <2>4, FS_Subset
    <2>6. /\ Cardinality(K) =< Cardinality(AsNew(T, r)) /\ Cardinality(AsNew(T, r)) =< n
          /\ Cardinality(K) \in Nat /\ Cardinality(AsNew(T, r)) \in Nat
      BY <2>4, <2>5, FS_Subset, FS_CardinalityType
    <2>7. QED
      BY <2>6
  <1>3. QED
    BY <1>1, <1>2

(* When the rows beyond the n newest go, those that stay are newer, and where  *)
(* one goes n stay.                                                            *)
LEMMA OldestGo ==
  ASSUME NEW T, T \subseteq Row, UniqueIds(T), IsFiniteSet(T), NEW n \in Nat,
         NEW lim \in Nat, \A r \in T : r.id =< lim,
         NEW d \in T, Cardinality(AsNew(T, d)) > n
  PROVE  LET K == {r \in T : ~(Cardinality(AsNew(T, r)) > n)}
         IN  Cardinality(K) = n /\ \A k \in K : k.id > d.id
  <1> DEFINE K == {r \in T : ~(Cardinality(AsNew(T, r)) > n)}
  <1>0. \A r \in T : r.id \in Nat /\ IsFiniteSet(AsNew(T, r)) /\ Cardinality(AsNew(T, r)) \in Nat
    <2> SUFFICES ASSUME NEW r \in T
                 PROVE  r.id \in Nat /\ IsFiniteSet(AsNew(T, r)) /\ Cardinality(AsNew(T, r)) \in Nat
      OBVIOUS
    <2>1. AsNew(T, r) \in SUBSET T
      BY DEF AsNew
    <2>2. IsFiniteSet(AsNew(T, r))
      BY <2>1, FS_Subset
    <2>3. QED
      BY <2>2, FS_CardinalityType DEF Row
  <1>1. ASSUME NEW e \in T, e \notin K, NEW k \in K PROVE k.id > e.id
    <2>1. CASE k.id =< e.id
      <3>1. AsNew(T, e) \in SUBSET AsNew(T, k)
        <4>1. \A q \in T : q.id >= e.id => q.id >= k.id
          <5>1. \A q \in T : q.id \in Nat /\ e.id \in Nat /\ k.id \in Nat
            BY <1>0
          <5>2. QED
            BY <2>1, <5>1
        <4>2. QED
          BY <4>1 DEF AsNew
      <3>2. Cardinality(AsNew(T, e)) =< Cardinality(AsNew(T, k))
        BY <1>0, <3>1, FS_Subset
      <3>3. /\ Cardinality(AsNew(T, e)) > n /\ ~(Cardinality(AsNew(T, k)) > n)
            /\ Cardinality(AsNew(T, e)) \in Nat /\ Cardinality(AsNew(T, k)) \in Nat
        BY <1>0, <1>1
      <3>4. QED
        BY <3>2, <3>3
    <2>2. k.id \in Nat /\ e.id \in Nat
      BY <1>0
    <2>3. QED
      BY <2>1, <2>2
  <1>2. d \notin K
    OBVIOUS
  <1>3. Cardinality(K) =< n
    <2>1. \A r \in K : Cardinality(AsNew(T, r)) =< n
      BY <1>0
    <2>2. K \subseteq T
      OBVIOUS
    <2> HIDE DEF K
    <2>3. QED
      BY <2>1, <2>2, NewestAreFew
  <1>4. Cardinality(K) >= n
    <2> DEFINE gaps == {lim - r.id : r \in T \ K}
    <2>1. gaps \in SUBSET Nat /\ gaps # {}
      BY <1>0, <1>2
    <2>2. PICK g \in gaps : \A i \in gaps : g =< i
      BY <2>1, Least
    <2>3. PICK e \in T \ K : g = lim - e.id
      BY <2>2
    <2>4. \A r \in T \ K : r.id =< e.id
      <3>1. \A r \in T \ K : lim - e.id =< lim - r.id
        BY <2>2, <2>3
      <3>2. \A r \in T \ K : r.id \in Nat /\ e.id \in Nat
        BY <1>0
      <3>3. QED
        BY <3>1, <3>2
    <2>5. AsNew(T, e) \in SUBSET (K \cup {e})
      <3> SUFFICES ASSUME NEW q \in T, q.id >= e.id, q \notin K PROVE q = e
        BY DEF AsNew
      <3>1. q.id =< e.id /\ q.id \in Nat /\ e.id \in Nat
        BY <1>0, <2>4
      <3>2. QED
        BY <3>1 DEF UniqueIds
    <2>6. K \in SUBSET T /\ e \in T /\ e \notin K
      OBVIOUS
    <2>7. Cardinality(AsNew(T, e)) > n
      BY <2>6
    <2> HIDE DEF K, gaps
    <2>8. IsFiniteSet(K) /\ Cardinality(K) \in Nat
      BY <2>6, FS_Subset, FS_CardinalityType
    <2>9. IsFiniteSet(K \cup {e}) /\ Cardinality(K \cup {e}) = Cardinality(K) + 1
      BY <2>6, <2>8, FS_AddElement
    <2>10. Cardinality(AsNew(T, e)) =< Cardinality(K) + 1
      BY <2>5, <2>9, FS_Subset
    <2>11. Cardinality(AsNew(T, e)) \in Nat
      BY <1>0, <2>6
    <2>12. QED
      BY <2>7, <2>8, <2>10, <2>11
  <1>5. Cardinality(K) \in Nat
    <2>1. K \in SUBSET T
      OBVIOUS
    <2> HIDE DEF K
    <2>2. QED
      BY <2>1, FS_Subset, FS_CardinalityType
  <1>6. Cardinality(K) = n
    <2> HIDE DEF K
    <2>1. QED
      BY <1>3, <1>4, <1>5
  <1>7. QED
    BY <1>1, <1>2, <1>6

(* What enforce_limits leaves pending and what it drops: a pending row is one  *)
(* that is not too old and among the newest of those, one with images left     *)
(* among the newest of all that were pending.                                  *)
LEMMA LimitsLeave ==
  ASSUME NEW s, s \subseteq Row, UniqueIds(s), IsFiniteSet(s), NEW lim \in Nat,
         \A r \in s : r.id =< lim, NEW day \in Nat
  PROVE  LET left == EnforceLimits(s, day)
             kept == {r \in Pending(left) : r.bytes > 0}
         IN  /\ Cardinality(Pending(left)) =< MaxPendingRows
             /\ \A r \in Pending(left) : day - r.started =< MaxAge
             /\ Cardinality(kept) =< CaptureMaxRows
             /\ \A r \in kept : day - r.enqueued =< CaptureMaxAge
             /\ \A d \in s : (\A q \in left : q.id # d.id) =>
                  /\ d.state = "pending"
                  /\ TooOld(d, day) \/ /\ Cardinality(Pending(left)) = MaxPendingRows
                                       /\ \A k \in Pending(left) : k.id > d.id
  <1> DEFINE left == EnforceLimits(s, day)
             shed == ShedBeyondLimits(s, day)
             fresh == {r \in shed : ~TooOld(r, day)}
             T == Pending(fresh)
             kept == {r \in Pending(left) : r.bytes > 0}
  <1>0. /\ MaxPendingRows \in Nat /\ CaptureMaxRows \in Nat /\ MaxAge \in Nat
        /\ CaptureMaxAge \in Nat
    BY LimitsAssumption
  <1>1. /\ shed \subseteq Row /\ UniqueIds(shed)
        /\ \A q \in shed : q.id =< lim
    <2>1. Decays(s, shed)
      BY ShedDecays
    <2>2. QED
      BY <2>1 DEF Decays, Becomes
  <1>2. T \subseteq Row /\ UniqueIds(T) /\ \A r \in T : r.id \in 1 .. lim \cup {0}
    <2>1. T \subseteq shed
      BY DEF Pending
    <2>2. QED
      BY <1>1, <2>1 DEF UniqueIds, Row
  <1>3. IsFiniteSet(T)
    <2> DEFINE f == [r \in T |-> r.id]
    <2>1. f \in Injection(T, 0 .. lim)
      BY <1>2 DEF Injection, IsInjective, UniqueIds
    <2>2. IsFiniteSet(0 .. lim)
      BY FS_Interval
    <2> HIDE DEF f, T
    <2>3. QED
      BY <2>1, <2>2, FS_Injection
  <1>4. \A r \in T : Rank(fresh, r) = Cardinality(AsNew(T, r))
    BY DEF Rank, NewerOrSelf, AsNew
  <1>5. Pending(left) = {r \in T : ~(Cardinality(AsNew(T, r)) > MaxPendingRows)}
    <2>1. left = {r \in fresh : ~Overflows(fresh, r)}
      BY DEF EnforceLimits
    <2>2. \A r \in T : Overflows(fresh, r) <=> Cardinality(AsNew(T, r)) > MaxPendingRows
      BY <1>4 DEF Overflows, Pending
    <2>3. Pending(left) = {r \in T : ~Overflows(fresh, r)}
      BY <2>1 DEF Pending
    <2>4. QED
      BY <2>2, <2>3
  <1>6. Cardinality(Pending(left)) =< MaxPendingRows
    <2>1. \A r \in T : Cardinality(AsNew(T, r)) \in Nat
      <3>1. \A r \in T : AsNew(T, r) \in SUBSET T
        BY DEF AsNew
      <3> HIDE DEF T
      <3>2. QED
        BY <1>3, <3>1, FS_Subset, FS_CardinalityType
    <2> DEFINE K == Pending(left)
    <2>2. K \subseteq T /\ \A r \in K : Cardinality(AsNew(T, r)) =< MaxPendingRows
      BY <1>0, <1>5, <2>1
    <2> HIDE DEF K, T
    <2>3. Cardinality(K) =< MaxPendingRows
      BY <1>0, <1>2, <1>3, <2>2, NewestAreFew
    <2>4. QED
      BY <2>3 DEF K
  <1>7. ASSUME NEW r \in Pending(left) PROVE day - r.started =< MaxAge
    <2>1. r \in T /\ r \in Row /\ ~TooOld(r, day) /\ r.state = "pending"
      BY <1>2, <1>5 DEF Pending
    <2>2. r.started \in Nat
      BY <2>1 DEF Row
    <2>3. QED
      BY <1>0, <2>1, <2>2 DEF TooOld
  <1>8. \A r \in kept : r \in Pending(s) /\ ~Sheds(s, r, day) /\ r.bytes > 0
    <2> SUFFICES ASSUME NEW q \in kept
                 PROVE  q \in Pending(s) /\ ~Sheds(s, q, day) /\ q.bytes > 0
      OBVIOUS
    <2>1. q \in shed /\ q.state = "pending" /\ q.bytes > 0
      BY <1>5 DEF Pending
    <2>2. PICK r \in s : q = IF Sheds(s, r, day) THEN ShedForm(r) ELSE r
      BY <2>1 DEF ShedBeyondLimits
    <2>3. ShedForm(r).bytes = 0
      BY DEF ShedForm, Row
    <2>4. ~Sheds(s, r, day) /\ q = r
      BY <2>1, <2>2, <2>3
    <2>5. QED
      BY <2>1, <2>4 DEF Pending
  <1>9. \A r \in kept : /\ Cardinality(AsNew(Pending(s), r)) =< CaptureMaxRows
                        /\ day - r.enqueued =< CaptureMaxAge
    <2> SUFFICES ASSUME NEW r \in kept
                 PROVE  /\ Cardinality(AsNew(Pending(s), r)) =< CaptureMaxRows
                        /\ day - r.enqueued =< CaptureMaxAge
      OBVIOUS
    <2>1. r \in s /\ r \in Row /\ r.state = "pending" /\ ~Sheds(s, r, day) /\ r.bytes > 0
      BY <1>8 DEF Pending
    <2>2. ~(Rank(s, r) > CaptureMaxRows) /\ ~(day - r.enqueued > CaptureMaxAge)
      BY <2>1 DEF Sheds
    <2>3. Rank(s, r) = Cardinality(AsNew(Pending(s), r))
      BY DEF Rank, NewerOrSelf, AsNew
    <2>4. Cardinality(AsNew(Pending(s), r)) \in Nat
      <3>1. AsNew(Pending(s), r) \in SUBSET s
        BY DEF AsNew, Pending
      <3>2. QED
        BY <3>1, FS_Subset, FS_CardinalityType
    <2>5. r.enqueued \in Nat
      BY <2>1 DEF Row
    <2> HIDE DEF kept
    <2>6. QED
      BY <1>0, <2>2, <2>3, <2>4, <2>5
  <1>10. Cardinality(kept) =< CaptureMaxRows
    <2>1. Pending(s) \in SUBSET s /\ Pending(s) \subseteq Row
      BY DEF Pending
    <2>2. IsFiniteSet(Pending(s)) /\ kept \subseteq Pending(s)
      BY <1>8, <2>1, FS_Subset
    <2> HIDE DEF kept
    <2>3. QED
      BY <1>0, <1>9, <2>1, <2>2, NewestAreFew
  <1>11. ASSUME NEW d \in s, \A q \in left : q.id # d.id
         PROVE  /\ d.state = "pending"
                /\ TooOld(d, day) \/ /\ Cardinality(Pending(left)) = MaxPendingRows
                                     /\ \A k \in Pending(left) : k.id > d.id
    <2> DEFINE e == IF Sheds(s, d, day) THEN ShedForm(d) ELSE d
    <2>1. /\ e \in shed /\ e.id = d.id /\ e.state = d.state /\ e.started = d.started
      <3>1. /\ ShedForm(d).id = d.id /\ ShedForm(d).state = d.state
            /\ ShedForm(d).started = d.started
        BY DEF ShedForm, Row
      <3>2. e \in shed
        BY DEF ShedBeyondLimits
      <3>3. QED
        BY <3>1, <3>2
    <2> HIDE DEF e, shed
    <2>2. e \notin left
      BY <1>11, <2>1
    <2>3. left = {r \in fresh : ~Overflows(fresh, r)}
      BY DEF EnforceLimits, shed
    <2>4. TooOld(e, day) \/ (~TooOld(e, day) /\ e \in fresh /\ Overflows(fresh, e))
      BY <2>1, <2>2, <2>3
    <2>5. TooOld(e, day) <=> TooOld(d, day)
      BY <2>1 DEF TooOld
    <2>6. e.state = "pending"
      BY <2>4 DEF TooOld, Overflows
    <2>7. CASE e \in fresh /\ Overflows(fresh, e)
      <3>1. e \in T
        BY <2>6, <2>7 DEF Pending
      <3>2. Cardinality(AsNew(T, e)) > MaxPendingRows
        BY <1>4, <2>7, <3>1 DEF Overflows
      <3>3. \A r \in T : r.id =< lim
        BY <1>2
      <3> DEFINE K == {r \in T : ~(Cardinality(AsNew(T, r)) > MaxPendingRows)}
      <3>4. Cardinality(K) = MaxPendingRows /\ \A k \in K : k.id > e.id
        <4> HIDE DEF T
        <4>1. QED
          BY <1>0, <1>2, <1>3, <3>1, <3>2, <3>3, OldestGo
      <3>5. Pending(left) = K
        BY <1>5
      <3> HIDE DEF K, T
      <3>6. QED
        BY <2>1, <2>6, <3>4, <3>5
    <2>8. QED
      BY <2>1, <2>4, <2>5, <2>6, <2>7
  <1>12. QED
    BY <1>6, <1>7, <1>9, <1>10, <1>11
================================================================================
