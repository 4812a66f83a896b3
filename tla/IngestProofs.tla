----------------------------- MODULE IngestProofs -----------------------------
(***************************************************************************)
(* Why the ingest lock, the order of the checks and the names of the       *)
(* images are enough: proofs about Ingest.tla, for any blocks, requests,   *)
(* instances and faults.                                                   *)
(***************************************************************************)
EXTENDS Ingest, TLAPS

\* Past FindOwnBlock, past the record of deleted blocks, past the times.
AfterFind == {"tombstone", "device", "project", "others", "times", "subscription",
              "save", "insert"}
AfterTombstone == AfterFind \ {"tombstone"}
AfterTimes == {"subscription", "save", "insert"}

\* One upload of a member at a time.
OneHolder ==
  \A r, q \in Requests : r # q /\ Holds(r) /\ Holds(q) => LockOf(r) # LockOf(q)

\* A row was stored by a request that is past storing, and is deleted once.
Placed ==
  /\ \A w \in rows : at[w.by] \in {"undo", "winner", "done"}
  /\ deleting # Nobody => deleting.row \in rows /\ deleting.row.by \in touched

\* What the first checks found still holds while the block is stored.
Cleared ==
  plan.shared =>
    \A r \in Requests :
      /\ at[r] \in AfterFind => Own(r) = {}
      /\ at[r] \in AfterTombstone => Key(r) \notin erased

\* So does what the last found.
Vetted ==
  /\ \A w \in rows : WellTimed(w.by)
  /\ \A r \in Requests : at[r] \in AfterTimes =>
       /\ WellTimed(r)
       /\ \A w \in rows : LockOf(w.by) = LockOf(r) /\ Touch(r, w.by) => ~Clash(r, w.by)

\* Images are where the request put them, and only its own are cleaned up.
Kept ==
  /\ \A w \in rows : w.images \subseteq Images(w.by, saved[w.by])
  /\ \A r \in Requests :
       /\ at[r] \in {"save", "insert"} => Images(r, saved[r]) \subseteq blobs
       /\ at[r] = "undo" => error[r] # "none"
       /\ at[r] \in ({"lock", "find"} \cup AfterFind) \ {"save", "insert"} => saved[r] = 0

IInv ==
  /\ TypeOK /\ OneHolder /\ Placed /\ Cleared /\ Vetted /\ Kept
  /\ AnsweredIsHeld /\ NoDoubleTime /\ ErasedStaysErased /\ NothingTorn

LEMMA InitIInv == Init => IInv
<1> SUFFICES ASSUME Init PROVE IInv
  OBVIOUS
<1> USE IngestAssumption DEF Init
<1>1. TypeOK BY DEF TypeOK, Steps, Answers, Requests
<1>2. OneHolder BY DEF OneHolder, Holds
<1>3. Placed /\ Cleared /\ Vetted /\ Kept
  BY DEF Placed, Cleared, Vetted, Kept, Images, AfterFind, AfterTombstone, AfterTimes
<1>4. AnsweredIsHeld /\ NoDoubleTime /\ ErasedStaysErased /\ NothingTorn
  BY DEF AnsweredIsHeld, NoDoubleTime, ErasedStaysErased, NothingTorn
<1> QED BY <1>1, <1>2, <1>3, <1>4 DEF IInv

LEMMA ClashIsMutual ==
  ASSUME TypeOK, NEW r \in Requests, NEW q \in Requests
  PROVE  (Clash(r, q) <=> Clash(q, r)) /\ (Touch(r, q) <=> Touch(q, r))
<1>1. From(r) \in Nat /\ To(r) \in Nat /\ From(q) \in Nat /\ To(q) \in Nat
  BY IngestAssumption DEF TypeOK, Requests, From, To, BlockOf, Blocks
<1>2. Overlap(r, q) = Overlap(q, r) /\ Shorter(r, q) = Shorter(q, r)
  BY <1>1 DEF Overlap, Shorter
<1>3. Clash(r, q) <=> Clash(q, r)
  BY <1>2 DEF Clash
<1> QED BY <1>3 DEF Touch

\* What is written in the requests does not change.
LEMMA PlanStays ==
  ASSUME UNCHANGED plan
  PROVE  /\ Requests' = Requests
         /\ \A q \in Requests : Key(q)' = Key(q) /\ LockOf(q)' = LockOf(q)
         /\ \A q \in Requests : WellTimed(q)' = WellTimed(q) /\ Who(q)' = Who(q)
         /\ \A q, o \in Requests : Clash(q, o)' = Clash(q, o) /\ Touch(q, o)' = Touch(q, o)
  BY DEF Requests, Key, LockOf, WellTimed, Clash, Touch, Overlap, Shorter, From, To, BlockOf, Who

-------------------------------------------------------------------------------
(* The steps of a request that commit and delete nothing *)

\* Request r moves on and everything it has learned so far it keeps.
Move(r) ==
  /\ UNCHANGED <<plan, rows, erased, deleting, touched, saved>> /\ blobs \subseteq blobs'
  /\ at' = [at EXCEPT ![r] = at'[r]] /\ at'[r] \in Steps \ {"lock"}
  /\ answer' = [answer EXCEPT ![r] = answer'[r]] /\ answer'[r] \in Answers
  /\ error' = [error EXCEPT ![r] = error'[r]]
  /\ error'[r] \in {"none", "unique", "noState", "other"}
  /\ archived' \in [Requests -> BOOLEAN] /\ trouble' \in Nat
  /\ at[r] # "done"
  /\ at'[r] = "done" \/ Holds(r) \/ ~Busy(r)
  /\ at'[r] \in {"find"} \cup AfterFind => at[r] \notin {"undo", "winner"}
  /\ at'[r] \in AfterFind => at[r] \in AfterFind \/ Own(r) = {}
  /\ at'[r] \in AfterTombstone => at[r] \in AfterTombstone \/ Key(r) \notin erased
  /\ at'[r] \in AfterTimes =>
       \/ at[r] \in AfterTimes
       \/ /\ WellTimed(r)
          /\ \A w \in rows : LockOf(w.by) = LockOf(r) /\ Touch(r, w.by) => ~Clash(r, w.by)
  /\ at'[r] \in ({"find"} \cup AfterFind) \ {"save", "insert"} => at[r] \notin {"save", "insert"}
  /\ at'[r] = "undo" => error'[r] # "none"
  /\ error'[r] = "none" => error[r] = "none"
  /\ answer'[r] = "stored" => answer[r] = "stored" \/ Own(r) # {}
  /\ answer'[r] = "deleted" => answer[r] = "deleted" \/ Key(r) \in erased

LEMMA MoveKeeps ==
  ASSUME IInv, NEW r \in Requests, Move(r)
  PROVE  IInv'
<1>0. Requests' = Requests /\ r \in DOMAIN at
  BY DEF Move, Requests, IInv, TypeOK
<1>1. \A q \in Requests : q # r => at'[q] = at[q] /\ answer'[q] = answer[q] /\ error'[q] = error[q]
  BY DEF Move, IInv, TypeOK
<1>2. /\ \A q \in Requests : Key(q)' = Key(q) /\ LockOf(q)' = LockOf(q)
      /\ \A q \in Requests : WellTimed(q)' = WellTimed(q)
      /\ \A q, o \in Requests : Clash(q, o)' = Clash(q, o) /\ Touch(q, o)' = Touch(q, o)
      /\ \A q \in Requests : Own(q)' = Own(q)
      /\ \A q \in Requests, n \in Nat : Images(q, n)' = Images(q, n)
  BY PlanStays DEF Move, IInv, TypeOK, Own, Images, Blob
<1>3. TypeOK'
  BY <1>0, <1>2 DEF Move, IInv, TypeOK
<1>4. OneHolder'
  BY <1>0, <1>1, <1>2 DEF Move, IInv, TypeOK, OneHolder, Holds, Busy
<1>5. Placed'
  BY <1>0, <1>1 DEF Move, IInv, TypeOK, Placed, Steps, AfterFind
<1>6. Cleared'
  BY <1>0, <1>1, <1>2 DEF Move, IInv, Cleared
<1>7. Vetted'
  <2>1. \A w \in rows : w.by \in Requests
    BY DEF IInv, TypeOK
  <2> QED BY <1>0, <1>1, <1>2, <2>1 DEF Move, IInv, Vetted
<1>8. Kept'
  <2>1. \A q \in Requests : Images(q, saved[q])' = Images(q, saved[q])
    BY <1>0, <1>2 DEF Move, IInv, TypeOK
  <2>2. \A w \in rows' : w.images \subseteq Images(w.by, saved[w.by])'
    BY <1>0, <2>1 DEF Move, IInv, TypeOK, Kept
  <2>3. saved[r] = 0 => Images(r, saved[r]) = {}
    BY DEF Images
  <2>4. ASSUME NEW q \in Requests, at'[q] \in {"save", "insert"}
        PROVE  Images(q, saved[q])' \subseteq blobs'
    <3>1. CASE at[q] \in {"save", "insert"}
      BY <1>0, <2>1, <3>1 DEF Move, IInv, Kept
    <3>2. CASE at[q] \notin {"save", "insert"}
      <4>1. q = r
        BY <1>1, <2>4, <3>2
      <4>2. at[q] \in ({"lock", "find"} \cup AfterFind) \ {"save", "insert"}
        BY <1>0, <2>4, <3>2, <4>1 DEF Move, IInv, TypeOK, Steps, AfterFind
      <4> QED BY <2>1, <2>3, <4>1, <4>2 DEF IInv, Kept
    <3> QED BY <3>1, <3>2
  <2>5. \A q \in Requests : at'[q] = "undo" => error'[q] # "none"
    BY <1>0, <1>1 DEF Move, IInv, Kept
  <2>6. \A q \in Requests :
          at'[q] \in ({"lock", "find"} \cup AfterFind) \ {"save", "insert"} => saved'[q] = 0
    BY <1>0, <1>1 DEF Move, IInv, TypeOK, Steps, Kept, AfterFind
  <2> QED BY <1>0, <2>2, <2>4, <2>5, <2>6 DEF Kept, Requests
<1>9. AnsweredIsHeld' /\ ErasedStaysErased'
  BY <1>0, <1>1, <1>2 DEF Move, IInv, TypeOK, AnsweredIsHeld, ErasedStaysErased
<1>10. NoDoubleTime' /\ NothingTorn'
  BY <1>0, <1>1, <1>2 DEF Move, IInv, TypeOK, NoDoubleTime, NothingTorn
<1> QED BY <1>3, <1>4, <1>5, <1>6, <1>7, <1>8, <1>9, <1>10 DEF IInv

LEMMA ChecksMove ==
  ASSUME IInv, NEW r \in Requests, Acquire(r) \/ GiveUp(r) \/ Checks(r)
  PROVE  Move(r)
<1> USE DEF IInv, TypeOK, Move, Goto, Answer, Check, Holds, storeVars, ownerVars, Steps, Answers,
            AfterFind, AfterTombstone, AfterTimes
<1>1. CASE Acquire(r) BY <1>1 DEF Acquire
<1>2. CASE GiveUp(r) BY <1>2 DEF GiveUp
<1>3. CASE FindOwnBlock(r) BY <1>3 DEF FindOwnBlock
<1>4. CASE IsBlockErased(r) BY <1>4 DEF IsBlockErased, WasErased
<1>5. CASE EnsureCanIngest(r) BY <1>5 DEF EnsureCanIngest
<1>6. CASE GetUploadProject(r) BY <1>6 DEF GetUploadProject
<1>7. CASE ClientIdConflict(r) BY <1>7 DEF ClientIdConflict
<1>8. CASE ValidateTimes(r)
  <2>1. ASSUME WellTimed(r), ~\E w \in Candidates(r) : Clash(r, w.by),
               NEW w \in rows, LockOf(w.by) = LockOf(r), Touch(r, w.by)
        PROVE  ~Clash(r, w.by)
    <3>1. w.by \in Requests /\ WellTimed(w.by)
      BY DEF Vetted
    <3>2. \A q \in Requests : From(q) \in Nat /\ To(q) \in Nat
      BY IngestAssumption DEF Requests, From, To, BlockOf, Blocks
    <3>3. From(w.by) + MaxBlockLength >= From(r)
      BY <2>1, <3>1, <3>2, IngestAssumption DEF Touch, WellTimed
    <3>4. w \in Candidates(r)
      BY <2>1, <3>3 DEF Candidates, LockOf
    <3> QED BY <2>1, <3>4
  <2> QED BY <1>8, <2>1 DEF ValidateTimes
<1>9. CASE Subscribed(r) BY <1>9 DEF Subscribed
<1> QED BY <1>1, <1>2, <1>3, <1>4, <1>5, <1>6, <1>7, <1>8, <1>9 DEF Checks

LEMMA StoringMoves ==
  ASSUME IInv, NEW r \in Requests,
         \/ Saved(r) \/ SaveFails(r) \/ InsertRefused(r) \/ InsertFails(r) \/ Winner(r)
  PROVE  Move(r)
<1> USE DEF IInv, TypeOK, Move, Goto, Answer, Fault, Holds, storeVars, ownerVars, Steps, Answers,
            AfterFind, AfterTombstone, AfterTimes
<1>1. CASE Saved(r) BY <1>1 DEF Saved
<1>2. CASE SaveFails(r) BY <1>2 DEF SaveFails
<1>3. CASE InsertRefused(r) BY <1>3 DEF InsertRefused
<1>4. CASE InsertFails(r) BY <1>4 DEF InsertFails
<1>5. CASE Winner(r) BY <1>5 DEF Winner
<1> QED BY <1>1, <1>2, <1>3, <1>4, <1>5

-------------------------------------------------------------------------------
(* The steps that store *)

LEMMA SaveKeeps ==
  ASSUME IInv, NEW r \in Requests, SaveImage(r)
  PROVE  IInv'
<1> USE DEF SaveImage, ownerVars
<1>0. /\ UNCHANGED <<plan, at, answer, error, rows, erased, deleting, touched>>
      /\ at[r] = "save" /\ saved' = [saved EXCEPT ![r] = saved[r] + 1]
      /\ blobs' = blobs \cup {Blob(r, saved[r] + 1)}
  OBVIOUS
<1>2. \A q \in Requests : Images(q, saved[q])' = Images(q, saved'[q])
  BY DEF Images, Blob
<1>9. \A q \in Requests : Own(q)' = Own(q)
  BY <1>0, PlanStays DEF IInv, TypeOK, Own
<1>3. TypeOK'
  BY PlanStays DEF IInv, TypeOK, Requests, Key
<1>4. OneHolder' /\ Placed' /\ Cleared' /\ Vetted'
  <2>1. OneHolder' /\ Placed'
    <3>1. OneHolder'
      BY <1>0, PlanStays DEF IInv, OneHolder, Holds
    <3>2. Placed'
      BY <1>0 DEF IInv, Placed
    <3> QED BY <3>1, <3>2
  <2>2. Cleared'
    BY <1>0, <1>9, PlanStays DEF IInv, Cleared
  <2>3. Vetted'
    <3>1. \A w \in rows : w.by \in Requests
      BY DEF IInv, TypeOK
    <3> QED BY <1>0, <3>1, PlanStays DEF IInv, Vetted
  <2> QED BY <2>1, <2>2, <2>3
<1>5. /\ \A q \in Requests : q # r => saved'[q] = saved[q]
      /\ saved[r] \in Nat /\ saved'[r] = saved[r] + 1
  BY DEF IInv, TypeOK
<1>6. Images(r, saved'[r]) = Images(r, saved[r]) \cup {Blob(r, saved'[r])}
  BY <1>5 DEF Images
<1>7. Kept'
  <2>1. \A w \in rows : w.by # r /\ w.by \in Requests
    BY DEF IInv, TypeOK, Placed
  <2>2. \A w \in rows' : w.images \subseteq Images(w.by, saved[w.by])'
    BY <1>0, <1>2, <1>5, <2>1 DEF IInv, Kept
  <2>4. \A q \in Requests : at[q] \in {"save", "insert"} => Images(q, saved[q])' \subseteq blobs'
    <3>1. blobs \subseteq blobs' /\ Blob(r, saved'[r]) \in blobs'
      BY <1>0, <1>5
    <3>2. Images(r, saved[r])' \subseteq blobs'
      BY <1>0, <1>2, <1>6, <3>1 DEF IInv, Kept
    <3> QED BY <1>2, <1>5, <3>1, <3>2 DEF IInv, Kept
  <2> QED BY <1>5, <2>2, <2>4, PlanStays DEF IInv, Kept
<1>8. AnsweredIsHeld' /\ NoDoubleTime' /\ ErasedStaysErased' /\ NothingTorn'
  <2>1. \A w \in rows : w.by \in Requests
    BY DEF IInv, TypeOK
  <2>2. AnsweredIsHeld'
    BY <1>0, <1>9, PlanStays DEF IInv, AnsweredIsHeld
  <2>3. NoDoubleTime' /\ ErasedStaysErased'
    BY <1>0, <2>1, PlanStays DEF IInv, NoDoubleTime, ErasedStaysErased
  <2>4. NothingTorn'
    BY <1>0, <2>1 DEF IInv, NothingTorn
  <2> QED BY <2>2, <2>3, <2>4
<1> QED BY <1>3, <1>4, <1>7, <1>8 DEF IInv

\* Request r adds its row and goes on to `undo` or is done.
LEMMA StoreKeeps ==
  ASSUME IInv, NEW r \in Requests, Insert(r) \/ CommitUnheard(r)
  PROVE  IInv'
<1> DEFINE row == NewRow(r)
<1>0. /\ UNCHANGED <<plan, saved, blobs, erased, deleting, touched>>
      /\ at[r] = "insert" /\ Own(r) = {} /\ rows' = rows \cup {row}
      /\ at' = [at EXCEPT ![r] = at'[r]] /\ at'[r] \in {"done", "undo"}
      /\ answer' = [answer EXCEPT ![r] = answer'[r]] /\ answer'[r] \in {answer[r], "stored"}
      /\ error' = [error EXCEPT ![r] = error'[r]] /\ error'[r] \in {error[r], "noState"}
      /\ at'[r] = "undo" => error'[r] = "noState"
      /\ archived' = archived /\ trouble' \in Nat
  BY DEF Insert, CommitUnheard, Goto, Answer, Fault, ownerVars, IInv, TypeOK
<1>1. row.by = r /\ row.images = Images(r, saved[r]) /\ row = [by |-> row.by, images |-> row.images]
  BY DEF NewRow
<1>2. \A q \in Requests : q # r => at'[q] = at[q] /\ answer'[q] = answer[q] /\ error'[q] = error[q]
  BY <1>0 DEF IInv, TypeOK
<1>3. /\ \A q \in Requests : Own(q)' = Own(q) \cup (IF Key(q) = Key(r) THEN {row} ELSE {})
      /\ \A q \in Requests, n \in Nat : Images(q, n)' = Images(q, n)
  BY <1>0, <1>1, PlanStays DEF IInv, TypeOK, Own, Images, Blob
<1>4. TypeOK'
  <2>1. \A w \in rows : Key(w.by) # Key(r)
    BY <1>0 DEF Own
  <2> HIDE DEF row
  <2>2. \A v, w \in rows' : Key(v.by)' = Key(w.by)' => v = w
    BY <1>0, <1>1, <2>1, PlanStays DEF IInv, TypeOK
  <2>3. plan' \in Plans /\ trouble' \in Nat
        /\ (deleting' # Nobody => deleting'.row = [by |-> deleting'.row.by,
                                                   images |-> deleting'.row.images])
    BY <1>0 DEF IInv, TypeOK
  <2>4. \A w \in rows' : w.by \in Requests' /\ w = [by |-> w.by, images |-> w.images]
    BY <1>0, <1>1, PlanStays DEF IInv, TypeOK
  <2>5. /\ at' \in [Requests' -> Steps] /\ answer' \in [Requests' -> Answers]
        /\ archived' \in [Requests' -> BOOLEAN] /\ saved' \in [Requests' -> Nat]
        /\ error' \in [Requests' -> {"none", "unique", "noState", "other"}]
    <3>0. Requests' = Requests /\ at \in [Requests -> Steps]
      BY <1>0, PlanStays DEF IInv, TypeOK
    <3>1. at' \in [Requests' -> Steps]
      BY <1>0, <3>0 DEF Steps
    <3>2. answer' \in [Requests' -> Answers]
      BY <1>0, PlanStays DEF IInv, TypeOK, Answers
    <3>3. error' \in [Requests' -> {"none", "unique", "noState", "other"}]
      BY <1>0, PlanStays DEF IInv, TypeOK
    <3> QED BY <1>0, <3>1, <3>2, <3>3, PlanStays DEF IInv, TypeOK
  <2> QED BY <2>2, <2>3, <2>4, <2>5 DEF TypeOK
<1> HIDE DEF row
<1>5. OneHolder'
  <2>1. \A q \in Requests : Holds(q)' => Holds(q)
    BY <1>0, <1>2 DEF Holds
  <2> QED BY <1>0, <2>1, PlanStays DEF IInv, OneHolder
<1>6. Placed'
  BY <1>0, <1>1, <1>2 DEF IInv, TypeOK, Placed
<1>7. \A q \in Requests : q # r /\ Holds(q) => LockOf(q) # LockOf(r)
  BY <1>0 DEF IInv, OneHolder, Holds
<1>8. Cleared'
  <2>1. ASSUME plan.shared, NEW q \in Requests, q # r, at[q] \in AfterFind PROVE Key(q) # Key(r)
    BY <1>7, <2>1 DEF Holds, AfterFind, Key, LockOf
  <2>2. at'[r] \notin AfterFind
    BY <1>0 DEF AfterFind
  <2> QED BY <1>0, <1>2, <1>3, <2>1, <2>2, PlanStays DEF IInv, Cleared, AfterTombstone
<1>9. Vetted'
  <2>1. ASSUME NEW q \in Requests, at'[q] \in AfterTimes
        PROVE  q # r /\ at[q] \in AfterTimes /\ LockOf(q) # LockOf(r)
    BY <1>0, <1>2, <1>7, <2>1 DEF AfterTimes, Holds
  <2>2. \A w \in rows : w.by \in Requests
    BY DEF IInv, TypeOK
  <2>3. WellTimed(r)
    BY <1>0 DEF IInv, Vetted, AfterTimes
  <2>4. \A w \in rows' : WellTimed(w.by)'
    BY <1>0, <1>1, <2>2, <2>3, PlanStays DEF IInv, Vetted
  <2>5. ASSUME NEW q \in Requests, at'[q] \in AfterTimes, NEW w \in rows',
               LockOf(w.by)' = LockOf(q)', Touch(q, w.by)'
        PROVE  ~Clash(q, w.by)'
    <3>1. w \in rows
      BY <1>0, <1>1, <2>1, <2>5, PlanStays
    <3> QED BY <1>0, <2>1, <2>2, <2>5, <3>1, PlanStays DEF IInv, Vetted
  <2>6. \A q \in Requests : at'[q] \in AfterTimes => WellTimed(q)'
    BY <1>0, <2>1, PlanStays DEF IInv, Vetted
  <2> QED BY <1>0, <2>4, <2>5, <2>6, PlanStays DEF Vetted
<1>10. Kept'
  <2>1. \A q \in Requests : Images(q, saved[q])' = Images(q, saved[q])
    BY <1>0, <1>3 DEF IInv, TypeOK
  <2>2. \A w \in rows' : w.images \subseteq Images(w.by, saved[w.by])'
    BY <1>0, <1>1, <2>1 DEF IInv, TypeOK, Kept
  <2>3. \A q \in Requests :
          /\ at'[q] \in {"save", "insert"} => Images(q, saved[q])' \subseteq blobs'
          /\ at'[q] = "undo" => error'[q] # "none"
          /\ at'[q] \in ({"lock", "find"} \cup AfterFind) \ {"save", "insert"} => saved'[q] = 0
    BY <1>0, <1>2, <2>1 DEF IInv, Kept, AfterFind
  <2> QED BY <1>0, <2>2, <2>3, PlanStays DEF Kept
<1>11. AnsweredIsHeld'
  <2>1. \A q \in Requests : Own(q) \subseteq Own(q)' /\ row \in Own(r)'
    BY <1>3
  <2> QED BY <1>0, <1>2, <2>1, PlanStays DEF IInv, AnsweredIsHeld
<1>12. NoDoubleTime'
  <2>1. \A w \in rows : LockOf(w.by) = LockOf(r) /\ Touch(r, w.by) => ~Clash(r, w.by)
    BY <1>0 DEF IInv, Vetted, AfterTimes
  <2>2. \A w \in rows : LockOf(w.by) = LockOf(r) /\ Touch(w.by, r) => ~Clash(w.by, r)
    BY <2>1, ClashIsMutual DEF IInv, TypeOK
  <2> QED BY <1>0, <1>1, <2>1, <2>2, PlanStays DEF IInv, TypeOK, NoDoubleTime
<1>13. ErasedStaysErased'
  BY <1>0, <1>1, PlanStays DEF IInv, TypeOK, ErasedStaysErased, Cleared, AfterTombstone, AfterFind
<1>14. NothingTorn'
  BY <1>0, <1>1, <1>2, <1>4 DEF IInv, TypeOK, NothingTorn, Kept
<1> QED BY <1>4, <1>5, <1>6, <1>8, <1>9, <1>10, <1>11, <1>12, <1>13, <1>14 DEF IInv

-------------------------------------------------------------------------------
(* Cleaning up, crashes *)

\* Request r takes back images of its own; nothing else is touched.
LEMMA CleanKeeps ==
  ASSUME IInv, NEW r \in Requests, DeleteBlobs(r) \/ DeleteBlobsFails(r)
  PROVE  IInv'
<1>0. /\ UNCHANGED <<plan, answer, archived, saved, error, rows, erased, deleting, touched>>
      /\ at[r] = "undo" /\ at' = [at EXCEPT ![r] = "winner"]
      /\ blobs \ blobs' \subseteq {Blob(r, n) : n \in Nat}
      /\ trouble' \in Nat
  BY DEF DeleteBlobs, DeleteBlobsFails, Goto, Fault, ownerVars, Images, IInv, TypeOK
<1>1. \A q \in Requests : q # r => at'[q] = at[q]
  BY <1>0 DEF IInv, TypeOK
<1>2. \A q \in Requests : Own(q)' = Own(q)
  BY <1>0, PlanStays DEF IInv, TypeOK, Own
<1>3. \A q \in Requests : Images(q, saved[q])' = Images(q, saved[q])
  BY <1>0 DEF Images, Blob
<1>4. \A q \in Requests, x \in blobs : q # r /\ x \in Images(q, saved[q]) => x \in blobs'
  BY <1>0 DEF Images, Blob
<1>5. \A w \in rows : w.by \in Requests
  BY DEF IInv, TypeOK
<1>6. TypeOK'
  <2>1. Requests' = Requests /\ at \in [Requests -> Steps]
    BY <1>0, PlanStays DEF IInv, TypeOK
  <2>2. at' \in [Requests' -> Steps]
    BY <1>0, <2>1 DEF Steps
  <2> QED BY <1>0, <1>5, <2>2, PlanStays DEF IInv, TypeOK
<1>7. OneHolder'
  <2>1. \A q \in Requests : Holds(q)' => Holds(q)
    BY <1>0, <1>1 DEF Holds
  <2> QED BY <1>0, <2>1, PlanStays DEF IInv, OneHolder
<1>8. Placed'
  BY <1>0, <1>1, <1>5 DEF IInv, TypeOK, Placed
<1>15. \A q \in Requests : at'[q] \in AfterFind => at'[q] = at[q]
  <2>1. at'[r] = "winner"
    BY <1>0 DEF IInv, TypeOK
  <2> QED BY <1>1, <2>1 DEF AfterFind
<1>9. Cleared'
  BY <1>0, <1>2, <1>15, PlanStays DEF IInv, Cleared, AfterTombstone
<1>10. Vetted'
  BY <1>0, <1>5, <1>15, PlanStays DEF IInv, Vetted, AfterTimes, AfterFind
<1>11. Kept'
  <2>1. \A w \in rows' : w.images \subseteq Images(w.by, saved[w.by])'
    BY <1>0, <1>3, <1>5 DEF IInv, Kept
  <2>2. \A q \in Requests : at'[q] \in {"save", "insert"} => Images(q, saved[q])' \subseteq blobs'
    <3>1. \A q \in Requests : at'[q] \in {"save", "insert"} => q # r
      BY <1>0 DEF IInv, TypeOK
    <3> QED BY <1>1, <1>3, <1>4, <3>1 DEF IInv, Kept
  <2>3. \A q \in Requests :
          /\ at'[q] = "undo" => error'[q] # "none"
          /\ at'[q] \in ({"lock", "find"} \cup AfterFind) \ {"save", "insert"} => saved'[q] = 0
    BY <1>0, <1>1 DEF IInv, TypeOK, Kept, AfterFind
  <2> QED BY <1>0, <2>1, <2>2, <2>3, PlanStays DEF Kept
<1>12. AnsweredIsHeld' /\ ErasedStaysErased'
  BY <1>0, <1>2, <1>5, PlanStays DEF IInv, AnsweredIsHeld, ErasedStaysErased
<1>13. NoDoubleTime'
  BY <1>0, <1>5, PlanStays DEF IInv, NoDoubleTime
<1>14. NothingTorn'
  <2>1. error[r] # "none"
    BY <1>0 DEF IInv, Kept
  <2>2. \A w \in rows : error[w.by] = "none" => w.by # r /\ w.images \subseteq Images(w.by, saved[w.by])
    BY <2>1 DEF IInv, Kept
  <2> QED BY <1>0, <1>4, <1>5, <2>2 DEF IInv, NothingTorn
<1> QED BY <1>6, <1>7, <1>8, <1>9, <1>10, <1>11, <1>12, <1>13, <1>14 DEF IInv

LEMMA CrashKeeps ==
  ASSUME IInv, NEW i, Crash(i)
  PROVE  IInv'
<1> DEFINE lost == {r \in Requests : plan.of[r].instance = i /\ Holds(r)}
<1>0. /\ UNCHANGED <<plan, archived, saved, error, rows, blobs, erased, deleting, touched>>
      /\ at' = [r \in Requests |-> IF r \in lost THEN "done" ELSE at[r]]
      /\ answer' = [r \in Requests |-> IF r \in lost THEN "lost" ELSE answer[r]]
      /\ trouble' \in Nat
  BY DEF Crash, Fault, ownerVars, IInv, TypeOK
<1> HIDE DEF lost
<1>1. \A q \in Requests : \/ at'[q] = at[q] /\ answer'[q] = answer[q]
                          \/ at'[q] = "done" /\ answer'[q] = "lost"
  BY <1>0
<1>2. \A q \in Requests : Own(q)' = Own(q) /\ Images(q, saved[q])' = Images(q, saved[q])
  BY <1>0, PlanStays DEF IInv, TypeOK, Own, Images, Blob
<1>3. \A w \in rows : w.by \in Requests
  BY DEF IInv, TypeOK
<1>4. TypeOK'
  <2>1. at' \in [Requests' -> Steps] /\ answer' \in [Requests' -> Answers]
    BY <1>0, PlanStays DEF IInv, TypeOK, Steps, Answers
  <2> QED BY <1>0, <1>3, <2>1, PlanStays DEF IInv, TypeOK
<1>5. OneHolder'
  BY <1>0, <1>1, PlanStays DEF IInv, OneHolder, Holds
<1>6. Placed'
  BY <1>0, <1>1, <1>3 DEF IInv, Placed
<1>7. Cleared'
  BY <1>0, <1>1, <1>2, PlanStays DEF IInv, Cleared, AfterTombstone, AfterFind
<1>8. Vetted'
  BY <1>0, <1>1, <1>3, PlanStays DEF IInv, Vetted, AfterTimes
<1>9. Kept'
  BY <1>0, <1>1, <1>2, <1>3, PlanStays DEF IInv, Kept, AfterFind
<1>10. AnsweredIsHeld' /\ ErasedStaysErased'
  BY <1>0, <1>1, <1>2, <1>3, PlanStays DEF IInv, AnsweredIsHeld, ErasedStaysErased
<1>11. NoDoubleTime' /\ NothingTorn'
  BY <1>0, <1>3, PlanStays DEF IInv, NoDoubleTime, NothingTorn
<1> QED BY <1>4, <1>5, <1>6, <1>7, <1>8, <1>9, <1>10, <1>11 DEF IInv

-------------------------------------------------------------------------------
(* Owners *)

\* A step that leaves the requests, the rows and the images alone.
LEMMA DeleteBeginsOrFails ==
  ASSUME IInv, UNCHANGED <<plan, requestVars, rows, blobs, erased>>, trouble' \in Nat,
         \/ UNCHANGED <<deleting, touched>>
         \/ deleting' = Nobody /\ touched' = touched
         \/ \E w \in rows, whole \in BOOLEAN : deleting' = [row |-> w, whole |-> whole]
                                               /\ touched' = touched \cup {w.by}
  PROVE  IInv'
<1> USE DEF requestVars
<1>1. \A q \in Requests : Own(q)' = Own(q) /\ Images(q, saved[q])' = Images(q, saved[q])
  BY PlanStays DEF IInv, TypeOK, Own, Images, Blob
<1>2. /\ \A w \in rows : w.by \in Requests /\ w = [by |-> w.by, images |-> w.images]
      /\ touched \subseteq touched'
  BY DEF IInv, TypeOK
<1>3. TypeOK'
  <2>1. deleting' # Nobody => deleting'.row = [by |-> deleting'.row.by,
                                               images |-> deleting'.row.images]
    BY <1>2 DEF IInv, TypeOK
  <2> QED BY <1>2, <2>1, PlanStays DEF IInv, TypeOK
<1>4. OneHolder' /\ Placed'
  <2>1. OneHolder'
    BY PlanStays DEF IInv, OneHolder, Holds
  <2> QED BY <2>1 DEF IInv, Placed
<1>5. Cleared'
  BY <1>1, PlanStays DEF IInv, Cleared
<1>6. Vetted' /\ Kept'
  BY <1>1, <1>2, PlanStays DEF IInv, Vetted, Kept
<1>7. AnsweredIsHeld' /\ ErasedStaysErased'
  BY <1>1, <1>2, PlanStays DEF IInv, AnsweredIsHeld, ErasedStaysErased
<1>8. NoDoubleTime' /\ NothingTorn'
  BY <1>2, PlanStays DEF IInv, NoDoubleTime, NothingTorn
<1> QED BY <1>3, <1>4, <1>5, <1>6, <1>7, <1>8 DEF IInv

LEMMA DeleteFileKeeps ==
  ASSUME IInv, NEW x \in blobs, DeleteFile(x)
  PROVE  IInv'
<1> USE DEF DeleteFile, requestVars, ownerVars
<1>1. \A q \in Requests : Own(q)' = Own(q) /\ Images(q, saved[q])' = Images(q, saved[q])
  BY PlanStays DEF IInv, TypeOK, Own, Images, Blob
<1>2. \A w \in rows : w.by \in Requests
  BY DEF IInv, TypeOK
<1>3. PICK w \in rows : x \in Images(w.by, saved[w.by]) /\ w.by \in touched
  BY DEF IInv, Placed, Kept
<1>4. \A q \in Requests : q # w.by => x \notin Images(q, saved[q])
  BY <1>3 DEF Images, Blob
<1>5. TypeOK'
  BY <1>2, PlanStays DEF IInv, TypeOK
<1>6. OneHolder' /\ Placed'
  <2>1. OneHolder'
    BY PlanStays DEF IInv, OneHolder, Holds
  <2> QED BY <2>1 DEF IInv, Placed
<1>7. Cleared' /\ Vetted'
  BY <1>1, <1>2, PlanStays DEF IInv, Cleared, Vetted
<1>8. Kept'
  <2>1. at[w.by] \notin {"save", "insert"}
    BY DEF IInv, Placed
  <2>2. \A q \in Requests : at[q] \in {"save", "insert"} => Images(q, saved[q]) \subseteq blobs'
    BY <1>4, <2>1 DEF IInv, Kept
  <2> QED BY <1>1, <1>2, <2>2, PlanStays DEF IInv, Kept
<1>9. AnsweredIsHeld' /\ ErasedStaysErased'
  BY <1>1, <1>2, PlanStays DEF IInv, AnsweredIsHeld, ErasedStaysErased
<1>10. NoDoubleTime'
  BY <1>2, PlanStays DEF IInv, NoDoubleTime
<1>11. NothingTorn'
  BY <1>2, <1>3, <1>4 DEF IInv, NothingTorn, Kept
<1> QED BY <1>5, <1>6, <1>7, <1>8, <1>9, <1>10, <1>11 DEF IInv

LEMMA DeletedKeeps ==
  ASSUME IInv, Deleted
  PROVE  IInv'
<1> DEFINE old == deleting.row
           bare == [by |-> old.by, images |-> {}]
<1>0. /\ UNCHANGED <<plan, requestVars, blobs, touched, trouble>>
      /\ old \in rows /\ old.by \in touched /\ old.by \in Requests
      /\ deleting' = Nobody
      /\ \/ rows' = rows \ {old} /\ erased' = erased \cup {Key(old.by)}
         \/ rows' = (rows \ {old}) \cup {bare} /\ erased' = erased
  <2>1. deleting # Nobody /\ old \in rows /\ old = [by |-> old.by, images |-> old.images]
    BY DEF Deleted, IInv, TypeOK, Placed
  <2>2. [old EXCEPT !.images = {}] = bare
    BY <2>1
  <2> QED BY <2>1, <2>2 DEF Deleted, IInv, TypeOK, Placed
<1>1. bare.by = old.by /\ bare.images = {} /\ bare = [by |-> bare.by, images |-> bare.images]
  OBVIOUS
<1> HIDE DEF old, bare
<1> USE DEF requestVars
<1>2. \A w \in rows : w.by \in Requests
  BY DEF IInv, TypeOK
<1>3. \A w \in rows' : w \in rows \/ (w = bare /\ erased' = erased)
  BY <1>0
<1>4. \A w \in rows' : w.by \in Requests /\ \E v \in rows : v.by = w.by
  BY <1>0, <1>1, <1>2, <1>3
<1>5. \A v, w \in rows : Key(v.by) = Key(w.by) => v = w
  BY DEF IInv, TypeOK
<1>6. \A w \in rows' : w # bare \/ erased' # erased => Key(w.by) # Key(old.by)
  BY <1>0, <1>3, <1>5
<1>7. \A q \in Requests :
        /\ Own(q) = {} => Own(q)' = {}
        /\ Own(q) # {} => Own(q)' # {} \/ Key(q) \in erased'
  <2>1. ASSUME NEW q \in Requests, Own(q) = {} PROVE Own(q)' = {}
    BY <1>4, <2>1, PlanStays, <1>0 DEF Own
  <2>2. ASSUME NEW q \in Requests, NEW w \in Own(q) PROVE Own(q)' # {} \/ Key(q) \in erased'
    <3>1. CASE w = old
      BY <1>0, <1>1, <2>2, <3>1, PlanStays DEF Own
    <3>2. CASE w # old
      BY <1>0, <1>2, <2>2, <3>2, PlanStays DEF Own
    <3> QED BY <3>1, <3>2
  <2> QED BY <2>1, <2>2
<1>8. TypeOK'
  <2>1. \A v, w \in rows' : Key(v.by)' = Key(w.by)' => v = w
    BY <1>0, <1>1, <1>3, <1>4, <1>5, <1>6, PlanStays
  <2>2. \A w \in rows' : w = [by |-> w.by, images |-> w.images]
    BY <1>1, <1>3 DEF IInv, TypeOK
  <2> QED BY <1>0, <1>4, <2>1, <2>2, PlanStays DEF IInv, TypeOK
<1>9. OneHolder' /\ Placed'
  <2>1. OneHolder'
    BY <1>0, PlanStays DEF IInv, OneHolder, Holds
  <2>2. \A w \in rows' : at'[w.by] \in {"undo", "winner", "done"}
    BY <1>0, <1>4 DEF IInv, Placed
  <2> QED BY <1>0, <2>1, <2>2 DEF Placed
<1>10. Cleared'
  <2>1. ASSUME plan.shared, NEW q \in Requests, at[q] \in AfterTombstone PROVE Key(q) # Key(old.by)
    BY <1>0, <2>1 DEF IInv, Cleared, AfterTombstone, Own
  <2> QED BY <1>0, <1>7, <2>1, PlanStays DEF IInv, Cleared
<1>11. Vetted'
  <2>1. \A q \in Requests : at[q] \in AfterTimes =>
          \A w \in rows' : LockOf(w.by) = LockOf(q) /\ Touch(q, w.by) => ~Clash(q, w.by)
    BY <1>4 DEF IInv, Vetted
  <2> QED BY <1>0, <1>4, <2>1, PlanStays DEF IInv, Vetted
<1>12. Kept'
  <2>1. \A q \in Requests : Images(q, saved[q])' = Images(q, saved[q])
    BY <1>0 DEF Images, Blob
  <2>2. \A w \in rows' : w.images \subseteq Images(w.by, saved[w.by])
    BY <1>1, <1>3 DEF IInv, Kept
  <2> QED BY <1>0, <1>4, <2>1, <2>2, PlanStays DEF IInv, Kept
<1>13. AnsweredIsHeld'
  BY <1>0, <1>7, PlanStays DEF IInv, AnsweredIsHeld
<1>14. NoDoubleTime'
  <2>1. \A v, w \in rows' : v # w => v.by # w.by
    BY <1>0, <1>1, <1>3, <1>5, <1>6
  <2>2. ASSUME NEW v \in rows', NEW w \in rows', v # w, LockOf(v.by) = LockOf(w.by),
               Touch(v.by, w.by)
        PROVE  ~Clash(v.by, w.by)
    <3>1. PICK x \in rows : x.by = v.by
      BY <1>4
    <3>2. PICK y \in rows : y.by = w.by
      BY <1>4
    <3> QED BY <2>1, <2>2, <3>1, <3>2 DEF IInv, NoDoubleTime
  <2> QED BY <1>0, <1>4, <2>2, PlanStays DEF NoDoubleTime
<1>15. ErasedStaysErased'
  BY <1>0, <1>1, <1>3, <1>4, <1>6, PlanStays DEF IInv, ErasedStaysErased
<1>16. NothingTorn'
  BY <1>0, <1>1, <1>3 DEF IInv, NothingTorn
<1> QED BY <1>8, <1>9, <1>10, <1>11, <1>12, <1>13, <1>14, <1>15, <1>16 DEF IInv

-------------------------------------------------------------------------------
LEMMA NextKeeps == IInv /\ [Next]_vars => IInv'
<1> SUFFICES ASSUME IInv, [Next]_vars PROVE IInv'
  OBVIOUS
<1>1. ASSUME NEW r \in Requests, CreateAsync(r) PROVE IInv'
  BY <1>1, ChecksMove, StoringMoves, MoveKeeps, SaveKeeps, StoreKeeps, CleanKeeps
     DEF CreateAsync, StoreAsync
<1>2. ASSUME NEW i \in {plan.of[r].instance : r \in Requests}, Crash(i) PROVE IInv'
  BY <1>2, CrashKeeps
<1>3. CASE Owner
  <2> USE DEF storeVars, Fault
  <2>1. trouble \in Nat
    BY DEF IInv, TypeOK
  <2>2. CASE \E what \in {"device", "project", "subscription"} : Deny(what)
    BY <2>1, <2>2, DeleteBeginsOrFails DEF Deny
  <2>3. CASE \E b \in Blocks : Archive(Times[b].from)
    BY <2>1, <2>3, DeleteBeginsOrFails DEF Archive
  <2>4. CASE \E w \in rows, whole \in BOOLEAN : Delete(w, whole)
    BY <2>1, <2>4, DeleteBeginsOrFails DEF Delete
  <2>5. CASE \E x \in blobs : DeleteFile(x)
    BY <2>5, DeleteFileKeeps
  <2>6. CASE DeleteFails
    BY <2>1, <2>6, DeleteBeginsOrFails DEF DeleteFails
  <2>7. CASE Deleted
    BY <2>7, DeletedKeeps
  <2> QED BY <1>3, <2>2, <2>3, <2>4, <2>5, <2>6, <2>7 DEF Owner
<1>4. CASE UNCHANGED vars
  BY <1>4, DeleteBeginsOrFails DEF vars, requestVars, IInv, TypeOK
<1> QED BY <1>1, <1>2, <1>3, <1>4 DEF Next

LEMMA SpecKeeps == Spec => []IInv
  BY InitIInv, NextKeeps, PTL DEF Spec

(* The variables have the values they are meant to have, and a member's block *)
(* is stored at most once.                                                    *)
THEOREM IngestTypes == Spec => []TypeOK
<1>1. IInv => TypeOK BY DEF IInv
<1> QED BY SpecKeeps, <1>1, PTL

(* An answer that lets the device drop its copy is true, however many uploads *)
(* of the block race, fail or are repeated.                                   *)
THEOREM AnswersAreTrue == Spec => []AnsweredIsHeld
<1>1. IInv => AnsweredIsHeld BY DEF IInv
<1> QED BY SpecKeeps, <1>1, PTL

(* The ingest lock makes the overlap check, which reads and then writes, safe. *)
THEOREM TimeCountsOnce == Spec => []NoDoubleTime
<1>1. IInv => NoDoubleTime BY DEF IInv
<1> QED BY SpecKeeps, <1>1, PTL

(* With shared locks no upload passes the record of a deleted block.          *)
THEOREM DeletedForGood == Spec => []ErasedStaysErased
<1>1. IInv => ErasedStaysErased BY DEF IInv
<1> QED BY SpecKeeps, <1>1, PTL

(* Cleaning up after a failed upload never takes the images of a stored one.  *)
THEOREM ImagesStay == Spec => []NothingTorn
<1>1. IInv => NothingTorn BY DEF IInv
<1> QED BY SpecKeeps, <1>1, PTL

-------------------------------------------------------------------------------
(* No image stays behind unseen *)

\* The requests whose images are still theirs to store or to clean up.
Storing(r) == at[r] \in {"save", "insert", "undo"}

\* A request that has cleaned up, or is done, leaves nothing that no row names.
Seen ==
  \A x \in blobs \ orphans :
    \/ \E w \in rows : x \in w.images
    \/ \E r \in Requests : Storing(r) /\ x \in Images(r, saved[r])

\* The step of a request that puts no image into the store keeps every image
\* seen if its own images stay its own, or are in a row, or are written off.
LEMMA RequestKeepsSeen ==
  ASSUME Seen, UNCHANGED <<plan, saved>>, rows \subseteq rows',
         blobs' \ orphans' \subseteq blobs \ orphans,
         NEW r \in Requests, \A q \in Requests : q # r => at'[q] = at[q],
         Storing(r) /\ ~Storing(r)' =>
           \A x \in Images(r, saved[r]) \cap (blobs' \ orphans') : \E w \in rows' : x \in w.images
  PROVE  Seen'
<1>1. /\ Requests' = Requests
      /\ \A q \in Requests : Images(q, saved[q])' = Images(q, saved[q])
      /\ \A q \in Requests : q # r => Storing(q)' = Storing(q)
  BY DEF Requests, Images, Blob, Storing
<1>2. SUFFICES ASSUME NEW x \in blobs' \ orphans'
               PROVE  \/ \E w \in rows' : x \in w.images
                      \/ \E q \in Requests : Storing(q)' /\ x \in Images(q, saved[q])
  BY <1>1 DEF Seen
<1>3. \/ \E w \in rows : x \in w.images
      \/ \E q \in Requests : Storing(q) /\ x \in Images(q, saved[q])
  BY DEF Seen
<1> QED BY <1>1, <1>3

\* A request's steps keep every image seen.
LEMMA CreateKeepsSeen ==
  ASSUME TypeOK, Seen, NEW r \in Requests, CreateAsync(r)
  PROVE  Seen'
<1> USE DEF storeVars, ownerVars
<1>1. CASE Acquire(r) \/ GiveUp(r) \/ Checks(r)
  <2>1. /\ UNCHANGED <<plan, saved, rows, blobs, orphans>> /\ ~Storing(r)
        /\ \E step : at' = [at EXCEPT ![r] = step]
    BY <1>1 DEF Acquire, GiveUp, Checks, FindOwnBlock, IsBlockErased, EnsureCanIngest,
                GetUploadProject, ClientIdConflict, ValidateTimes, Subscribed, Check, Goto, Answer,
                Storing
  <2> QED BY <2>1, RequestKeepsSeen DEF TypeOK
<1>2. CASE SaveImage(r)
  <2>1. /\ UNCHANGED <<plan, at, rows, orphans>> /\ Storing(r) /\ saved[r] \in Nat
        /\ blobs' = blobs \cup {Blob(r, saved[r] + 1)}
        /\ saved' = [saved EXCEPT ![r] = saved[r] + 1]
    BY <1>2 DEF SaveImage, Storing, TypeOK
  <2>2. /\ Requests' = Requests /\ \A q \in Requests : Storing(q)' = Storing(q)
        /\ \A q \in Requests : q # r => saved'[q] = saved[q]
        /\ saved'[r] = saved[r] + 1
    BY <2>1 DEF Requests, Storing, TypeOK
  <2>3. \A q \in Requests : Images(q, saved[q]) \subseteq Images(q, saved[q])'
    BY <2>1, <2>2 DEF Images, Blob
  <2>4. Blob(r, saved[r] + 1) \in Images(r, saved[r])'
    BY <2>1, <2>2 DEF Images, Blob
  <2>5. SUFFICES ASSUME NEW x \in blobs' \ orphans'
                 PROVE  \/ \E w \in rows : x \in w.images
                        \/ \E q \in Requests : Storing(q) /\ x \in Images(q, saved[q])'
    BY <2>1, <2>2 DEF Seen
  <2>6. CASE x \in blobs
    BY <2>1, <2>3, <2>6 DEF Seen
  <2>7. CASE x = Blob(r, saved[r] + 1)
    BY <2>1, <2>4, <2>7
  <2> QED BY <2>1, <2>6, <2>7
<1>3. CASE Saved(r) \/ InsertRefused(r) \/ InsertFails(r) \/ Winner(r) \/ SaveFails(r)
  <2>1. /\ UNCHANGED <<plan, saved, rows>> /\ blobs' \ orphans' \subseteq blobs \ orphans
        /\ \E step : at' = [at EXCEPT ![r] = step] /\ (Storing(r) => step \in {"insert", "undo"})
    BY <1>3 DEF Saved, InsertRefused, InsertFails, Winner, SaveFails, Goto, Answer, Storing
  <2>2. Storing(r) => Storing(r)'
    BY <2>1 DEF Storing, TypeOK
  <2>3. \A q \in Requests : q # r => at'[q] = at[q]
    BY <2>1 DEF TypeOK
  <2> QED BY <2>1, <2>2, <2>3, RequestKeepsSeen
<1>4. CASE Insert(r) \/ CommitUnheard(r)
  <2>1. /\ UNCHANGED <<plan, saved, blobs, orphans>> /\ rows' = rows \cup {NewRow(r)}
        /\ \E step : at' = [at EXCEPT ![r] = step]
    BY <1>4 DEF Insert, CommitUnheard, Goto, Answer
  <2>2. NewRow(r) \in rows' /\ NewRow(r).images = Images(r, saved[r])
    BY <2>1 DEF NewRow
  <2> QED BY <2>1, <2>2, RequestKeepsSeen DEF TypeOK
<1>5. CASE DeleteBlobs(r) \/ DeleteBlobsFails(r)
  <2>1. /\ UNCHANGED <<plan, saved, rows>> /\ at' = [at EXCEPT ![r] = "winner"]
        /\ blobs' \ orphans' \subseteq blobs \ orphans
        /\ Images(r, saved[r]) \cap (blobs' \ orphans') = {}
    BY <1>5 DEF DeleteBlobs, DeleteBlobsFails, Goto
  <2> QED BY <2>1, RequestKeepsSeen DEF TypeOK
<1> QED BY <1>1, <1>2, <1>3, <1>4, <1>5 DEF CreateAsync, StoreAsync

\* Neither a crash nor an owner hides an image.
LEMMA NextKeepsSeen == TypeOK /\ Seen /\ [Next]_vars => Seen'
<1> SUFFICES ASSUME TypeOK, Seen, [Next]_vars PROVE Seen'
  OBVIOUS
<1>1. ASSUME NEW r \in Requests, CreateAsync(r) PROVE Seen'
  BY <1>1, CreateKeepsSeen
<1>2. ASSUME NEW i \in {plan.of[r].instance : r \in Requests}, Crash(i) PROVE Seen'
  <2> DEFINE lost == {r \in Requests : plan.of[r].instance = i /\ Holds(r)}
  <2>1. /\ UNCHANGED <<plan, saved, rows, blobs>>
        /\ at' = [r \in Requests |-> IF r \in lost THEN "done" ELSE at[r]]
        /\ orphans' = orphans \cup (blobs \cap UNION {Images(r, saved[r]) : r \in lost})
    BY <1>2 DEF Crash
  <2>2. /\ Requests' = Requests
        /\ \A q \in Requests : Images(q, saved[q])' = Images(q, saved[q])
        /\ \A q \in Requests : q \notin lost => Storing(q)' = Storing(q)
    BY <2>1 DEF Requests, Images, Blob, Storing
  <2> HIDE DEF lost
  <2>3. ASSUME NEW q \in Requests, NEW x \in blobs, q \in lost, x \in Images(q, saved[q])
        PROVE  x \in orphans'
    BY <2>1, <2>3
  <2> QED BY <2>1, <2>2, <2>3 DEF Seen
<1>3. CASE Owner
  <2>1. UNCHANGED <<plan, requestVars>>
    BY <1>3 DEF Owner, Deny, Archive, Delete, DeleteFile, DeleteFails, Deleted
  <2>2. /\ Requests' = Requests
        /\ \A q \in Requests : Images(q, saved[q])' = Images(q, saved[q])
        /\ \A q \in Requests : Storing(q)' = Storing(q)
    BY <2>1 DEF Requests, Images, Blob, Storing, requestVars
  <2>3. blobs' \subseteq blobs /\ orphans' = orphans
    BY <1>3 DEF Owner, Deny, Archive, Delete, DeleteFile, DeleteFails, Deleted, storeVars
  <2>4. ASSUME NEW w \in rows, NEW x \in w.images, x \in blobs' PROVE \E v \in rows' : x \in v.images
    <3>1. CASE Deleted
      <4>1. w # deleting.row
        BY <2>3, <2>4, <3>1 DEF Deleted
      <4> QED BY <2>4, <3>1, <4>1 DEF Deleted
    <3>2. CASE ~Deleted
      <4>1. rows' = rows
        BY <1>3, <3>2 DEF Owner, Deny, Archive, Delete, DeleteFile, DeleteFails, storeVars
      <4> QED BY <2>4, <4>1
    <3> QED BY <3>1, <3>2
  <2> QED BY <2>2, <2>3, <2>4 DEF Seen
<1>4. CASE UNCHANGED vars
  BY <1>4 DEF vars, Seen, Storing, Requests, Images, Blob
<1> QED BY <1>1, <1>2, <1>3, <1>4 DEF Next

(* No image stays behind unseen: what no stored block names and no upload in  *)
(* progress will store or clean up was left by a crash or a failed call to    *)
(* the store; a refused duplicate or a deletion leaves nothing.               *)
THEOREM NothingHidden == Spec => []NoHiddenImages
<1>1. Init => Seen
  BY DEF Init, Seen
<1>2. IInv => TypeOK
  BY DEF IInv
<1>3. Seen => NoHiddenImages
  BY DEF Seen, NoHiddenImages, Storing, Holds
<1> QED BY SpecKeeps, NextKeepsSeen, <1>1, <1>2, <1>3, PTL DEF Spec
================================================================================
