----------------------------- MODULE ConsentProofs -----------------------------
(***************************************************************************)
(* Proofs about Consent.tla, for any workspaces, choices and faults: what  *)
(* applies was saved first, the sensors follow the user's choice from the  *)
(* moment it is made, a failed save stops everything, and no screenshot    *)
(* outlives the permission it was asked for under.                         *)
(***************************************************************************)
EXTENDS Consent, TLAPS

Life == [state : {"unconfigured", "stopped", "tracking"}, generation : Nat,
         policy : SUBSET Capabilities]
Image == [generation : Nat, asked : Nat]
Answer == [block : Nat, image : Image, some : BOOLEAN]

Typed ==
  /\ disk \in Choices \cup {Unreadable} /\ manager \in Choices /\ consent \in Choices
  /\ choice \in Choices /\ wish \in Choices
  /\ life \in Life /\ project \in SUBSET Capabilities
  /\ pc \in {"idle", "narrowed", "written", "saved", "unsaved"} /\ tightened \in Nat
  /\ plan \in Plans /\ running \in BOOLEAN /\ unsynced \in BOOLEAN
  /\ camera \in [busy : BOOLEAN, block : Nat, image : Image]
  /\ answers \in Seq(Answer)
  /\ screens \in SUBSET [block : Nat, image : Image]
  /\ block.id \in Nat /\ lastBlock \in Nat

\* What was added waits for the file.
Saves ==
  /\ WideningWaits
  /\ running /\ pc \in {"written", "saved"} => choice.perms \subseteq disk.perms

\* What was taken back is gone at once.
Follows ==
  /\ ~running => pc = "idle"
  /\ running =>
       /\ consent.perms \subseteq wish.perms /\ session = consent.perms \cap project
       /\ pc # "idle" => wish = choice
       /\ life.policy \subseteq wish.perms \cap project
       /\ listening => "keyboard" \in life.policy

\* Between two choices tracking goes by the last one.
Synced ==
  running /\ pc = "idle" =>
    /\ ~unsynced => consent = wish
    /\ life.state = "tracking" => life.policy = wish.perms \cap project

\* Screenshots not queued yet.
Alive ==
  {camera.image : x \in {y \in {0} : camera.busy}}
    \cup {answers[i].image : i \in DOMAIN answers} \cup {s.image : s \in screens}

\* One with the generation of the lifecycle was asked for since the last time
\* that screenshots were taken back.
Fresh ==
  /\ ~running => Alive = {}
  /\ \A i \in Alive :
       /\ i.generation <= life.generation
       /\ i.generation = life.generation /\ life.state = "tracking" => i.asked = tightened

-------------------------------------------------------------------------------
(* The operators *)

LEMMA ElementsAre ==
  ASSUME NEW S, NEW s \in Seq(S), NEW i \in DOMAIN s
  PROVE  s[i] \in S
  OBVIOUS

LEMMA AnswersAre ==
  ASSUME NEW s \in Seq(Answer), NEW i \in DOMAIN s
  PROVE  s[i] \in Answer /\ s[i].image \in Image
<1>1. s[i] \in Answer
  BY ElementsAre
<1> QED BY <1>1 DEF Answer

LEMMA ChoicesHavePerms ==
  ASSUME NEW c \in Choices \cup {Unreadable}
  PROVE  /\ c.perms \in SUBSET Capabilities
         /\ c.given # "granted" => c.perms = {}
  BY DEF Choices, Absent, Revoked, Granted, Unreadable

LEMMA NarrowedIsLess ==
  ASSUME NEW current \in Choices, NEW target \in Choices
  PROVE  /\ Narrowed(current, target) \in Choices
         /\ Narrowed(current, target).perms \subseteq current.perms \cap target.perms
<1>1. CASE target.given = "granted" /\ current.given = "granted"
  <2>1. Narrowed(current, target) = Granted(current.perms \cap target.perms)
    BY <1>1 DEF Narrowed
  <2>2. current.perms \cap target.perms \in SUBSET Capabilities
    BY ChoicesHavePerms
  <2> QED BY <2>1, <2>2 DEF Choices, Granted
<1>2. CASE target.given = "granted" /\ current.given # "granted"
  BY <1>2, ChoicesHavePerms DEF Narrowed
<1>3. CASE target.given # "granted"
  BY <1>3, ChoicesHavePerms DEF Narrowed
<1> QED BY <1>1, <1>2, <1>3

\* A lifecycle step leaves everything alone or begins a new generation.
Renews(l, k) == k = l \/ k.generation > l.generation

LEMMA RenewedIsNew ==
  ASSUME NEW l \in Life
  PROVE  /\ Renewed(l) \in Life /\ Renewed(l).generation = l.generation + 1
         /\ Renewed(l).state = l.state /\ Renewed(l).policy = l.policy
  BY DEF Life, Renewed

LEMMA StopsAre ==
  ASSUME NEW l \in Life, NEW s \in {"stopped", "tracking"}
  PROVE  /\ [l EXCEPT !.state = s] \in Life /\ [l EXCEPT !.state = s].state = s
         /\ [l EXCEPT !.state = s].generation = l.generation
         /\ [l EXCEPT !.state = s].policy = l.policy
  BY DEF Life

LEMMA ConfiguredApplies ==
  ASSUME NEW l \in Life, NEW m, NEW perms \in SUBSET Capabilities
  PROVE  /\ Configured(l, m, perms) \in Life /\ Configured(l, m, perms).policy = perms
         /\ Renews(l, Configured(l, m, perms))
<1> DEFINE c == [Renewed(l) EXCEPT !.policy = perms]
<1>1. c \in Life /\ c.policy = perms /\ c.generation = l.generation + 1
  BY RenewedIsNew DEF Life
<1>2. l.generation \in Nat
  BY DEF Life
<1> HIDE DEF c
<1>3. Configured(l, m, perms) \in {c, [c EXCEPT !.state = "stopped"]} \/
        (l.policy = perms /\ Configured(l, m, perms) = l)
  BY DEF Configured, c
<1> DEFINE d == [c EXCEPT !.state = "stopped"]
<1>4. d \in Life /\ d.policy = perms /\ d.generation = l.generation + 1
  BY <1>1, StopsAre
<1> HIDE DEF d
<1>5. CASE Configured(l, m, perms) \in {c, d}
  BY <1>1, <1>2, <1>4, <1>5 DEF Renews
<1>6. CASE l.policy = perms /\ Configured(l, m, perms) = l
  BY <1>6 DEF Renews
<1> QED BY <1>3, <1>5, <1>6 DEF d

LEMMA HaltedApplies ==
  ASSUME NEW l \in Life
  PROVE  /\ Halted(l) \in Life /\ Halted(l).policy = l.policy /\ Halted(l).state # "tracking"
         /\ Renews(l, Halted(l))
<1>1. l.generation \in Nat
  BY DEF Life
<1> DEFINE d == [Renewed(l) EXCEPT !.state = "stopped"]
<1>2. d \in Life /\ d.policy = l.policy /\ d.generation = l.generation + 1 /\ d.state = "stopped"
  BY RenewedIsNew, StopsAre
<1> HIDE DEF d
<1>3. Halted(l) = IF l.state = "tracking" THEN d ELSE l
  BY DEF Halted, d
<1> QED BY <1>1, <1>2, <1>3 DEF Renews

LEMMA StartedApplies ==
  ASSUME NEW l \in Life, NEW m
  PROVE  /\ Started(l, m) \in Life /\ Started(l, m).policy = l.policy
         /\ Renews(l, Started(l, m))
<1>1. l.generation \in Nat
  BY DEF Life
<1> DEFINE d == [Renewed(l) EXCEPT !.state = "tracking"]
<1>2. d \in Life /\ d.policy = l.policy /\ d.generation = l.generation + 1
  BY RenewedIsNew, StopsAre
<1> HIDE DEF d
<1>3. Started(l, m) \in {d, l}
  BY DEF Started, d
<1> QED BY <1>1, <1>2, <1>3 DEF Renews

LEMMA OnApplies ==
  ASSUME NEW l \in Life, NEW m, NEW perms \in SUBSET Capabilities
  PROVE  /\ On(l, m, perms) \in Life /\ On(l, m, perms).policy = perms
         /\ Renews(l, On(l, m, perms))
<1> DEFINE c == Configured(l, m, perms)
<1>1. c \in Life /\ c.policy = perms /\ Renews(l, c)
  BY ConfiguredApplies
<1> HIDE DEF c
<1>2. On(l, m, perms) \in {Started(c, m), Halted(c)}
  BY DEF On, c
<1>3. \A k \in {Started(c, m), Halted(c)} : k \in Life /\ k.policy = perms /\ Renews(c, k)
  BY <1>1, StartedApplies, HaltedApplies
<1> QED BY <1>1, <1>2, <1>3 DEF Renews, Life

LEMMA OffApplies ==
  ASSUME NEW l \in Life, NEW m
  PROVE  /\ Off(l, m) \in Life /\ Off(l, m).policy = {} /\ Off(l, m).state # "tracking"
         /\ Renews(l, Off(l, m))
<1> DEFINE c == Configured(l, m, {})
<1>1. c \in Life /\ c.policy = {} /\ Renews(l, c)
  BY ConfiguredApplies
<1> HIDE DEF c
<1>2. Off(l, m) = Halted(c)
  BY DEF Off, c
<1> QED BY <1>1, <1>2, HaltedApplies DEF Renews, Life

LEMMA ConsentedRenews ==
  ASSUME NEW l \in Life, NEW m
  PROVE  /\ Consented(l, m) \in Life /\ Consented(l, m).policy = l.policy
         /\ Consented(l, m).generation > l.generation
         /\ Consented(l, m).state = "tracking" => l.state = "tracking"
<1>1. l.generation \in Nat
  BY DEF Life
<1>2. Consented(l, m) \in {Renewed(l), [Renewed(l) EXCEPT !.state = "stopped"]}
  BY DEF Consented
<1> DEFINE r == Renewed(l)
           d == [r EXCEPT !.state = "stopped"]
<1>3. r \in Life /\ r.policy = l.policy /\ r.generation = l.generation + 1 /\ r.state = l.state
  BY RenewedIsNew
<1>4. d \in Life /\ d.policy = l.policy /\ d.generation = l.generation + 1 /\ d.state = "stopped"
  BY <1>3, StopsAre
<1>5. Consented(l, m) \in {r, d}
  BY <1>2
<1> HIDE DEF r, d
<1> QED BY <1>1, <1>3, <1>4, <1>5

\* apply_sensor_policy, whichever way.
LEMMA ApplyApplies ==
  ASSUME Typed, NEW m, NEW active \in BOOLEAN, NEW perms \in SUBSET Capabilities,
         Apply(m, active, perms)
  PROVE  /\ life' \in Life /\ life'.policy = (IF active THEN perms ELSE {})
         /\ Renews(life, life')
         /\ life'.state = "tracking" => active
         /\ listening' => "keyboard" \in life'.policy
         /\ listening' \in BOOLEAN /\ (listening' => active)
<1>1. life \in Life
  BY DEF Typed
<1>2. CASE active
  BY <1>1, <1>2, OnApplies DEF Apply, Listens
<1>3. CASE ~active
  BY <1>1, <1>3, OffApplies DEF Apply, Listens
<1> QED BY <1>2, <1>3

-------------------------------------------------------------------------------
(* The invariant *)

IInv ==
  Typed /\ Saves /\ Follows /\ Synced /\ Fresh /\ FailsClosed /\ NoStaleShot

LEMMA InitIInv == Init => IInv
<1> SUFFICES ASSUME Init PROVE IInv
  OBVIOUS
<1> USE ConsentAssumption DEF Init
<1>1. Typed
  <2>1. Absent \in Choices /\ life \in Life
    BY DEF Choices, Life
  <2>2. /\ camera \in [busy : BOOLEAN, block : Nat, image : Image]
        /\ block.id \in Nat /\ project \in SUBSET Capabilities
    BY DEF NoCamera, Image, NoBlock
  <2>3. answers \in Seq(Answer)
    OBVIOUS
  <2> QED BY <2>1, <2>2, <2>3 DEF Typed
<1>2. Saves /\ Follows /\ Synced /\ FailsClosed /\ NoStaleShot
  BY DEF Saves, WideningWaits, Follows, Synced, FailsClosed, NoStaleShot
<1>3. Fresh
  BY DEF Fresh, Alive, NoCamera
<1> QED BY <1>1, <1>2, <1>3 DEF IInv

\* Screenshots stay fresh while nothing new is asked for or taken back.
LEMMA FreshStays ==
  ASSUME Typed, Fresh, Renews(life, life'), life' \in Life, Alive' \subseteq Alive,
         tightened' = tightened, running' = running
  PROVE  Fresh'
<1>1. \A i \in Alive : i.generation \in Nat
  <2>1. camera.image \in Image
    BY DEF Typed
  <2>2. \A i \in DOMAIN answers : answers[i].image \in Image
    <3>1. answers \in Seq(Answer)
      BY DEF Typed
    <3> QED BY <3>1, AnswersAre
  <2>3. \A s \in screens : s.image \in Image
    BY DEF Typed
  <2> QED BY <2>1, <2>2, <2>3 DEF Alive, Image
<1>2. life.generation \in Nat /\ life'.generation \in Nat
  BY DEF Typed, Life
<1>3. ~running' => Alive' = {}
  BY DEF Fresh
<1>4. ASSUME NEW i \in Alive'
      PROVE  /\ i.generation <= life'.generation
             /\ i.generation = life'.generation /\ life'.state = "tracking" => i.asked = tightened'
  <2>1. i \in Alive /\ i.generation <= life.generation
    BY <1>4 DEF Fresh
  <2>2. CASE life' = life
    BY <2>1, <2>2 DEF Fresh
  <2>3. CASE life'.generation > life.generation
    BY <1>1, <1>2, <2>1, <2>3
  <2> QED BY <2>2, <2>3 DEF Renews
<1> QED BY <1>3, <1>4 DEF Fresh

\* Nothing is waiting for a policy when nothing is permitted.
LEMMA PermsAre ==
  ASSUME Typed
  PROVE  /\ disk.perms \in SUBSET Capabilities /\ manager.perms \in SUBSET Capabilities
         /\ consent.perms \in SUBSET Capabilities /\ choice.perms \in SUBSET Capabilities
         /\ wish.perms \in SUBSET Capabilities /\ project \in SUBSET Capabilities
  BY ChoicesHavePerms DEF Typed

-------------------------------------------------------------------------------
(* Screenshots *)

LEMMA CaptureKeeps ==
  ASSUME IInv, Capture
  PROVE  IInv'
<1> USE DEF Capture, IdleWorker, diskVars, lifeVars, workVars, updateVars, planVars
<1>1. NewImage \in Image /\ NewImage.generation = life.generation /\ NewImage.asked = tightened
  BY DEF IInv, Typed, Life, NewImage, Image
<1>2. camera' \in {camera, [busy |-> TRUE, block |-> block.id, image |-> NewImage]}
  OBVIOUS
<1>3. Typed'
  BY <1>1, <1>2 DEF IInv, Typed
<1>4. Fresh'
  <2>1. Alive' \subseteq Alive \cup {NewImage}
    BY <1>2 DEF Alive
  <2>2. life.generation \in Nat
    BY DEF IInv, Typed, Life
  <2> QED BY <1>1, <2>1, <2>2 DEF IInv, Fresh
<1>5. Saves' /\ Follows' /\ Synced'
  BY DEF IInv, Saves, WideningWaits, Follows, Synced
<1>6. FailsClosed' /\ NoStaleShot'
  BY DEF IInv, FailsClosed, NoStaleShot
<1> QED BY <1>3, <1>4, <1>5, <1>6 DEF IInv

LEMMA TakenKeeps ==
  ASSUME IInv, Taken
  PROVE  IInv'
<1> USE DEF Taken, diskVars, lifeVars, workVars, updateVars, blockVars, planVars
<1>1. PICK some \in BOOLEAN :
        answers' = Append(answers, [block |-> camera.block, image |-> camera.image, some |-> some])
  <2>1. \A good \in BOOLEAN :
          (good /\ Admits(life, manager) /\ camera.image.generation = life.generation) \in BOOLEAN
    BY DEF Admits
  <2> QED BY <2>1
<1>2. camera.block \in Nat /\ camera.image \in Image /\ camera.busy
  BY DEF IInv, Typed
<1>3. Typed'
  <2>1. NoCamera \in [busy : BOOLEAN, block : Nat, image : Image]
    BY DEF NoCamera, Image
  <2>2. [block |-> camera.block, image |-> camera.image, some |-> some] \in Answer
    BY <1>1, <1>2 DEF Answer
  <2>3. answers' \in Seq(Answer)
    BY <1>1, <2>2 DEF IInv, Typed
  <2> QED BY <2>1, <2>3 DEF IInv, Typed
<1>4. Fresh'
  <2>1. ASSUME NEW i \in DOMAIN answers'
        PROVE  answers'[i].image \in Alive
    <3>1. CASE i \in DOMAIN answers
      BY <1>1, <3>1 DEF IInv, Typed, Alive
    <3>2. CASE i = Len(answers) + 1
      <4>1. answers'[i].image = camera.image
        BY <1>1, <3>2 DEF IInv, Typed
      <4> QED BY <1>2, <4>1 DEF Alive
    <3> QED BY <1>1, <2>1, <3>1, <3>2 DEF IInv, Typed
  <2>2. Alive' \subseteq Alive
    BY <2>1 DEF Alive, NoCamera
  <2> QED BY <2>2, FreshStays DEF IInv, Renews, Typed
<1>5. Saves' /\ Follows' /\ Synced'
  BY DEF IInv, Saves, WideningWaits, Follows, Synced
<1>6. FailsClosed' /\ NoStaleShot'
  BY DEF IInv, FailsClosed, NoStaleShot
<1> QED BY <1>3, <1>4, <1>5, <1>6 DEF IInv

LEMMA OnCaptureKeeps ==
  ASSUME IInv, OnCapture
  PROVE  IInv'
<1> USE DEF OnCapture, IdleWorker, diskVars, lifeVars, workVars, updateVars, blockVars, planVars
<1> DEFINE e == Head(answers)
<1>1. /\ answers # <<>> /\ 1 \in DOMAIN answers /\ e = answers[1]
      /\ answers' = Tail(answers)
  <2>1. answers \in Seq(Answer)
    BY DEF IInv, Typed
  <2> QED BY <2>1
<1>2. e \in Answer
  <2>1. answers \in Seq(Answer)
    BY DEF IInv, Typed
  <2> QED BY <1>1, <2>1, AnswersAre
<1>3. screens' \in {screens, screens \cup {[block |-> e.block, image |-> e.image]}}
  OBVIOUS
<1> HIDE DEF e
<1>4. Typed'
  <2>1. answers' \in Seq(Answer)
    BY <1>1 DEF IInv, Typed
  <2>2. [block |-> e.block, image |-> e.image] \in [block : Nat, image : Image]
    BY <1>2 DEF Answer
  <2>3. screens' \in SUBSET [block : Nat, image : Image]
    BY <1>3, <2>2 DEF IInv, Typed
  <2> QED BY <2>1, <2>3 DEF IInv, Typed
<1>5. Fresh'
  <2>1. \A i \in DOMAIN answers' : i + 1 \in DOMAIN answers /\ answers'[i] = answers[i + 1]
    BY <1>1 DEF IInv, Typed
  <2>2. Alive' \subseteq Alive
    BY <1>1, <1>3, <2>1 DEF Alive
  <2> QED BY <2>2, FreshStays DEF IInv, Renews, Typed
<1>6. Saves' /\ Follows' /\ Synced'
  BY DEF IInv, Saves, WideningWaits, Follows, Synced
<1>7. FailsClosed' /\ NoStaleShot'
  <2>1. unsynced => screens' = screens
    BY DEF Current, Permitted
  <2> QED BY <2>1 DEF IInv, FailsClosed, NoStaleShot
<1> QED BY <1>4, <1>5, <1>6, <1>7 DEF IInv

\* A screenshot that is queued was fresh.
LEMMA RecordedIsFresh ==
  ASSUME IInv, running, NEW b, NEW late \in BOOLEAN, NEW permitted
  PROVE  \A r \in Recorded(b, late, life, manager, permitted) : r.asked = r.kept
<1>1. \A r \in rows : r.asked = r.kept
  BY DEF IInv, NoStaleShot
<1>2. \A s \in screens : Admits(life, manager) /\ s.image.generation = life.generation
                           => s.image.asked = tightened
  BY DEF IInv, Fresh, Alive, Admits
<1> DEFINE new == [generation |-> life.generation, asked |-> tightened]
           taken == {s.image : s \in {x \in screens : x.block = b.id}}
<1>3. ASSUME NEW r \in Recorded(b, late, life, manager, permitted) \ rows PROVE r.asked = r.kept
  <2>1. PICK i \in taken \cup {new} :
          Attachable(i, b, life, manager) /\ r = [asked |-> i.asked, kept |-> tightened]
    BY <1>3 DEF Recorded
  <2>2. i.asked = tightened
    BY <1>2, <2>1 DEF Attachable
  <2> QED BY <2>1, <2>2
<1> QED BY <1>1, <1>3

-------------------------------------------------------------------------------
(* Tracking *)

LEMMA RollKeeps ==
  ASSUME IInv, Roll
  PROVE  IInv'
<1> USE DEF Roll, IdleWorker, diskVars, lifeVars, workVars, updateVars, planVars
<1>1. screens' \subseteq screens
  BY DEF Pruned
<1>2. Typed'
  BY <1>1 DEF IInv, Typed, Opens
<1>3. Fresh'
  <2>1. Alive' \subseteq Alive
    BY <1>1 DEF Alive
  <2> QED BY <2>1, FreshStays DEF IInv, Renews, Typed
<1>4. Saves' /\ Follows' /\ Synced'
  BY DEF IInv, Saves, WideningWaits, Follows, Synced
<1>5. NoStaleShot'
  BY RecordedIsFresh DEF NoStaleShot
<1>6. FailsClosed'
  BY DEF IInv, FailsClosed
<1> QED BY <1>2, <1>3, <1>4, <1>5, <1>6 DEF IInv

LEMMA PauseKeeps ==
  ASSUME IInv, Pause
  PROVE  IInv'
<1> USE DEF Pause, Move, IdleWorker, diskVars
<1>1. screens' \subseteq screens
  BY DEF Pruned
<1>2. /\ life' \in Life /\ life'.policy = {} /\ Renews(life, life')
      /\ life'.state # "tracking" /\ ~listening'
  BY ApplyApplies DEF IInv
<1>3. Typed'
  <2>1. block'.id \in Nat
    BY DEF NoBlock
  <2> QED BY <1>1, <1>2, <2>1 DEF IInv, Typed, updateVars
<1>4. Fresh'
  <2>1. Alive' \subseteq Alive
    BY <1>1 DEF Alive
  <2> QED BY <1>2, <2>1, FreshStays DEF IInv
<1>5. Saves'
  BY DEF IInv, Saves, WideningWaits, updateVars
<1>6. Follows' /\ Synced'
  BY <1>2 DEF IInv, Follows, Synced, updateVars
<1>7. NoStaleShot'
  BY RecordedIsFresh DEF IInv, NoStaleShot
<1>8. FailsClosed'
  BY <1>1, <1>2 DEF IInv, FailsClosed
<1> QED BY <1>3, <1>4, <1>5, <1>6, <1>7, <1>8 DEF IInv

LEMMA ResumeKeeps ==
  ASSUME IInv, Resume
  PROVE  IInv'
<1> USE DEF Resume, IdleWorker, diskVars, updateVars, shotVars, planVars
<1>1. /\ session = consent.perms \cap project /\ session \in SUBSET Capabilities
      /\ life.policy \subseteq wish.perms \cap project
  BY PermsAre DEF IInv, Follows
<1>2. \/ UNCHANGED <<life, listening, block, lastBlock>>
      \/ ~unsynced /\ Opens(session) /\ Apply(manager, TRUE, session)
  BY DEF ShouldTrack, blockVars
<1>3. ~unsynced => consent = wish
  BY DEF IInv, Synced
<1>4. /\ life' \in Life /\ Renews(life, life')
      /\ life'.policy \subseteq wish.perms \cap project
      /\ listening' => "keyboard" \in life'.policy
      /\ life'.state = "tracking" => life'.policy = wish.perms \cap project
  <2>1. CASE UNCHANGED <<life, listening, block, lastBlock>>
    BY <1>1, <2>1 DEF IInv, Typed, Follows, Synced, Renews
  <2>2. CASE ~unsynced /\ Opens(session) /\ Apply(manager, TRUE, session)
    BY <1>1, <1>3, <2>2, ApplyApplies DEF IInv
  <2> QED BY <1>2, <2>1, <2>2
<1>5. Typed'
  <2>1. block'.id \in Nat /\ lastBlock' \in Nat
    <3>1. CASE Opens(session)
      BY <3>1 DEF IInv, Typed, Opens
    <3>2. CASE UNCHANGED <<block, lastBlock>>
      BY <3>2 DEF IInv, Typed
    <3> QED BY <1>2, <3>1, <3>2
  <2> QED BY <1>4, <2>1 DEF IInv, Typed
<1>6. Fresh'
  <2>1. Alive' \subseteq Alive
    BY DEF Alive
  <2> QED BY <1>4, <2>1, FreshStays DEF IInv
<1>7. Saves'
  BY DEF IInv, Saves, WideningWaits
<1>8. Follows' /\ Synced'
  BY <1>4 DEF IInv, Follows, Synced
<1>9. NoStaleShot' /\ FailsClosed'
  <2>1. UNCHANGED <<rows, tightened, unsynced, running, screens>>
    OBVIOUS
  <2>2. unsynced => UNCHANGED <<life, listening, block>>
    BY <1>2
  <2> QED BY <2>1, <2>2 DEF IInv, NoStaleShot, FailsClosed
<1> QED BY <1>5, <1>6, <1>7, <1>8, <1>9 DEF IInv

\* Taking screenshots back changes what is tracked, and that is a new
\* generation: what was asked for before is stale.
LEMMA TighteningStales ==
  ASSUME IInv, running, pc = "idle", NEW allowed \in SUBSET Capabilities, NEW active \in BOOLEAN,
         NEW perms \in SUBSET allowed, NEW m,
         Apply(m, active, perms), running' = running,
         Tightened(wish.perms \cap project, allowed), Alive' \subseteq Alive
  PROVE  Fresh' /\ tightened' \in Nat
<1>1. tightened \in Nat
  BY DEF IInv, Typed
<1>2. life' \in Life /\ Renews(life, life') /\ life'.policy = IF active THEN perms ELSE {}
  BY ApplyApplies DEF IInv
<1>3. CASE ~Tightens(wish.perms \cap project, allowed)
  <2>1. tightened' = tightened
    BY <1>1, <1>3 DEF Tightened
  <2> QED BY <1>1, <1>2, <2>1, FreshStays DEF IInv
<1>4. CASE Tightens(wish.perms \cap project, allowed)
  <2>1. tightened' = tightened + 1
    BY <1>4 DEF Tightened
  <2>2. life.state = "tracking" => life'.generation > life.generation
    <3>1. life.state = "tracking" => life.policy = wish.perms \cap project
      BY DEF IInv, Synced
    <3>2. life'.policy \subseteq allowed
      BY <1>2
    <3>3. life.state = "tracking" => life'.policy # life.policy
      BY <1>4, <3>1, <3>2 DEF Tightens
    <3> QED BY <1>2, <3>3 DEF Renews
  <2>3. life.generation \in Nat /\ life'.generation \in Nat
    BY <1>2 DEF IInv, Typed, Life
  <2>4. \A i \in Alive : i.generation \in Nat
    <3>1. camera.image \in Image /\ \A s \in screens : s.image \in Image
      BY DEF IInv, Typed
    <3>2. answers \in Seq(Answer)
      BY DEF IInv, Typed
    <3>3. \A i \in DOMAIN answers : answers[i].image \in Image
      BY <3>2, AnswersAre
    <3> QED BY <3>1, <3>3 DEF Alive, Image
  <2>5. life'.generation > life.generation \/ life'.state # "tracking"
    <3>1. CASE life' = life
      BY <2>2, <2>3, <3>1
    <3>2. CASE life' # life
      BY <1>2, <3>2 DEF Renews
    <3> QED BY <3>1, <3>2
  <2>6. ASSUME NEW i \in Alive'
        PROVE  /\ i.generation <= life'.generation
               /\ i.generation = life'.generation => life'.state # "tracking"
    <3>1. i \in Alive /\ i.generation <= life.generation
      BY <2>6 DEF IInv, Fresh
    <3>2. life'.generation >= life.generation
      BY <1>2, <2>3 DEF Renews
    <3> QED BY <2>3, <2>4, <2>5, <3>1, <3>2
  <2>7. Fresh'
    BY <2>6 DEF Fresh
  <2> QED BY <1>1, <2>1, <2>7
<1> QED BY <1>3, <1>4

LEMMA PolicyKeeps ==
  ASSUME IInv, PolicyArrives
  PROVE  IInv'
<1> USE DEF PolicyArrives, Move, IdleWorker, diskVars, updateVars, shotVars
<1>1. PICK p \in plan.policies \ {project} :
        /\ project' = p /\ session' = consent.perms \cap p
        /\ Tightened(wish.perms \cap project, wish.perms \cap p)
  OBVIOUS
<1>2. p \in SUBSET Capabilities
  BY ConsentAssumption DEF IInv, Typed
<1>3. /\ consent.perms \subseteq wish.perms /\ consent.perms \in SUBSET Capabilities
      /\ wish.perms \in SUBSET Capabilities
  BY PermsAre DEF IInv, Follows
<1>4. Apply(manager, block # NoBlock, session')
  OBVIOUS
<1>5. /\ session' \in SUBSET Capabilities /\ (block # NoBlock) \in BOOLEAN
  BY <1>1, <1>3
<1>6. /\ life' \in Life /\ Renews(life, life')
      /\ life'.policy = (IF block # NoBlock THEN session' ELSE {})
      /\ life'.state = "tracking" => block # NoBlock
      /\ listening' => "keyboard" \in life'.policy /\ block # NoBlock
  BY <1>4, <1>5, ApplyApplies DEF IInv
<1>7. Fresh' /\ tightened' \in Nat
  <2>1. Alive' \subseteq Alive
    BY DEF Alive
  <2>2. session' \in SUBSET (wish.perms \cap p) /\ wish.perms \cap p \in SUBSET Capabilities
    BY <1>1, <1>2, <1>3
  <2> QED BY <1>1, <1>4, <1>5, <2>1, <2>2, TighteningStales
<1>8. Typed'
  BY <1>1, <1>2, <1>6, <1>7 DEF IInv, Typed
<1>9. Saves'
  BY DEF IInv, Saves, WideningWaits
<1>10. Follows' /\ Synced'
  <2>1. life'.state = "tracking" => ~unsynced
    BY <1>6 DEF IInv, FailsClosed
  <2>2. ~unsynced => consent = wish
    BY DEF IInv, Synced
  <2> QED BY <1>1, <1>3, <1>6, <2>1, <2>2 DEF IInv, Follows, Synced
<1>11. NoStaleShot' /\ FailsClosed'
  BY <1>6 DEF IInv, NoStaleShot, FailsClosed
<1> QED BY <1>7, <1>8, <1>9, <1>10, <1>11 DEF IInv

-------------------------------------------------------------------------------
(* update_consent *)

LEMMA UpdateConsentKeeps ==
  ASSUME IInv, NEW c \in plan.choices, UpdateConsent(c)
  PROVE  IInv'
<1> DEFINE now == Narrowed(consent, c)
           tracks == ShouldTrack(now, unsynced, paused)
<1>1. c \in Choices
  BY ConsentAssumption DEF IInv, Typed
<1>2. /\ now \in Choices /\ now.perms \subseteq consent.perms \cap c.perms
      /\ now.perms \in SUBSET Capabilities
  BY <1>1, NarrowedIsLess, ChoicesHavePerms DEF IInv, Typed
<1>3. /\ pc = "idle" /\ running /\ pc' = "narrowed" /\ choice' = c /\ wish' = c
      /\ consent' = now /\ session' = now.perms \cap project
      /\ Apply(manager, tracks, session')
      /\ Tightened(wish.perms \cap project, c.perms \cap project)
      /\ screens' \in {screens, {}} /\ (~tracks => block' = NoBlock /\ screens' = {})
      /\ UNCHANGED <<disk, running, manager, unsynced, project, camera, answers, rows, plan>>
  BY DEF UpdateConsent, IdleWorker, Move, diskVars
<1>4. tracks \in BOOLEAN /\ (tracks => ~unsynced)
  BY DEF ShouldTrack
<1>5. block'.id \in Nat /\ lastBlock' \in Nat
  <2>1. \/ Opens(session')
        \/ block' = [block EXCEPT !.perms = session'] /\ lastBlock' = lastBlock
        \/ block' = NoBlock /\ lastBlock' = lastBlock
    BY DEF UpdateConsent
  <2>2. CASE Opens(session')
    BY <2>2 DEF Opens, IInv, Typed
  <2>3. CASE block' = [block EXCEPT !.perms = session'] /\ lastBlock' = lastBlock
    BY <2>3 DEF IInv, Typed
  <2>4. CASE block' = NoBlock /\ lastBlock' = lastBlock
    BY <2>4 DEF NoBlock, IInv, Typed
  <2> QED BY <2>1, <2>2, <2>3, <2>4
<1> HIDE DEF now, tracks
<1>6. session' \in SUBSET (c.perms \cap project) /\ c.perms \cap project \in SUBSET Capabilities
  BY <1>1, <1>2, <1>3, PermsAre DEF IInv
<1>7. /\ life' \in Life /\ life'.policy = (IF tracks THEN session' ELSE {})
      /\ life'.state = "tracking" => tracks
      /\ listening' => "keyboard" \in life'.policy /\ tracks
  BY <1>3, <1>4, <1>6, ApplyApplies DEF IInv
<1>8. Fresh' /\ tightened' \in Nat
  <2>1. Alive' \subseteq Alive
    BY <1>3 DEF Alive
  <2> QED BY <1>3, <1>4, <1>6, <2>1, TighteningStales
<1>9. Typed'
  BY <1>1, <1>2, <1>3, <1>5, <1>7, <1>8 DEF IInv, Typed
<1>10. Saves'
  BY <1>2, <1>3 DEF IInv, Saves, WideningWaits
<1>11. Follows' /\ Synced'
  BY <1>2, <1>3, <1>6, <1>7 DEF Follows, Synced
<1>12. NoStaleShot'
  <2>1. \A r \in rows' : r.asked = r.kept
    BY <1>3 DEF IInv, NoStaleShot
  <2> QED BY <2>1 DEF NoStaleShot
<1>13. FailsClosed'
  BY <1>3, <1>4, <1>7 DEF FailsClosed
<1> QED BY <1>8, <1>9, <1>10, <1>11, <1>12, <1>13 DEF IInv

\* The three ways the manager answers leave the worker and its sensors alone.
LEMMA ManagerKeeps ==
  ASSUME IInv, running, UpdateRest, WorkerWaits,
         pc \in {"narrowed", "written"}, pc' \in {"written", "saved", "unsaved"},
         life' \in Life, Renews(life, life'), life'.policy = life.policy,
         life'.state = "tracking" => life.state = "tracking",
         disk' \in Choices \cup {Unreadable}, manager' \in Choices, Saves'
  PROVE  IInv'
<1> USE DEF UpdateRest, WorkerWaits, blockVars, planVars
<1>1. Typed'
  BY DEF IInv, Typed
<1>2. Fresh'
  <2>1. Alive' \subseteq Alive
    BY DEF Alive
  <2> QED BY <2>1, FreshStays DEF IInv
<1>3. Follows' /\ Synced'
  BY DEF IInv, Follows, Synced
<1>4. FailsClosed' /\ NoStaleShot'
  BY DEF IInv, FailsClosed, NoStaleShot
<1> QED BY <1>1, <1>2, <1>3, <1>4 DEF IInv

\* What applies while the choice is saved is part of the choice.
LEMMA NarrowedApplies ==
  ASSUME IInv, running, pc # "idle"
  PROVE  consent.perms \subseteq choice.perms
  BY DEF IInv, Follows

LEMMA WriteKeeps ==
  ASSUME IInv, Write
  PROVE  IInv'
<1>1. /\ running /\ pc = "narrowed" /\ pc' = "written" /\ disk' = choice /\ life' = life
      /\ manager' = Narrowed(manager, choice) /\ UpdateRest /\ WorkerWaits
  BY DEF Write
<1>2. manager' \in Choices /\ manager'.perms \subseteq choice.perms
  BY <1>1, NarrowedIsLess DEF IInv, Typed
<1>3. consent' = consent /\ choice' = choice /\ running'
  BY <1>1 DEF UpdateRest, WorkerWaits
<1>4. Saves'
  BY <1>1, <1>2, <1>3, NarrowedApplies DEF Saves, WideningWaits
<1>5. life' \in Life /\ Renews(life, life') /\ choice \in Choices
  BY <1>1 DEF IInv, Typed, Renews
<1> QED BY <1>1, <1>2, <1>4, <1>5, ManagerKeeps

LEMMA WrittenKeeps ==
  ASSUME IInv, Written
  PROVE  IInv'
<1>1. /\ running /\ pc = "written" /\ pc' = "saved" /\ disk' = disk
      /\ life' = Consented(life, choice)
      /\ manager' = choice /\ UpdateRest /\ WorkerWaits
  BY DEF Written
<1>2. /\ consent' = consent /\ choice' = choice /\ running'
      /\ choice \in Choices /\ life \in Life /\ disk \in Choices \cup {Unreadable}
  BY <1>1 DEF UpdateRest, WorkerWaits, IInv, Typed
<1>3. Saves'
  BY <1>1, <1>2 DEF IInv, Saves, WideningWaits
<1> QED BY <1>1, <1>2, <1>3, ConsentedRenews, ManagerKeeps DEF Renews

LEMMA UnwrittenKeeps ==
  ASSUME IInv, Unwritten
  PROVE  IInv'
<1>1. /\ running /\ pc = "narrowed" /\ pc' = "saved" /\ disk' = disk /\ life' = life
      /\ manager = choice /\ manager' = manager /\ UpdateRest /\ WorkerWaits
  BY DEF Unwritten, lifeVars
<1>2. /\ consent' = consent /\ choice' = choice /\ running'
      /\ manager \in Choices /\ life \in Life /\ disk \in Choices \cup {Unreadable}
  BY <1>1 DEF UpdateRest, WorkerWaits, IInv, Typed
<1>3. Saves'
  BY <1>1, <1>2 DEF IInv, Saves, WideningWaits
<1> QED BY <1>1, <1>2, <1>3, ManagerKeeps DEF Renews

LEMMA WriteFailsKeeps ==
  ASSUME IInv, WriteFails
  PROVE  IInv'
<1>1. /\ running /\ pc = "narrowed" /\ pc' = "unsaved" /\ disk' = disk
      /\ life' \in {life, Consented(life, manager')}
      /\ manager' = Narrowed(manager, choice) /\ UpdateRest /\ WorkerWaits
  BY DEF WriteFails
<1>2. /\ consent' = consent /\ running' /\ choice \in Choices /\ manager \in Choices
      /\ life \in Life /\ disk \in Choices \cup {Unreadable}
  BY <1>1 DEF UpdateRest, WorkerWaits, IInv, Typed
<1>3. manager' \in Choices /\ manager'.perms \subseteq manager.perms
  BY <1>1, <1>2, NarrowedIsLess
<1>4. Saves'
  BY <1>1, <1>2, <1>3 DEF IInv, Saves, WideningWaits
<1>5. /\ life' \in Life /\ Renews(life, life') /\ life'.policy = life.policy
      /\ life'.state = "tracking" => life.state = "tracking"
  BY <1>1, <1>2, ConsentedRenews DEF Renews
<1> QED BY <1>1, <1>2, <1>3, <1>4, <1>5, ManagerKeeps

LEMMA WidenKeeps ==
  ASSUME IInv, Widen
  PROVE  IInv'
<1> DEFINE tracks == ShouldTrack(choice, FALSE, paused)
<1>1. /\ running /\ pc = "saved" /\ pc' = "idle" /\ consent' = choice /\ unsynced' = FALSE
      /\ session' = choice.perms \cap project /\ Apply(manager, tracks, session')
      /\ Reconciled(tracks) /\ tracks \in BOOLEAN
      /\ UNCHANGED <<disk, manager, screens, running, project, choice, camera, answers, rows,
                      wish, tightened, plan>>
  BY DEF Widen, UpdateRest, ShouldTrack, planVars
<1> HIDE DEF tracks
<1>2. block'.id \in Nat /\ lastBlock' \in Nat
  <2>1. CASE Opens(session')
    BY <2>1 DEF Opens, IInv, Typed
  <2>2. CASE lastBlock' = lastBlock /\ block' \in {block, NoBlock}
    BY <2>2 DEF NoBlock, IInv, Typed
  <2> QED BY <1>1, <2>1, <2>2 DEF Reconciled
<1>3. session' \in SUBSET Capabilities /\ choice \in Choices
  BY <1>1, PermsAre DEF IInv, Typed
<1>4. /\ life' \in Life /\ Renews(life, life')
      /\ life'.policy = (IF tracks THEN session' ELSE {})
      /\ life'.state = "tracking" => tracks
      /\ listening' => "keyboard" \in life'.policy
  BY <1>1, <1>3, ApplyApplies DEF IInv
<1>5. Typed'
  BY <1>1, <1>2, <1>3, <1>4 DEF IInv, Typed
<1>6. Fresh'
  <2>1. Alive' \subseteq Alive
    BY <1>1 DEF Alive
  <2> QED BY <1>1, <1>4, <2>1, FreshStays DEF IInv
<1>7. wish = choice
  BY <1>1 DEF IInv, Follows
<1>8. Saves'
  BY <1>1 DEF IInv, Saves, WideningWaits
<1>9. Follows' /\ Synced'
  BY <1>1, <1>4, <1>7 DEF Follows, Synced
<1>10. NoStaleShot' /\ FailsClosed'
  BY <1>1 DEF IInv, NoStaleShot, FailsClosed
<1> QED BY <1>5, <1>6, <1>8, <1>9, <1>10 DEF IInv

LEMMA FailClosedKeeps ==
  ASSUME IInv, FailClosed
  PROVE  IInv'
<1>1. /\ running /\ pc' = "idle" /\ consent' \in {Absent, Revoked} /\ unsynced' = TRUE
      /\ session' = {} /\ Apply(manager, FALSE, {}) /\ block' = NoBlock /\ screens' = {}
      /\ UNCHANGED <<disk, manager, lastBlock, running, project, choice, camera, answers, rows,
                      wish, tightened, plan>>
  BY DEF FailClosed, Ended, UpdateRest, planVars
<1>2. consent' \in Choices /\ consent'.perms = {} /\ block'.id \in Nat
  BY <1>1 DEF Choices, Absent, Revoked, NoBlock
<1>3. /\ life' \in Life /\ Renews(life, life') /\ life'.policy = {}
      /\ life'.state # "tracking" /\ ~listening'
  BY <1>1, ApplyApplies DEF IInv
<1>4. Typed'
  BY <1>1, <1>2, <1>3 DEF IInv, Typed
<1>5. Fresh'
  <2>1. Alive' \subseteq Alive
    BY <1>1 DEF Alive
  <2> QED BY <1>1, <1>3, <2>1, FreshStays DEF IInv
<1>6. Saves'
  BY <1>1, <1>2 DEF IInv, Saves, WideningWaits
<1>7. Follows' /\ Synced' /\ NoStaleShot' /\ FailsClosed'
  BY <1>1, <1>2, <1>3 DEF IInv, Follows, Synced, NoStaleShot, FailsClosed
<1> QED BY <1>4, <1>5, <1>6, <1>7 DEF IInv

-------------------------------------------------------------------------------
(* The process *)

LEMMA StartKeeps ==
  ASSUME IInv, Start
  PROVE  IInv'
<1> DEFINE off == [state |-> "stopped", generation |-> 2, policy |-> {}]
           perms == Loaded.perms \cap project
<1>1. /\ Loaded \in Choices /\ Loaded.perms \subseteq disk.perms
      /\ Loaded.perms \in SUBSET Capabilities
  <2>1. Absent \in Choices /\ Absent.perms = {}
    BY DEF Absent, Choices
  <2> QED BY <2>1, ChoicesHavePerms DEF Loaded, IInv, Typed
<1>2. off \in Life /\ perms \in SUBSET Capabilities
  BY <1>1 DEF Life
<1>3. /\ ~running /\ running' /\ pc = "idle" /\ pc' = pc
      /\ manager' = Loaded /\ consent' = Loaded /\ wish' = Loaded /\ ~unsynced'
      /\ unsynced' = FALSE /\ session' = perms /\ running' = TRUE
      /\ UNCHANGED <<disk, project, choice, camera, answers, screens, rows, tightened, plan>>
  BY DEF Start, IInv, Follows, updateVars, shotVars, planVars
<1>4. \/ Opens(perms) /\ life' = On(off, Loaded, perms) /\ listening' = Listens(TRUE, perms)
      \/ block' = NoBlock /\ life' = off /\ ~listening' /\ lastBlock' = lastBlock
  BY DEF Start
<1> HIDE DEF perms
<1>5. /\ life' \in Life
      /\ life'.policy = perms \/ (life'.policy = {} /\ life'.state # "tracking")
      /\ listening' => "keyboard" \in life'.policy
  <2>1. CASE life' = On(off, Loaded, perms) /\ listening' = Listens(TRUE, perms)
    <3> HIDE DEF off
    <3> QED BY <1>2, <2>1, OnApplies DEF Listens
  <2>2. CASE life' = off /\ ~listening'
    BY <1>2, <2>2
  <2> QED BY <1>4, <2>1, <2>2
<1> HIDE DEF off
<1>6. block'.id \in Nat /\ lastBlock' \in Nat
  <2>1. CASE Opens(perms)
    BY <2>1 DEF Opens, IInv, Typed
  <2>2. CASE block' = NoBlock /\ lastBlock' = lastBlock
    BY <2>2 DEF NoBlock, IInv, Typed
  <2> QED BY <1>4, <2>1, <2>2
<1>7. Typed'
  <2> HIDE DEF Life
  <2> QED BY <1>1, <1>3, <1>5, <1>6 DEF IInv, Typed
<1>8. Fresh'
  <2>1. Alive' = {}
    BY <1>3 DEF IInv, Fresh, Alive
  <2> QED BY <1>3, <2>1 DEF Fresh
<1>9. Saves'
  BY <1>1, <1>3 DEF Saves, WideningWaits
<1>10. Follows' /\ Synced'
  BY <1>3, <1>5 DEF Follows, Synced, perms
<1>11. NoStaleShot' /\ FailsClosed'
  BY <1>3 DEF IInv, NoStaleShot, FailsClosed
<1> QED BY <1>7, <1>8, <1>9, <1>10, <1>11 DEF IInv

LEMMA CrashKeeps ==
  ASSUME IInv, Crash
  PROVE  IInv'
<1> USE DEF Crash, Move, lifeVars, workVars
<1>1. Typed'
  <2>1. block'.id \in Nat /\ answers' \in Seq(Answer)
    BY DEF NoBlock
  <2>2. camera' \in [busy : BOOLEAN, block : Nat, image : Image]
    BY DEF NoCamera, Image
  <2> QED BY <2>1, <2>2 DEF IInv, Typed
<1>2. Fresh'
  BY DEF Fresh, Alive, NoCamera
<1>3. Saves' /\ Follows' /\ Synced' /\ NoStaleShot' /\ FailsClosed'
  BY DEF IInv, Saves, WideningWaits, Follows, Synced, NoStaleShot, FailsClosed
<1> QED BY <1>1, <1>2, <1>3 DEF IInv

LEMMA OfflineKeeps ==
  ASSUME IInv, Offline
  PROVE  IInv'
<1> USE DEF Offline, Move, lifeVars, workVars, updateVars, blockVars, shotVars
<1>1. Typed'
  BY ConsentAssumption DEF IInv, Typed
<1>2. Fresh'
  BY DEF IInv, Fresh, Alive
<1>3. Saves' /\ Follows' /\ Synced' /\ NoStaleShot' /\ FailsClosed'
  BY DEF IInv, Saves, WideningWaits, Follows, Synced, NoStaleShot, FailsClosed
<1> QED BY <1>1, <1>2, <1>3 DEF IInv

-------------------------------------------------------------------------------
(* The theorems *)

LEMMA NextKeeps ==
  ASSUME IInv, [Next]_vars
  PROVE  IInv'
<1>1. CASE UNCHANGED vars
  <2> USE <1>1 DEF vars, diskVars, lifeVars, workVars, updateVars, blockVars, shotVars, planVars
  <2>1. Typed'
    BY DEF IInv, Typed
  <2>2. Fresh'
    BY DEF IInv, Fresh, Alive
  <2>3. Saves' /\ Follows' /\ Synced' /\ NoStaleShot' /\ FailsClosed'
    BY DEF IInv, Saves, WideningWaits, Follows, Synced, NoStaleShot, FailsClosed
  <2> QED BY <2>1, <2>2, <2>3 DEF IInv
<1>2. CASE Next
  BY <1>2, UpdateConsentKeeps, WriteKeeps, WrittenKeeps, UnwrittenKeeps, WriteFailsKeeps,
     WidenKeeps, FailClosedKeeps, CaptureKeeps, TakenKeeps, OnCaptureKeeps, RollKeeps,
     PauseKeeps, ResumeKeeps, PolicyKeeps, StartKeeps, CrashKeeps, OfflineKeeps DEF Next
<1> QED BY <1>1, <1>2

LEMMA SpecKeeps == Spec => []IInv
  BY InitIInv, NextKeeps, PTL DEF Spec

(* ConsentManager::update and update_consent: what applies is in the file first, *)
(* so a restart at any point finds at least as much.                             *)
THEOREM SavedBeforeApplied == Spec => []WideningWaits
<1>1. IInv => WideningWaits
  BY DEF IInv, Saves
<1> QED BY <1>1, SpecKeeps, PTL

(* The keyboard listener and the screenshot tickets follow the user's choice and *)
(* the workspace from the moment of the choice, whatever fails later.            *)
THEOREM ChoiceIsFollowed == Spec => []SensorsFollow
<1>1. IInv => SensorsFollow
  BY DEF IInv, Follows, SensorsFollow, Admits, Effective
<1> QED BY <1>1, SpecKeeps, PTL

(* The generation of the lifecycle is enough to keep every screenshot asked for  *)
(* before a withdrawal out of the queue.                                         *)
THEOREM ShotsAreFresh == Spec => []NoStaleShot
<1>1. IInv => NoStaleShot
  BY DEF IInv
<1> QED BY <1>1, SpecKeeps, PTL

(* After a failed save everything is off until one succeeds.                     *)
THEOREM FailureStopsAll == Spec => []FailsClosed
<1>1. IInv => FailsClosed
  BY DEF IInv
<1> QED BY <1>1, SpecKeeps, PTL

-------------------------------------------------------------------------------
(* Blocks and their screenshots, for TypeOK *)

BlockType == [id : Nat, perms : SUBSET Capabilities, captured : BOOLEAN]

Kinds ==
  /\ block \in BlockType /\ nextPerms \in SUBSET Capabilities /\ session \in SUBSET Capabilities
  /\ paused \in BOOLEAN /\ listening \in BOOLEAN /\ moves \in Nat /\ prior \in Choices
  /\ ~camera.busy => camera = NoCamera

Busy == IF camera.busy THEN 1 ELSE 0
Due == IF block # NoBlock /\ ~block.captured THEN 1 ELSE 0

\* Every block asks for a screenshot once.
Counted ==
  /\ block # NoBlock => block.id \in 1 .. lastBlock
  /\ block.id = 0 => block = NoBlock
  /\ Len(answers) + Busy + Due <= lastBlock
  /\ expected \subseteq 1 .. lastBlock

\* The screenshots that wait are of the open block, which is open only while
\* tracking may go on.
Bound ==
  /\ \A s \in screens : s.block = block.id /\ s.block # 0
  /\ paused => block = NoBlock
  /\ pc # "idle" /\ block # NoBlock => choice.given = "granted"

Books == Kinds /\ Counted /\ Bound

\* A step that takes no screenshot and hears of none: the block goes on, ends,
\* or a new one opens, and no screenshot of another one is left.
LEMMA QuietKeeps ==
  ASSUME Typed, Books, UNCHANGED <<camera, answers>>,
         expected' \subseteq expected, screens' \subseteq screens,
         nextPerms' \in SUBSET Capabilities, session' \in SUBSET Capabilities,
         paused' \in BOOLEAN, listening' \in BOOLEAN, moves' \in Nat, prior' \in Choices,
         \/ UNCHANGED <<block, lastBlock>>
         \/ /\ lastBlock' = lastBlock /\ block # NoBlock
            /\ \E p \in SUBSET Capabilities : block' = [block EXCEPT !.perms = p]
         \/ lastBlock' = lastBlock /\ block' = NoBlock /\ \A s \in screens' : s.block = 0
         \/ /\ \E p \in SUBSET Capabilities : Opens(p)
            /\ \A s \in screens' : s.block = block'.id,
         paused' => block' = NoBlock,
         pc' # "idle" /\ block' # NoBlock => choice'.given = "granted"
  PROVE  Books'
<1>1. /\ lastBlock \in Nat /\ Len(answers) \in Nat /\ Busy \in {0, 1} /\ Due \in {0, 1}
      /\ Len(answers') = Len(answers) /\ Busy' = Busy
  BY DEF Typed, Busy, Due
<1>2. Len(answers) + Busy + Due <= lastBlock /\ expected \subseteq 1 .. lastBlock
  BY DEF Books, Counted
<1>3. CASE UNCHANGED <<block, lastBlock>>
  <2>1. Due' = Due
    BY <1>3 DEF Due
  <2> QED BY <1>1, <1>2, <1>3, <2>1 DEF Books, Kinds, Counted, Bound
<1>4. CASE /\ lastBlock' = lastBlock /\ block # NoBlock
           /\ \E p \in SUBSET Capabilities : block' = [block EXCEPT !.perms = p]
  <2>1. block' \in BlockType /\ block'.id = block.id /\ block'.captured = block.captured
    BY <1>4 DEF Books, Kinds, BlockType
  <2>2. block'.id \in 1 .. lastBlock /\ block' # NoBlock
    BY <1>1, <1>4, <2>1 DEF Books, Counted, NoBlock
  <2>3. Due' = Due
    BY <1>4, <2>1, <2>2 DEF Due
  <2>4. Kinds' /\ Counted'
    BY <1>1, <1>2, <1>4, <2>1, <2>2, <2>3 DEF Books, Kinds, Counted
  <2>5. Bound'
    BY <2>1, <2>2 DEF Books, Bound
  <2> QED BY <2>4, <2>5 DEF Books
<1>5. CASE lastBlock' = lastBlock /\ block' = NoBlock /\ \A s \in screens' : s.block = 0
  <2>1. NoBlock \in BlockType /\ Due' = 0 /\ block'.id = 0
    BY <1>5 DEF NoBlock, BlockType, Due
  <2>2. Kinds' /\ Counted'
    BY <1>1, <1>2, <1>5, <2>1 DEF Books, Kinds, Counted
  <2> QED BY <1>5, <2>1, <2>2 DEF Books, Bound
<1>6. CASE /\ \E p \in SUBSET Capabilities : Opens(p)
           /\ \A s \in screens' : s.block = block'.id
  <2>1. /\ block' \in BlockType /\ block'.id = lastBlock + 1 /\ lastBlock' = lastBlock + 1
        /\ block' # NoBlock /\ Due' \in {0, 1}
    BY <1>1, <1>6 DEF Opens, BlockType, NoBlock, Due
  <2>2. Kinds' /\ Counted'
    BY <1>1, <1>2, <2>1 DEF Books, Kinds, Counted
  <2> QED BY <1>1, <1>6, <2>1, <2>2 DEF Books, Bound
<1> QED BY <1>3, <1>4, <1>5, <1>6

\* A block is asked for its screenshot when it is still due.
LEMMA CaptureBooks ==
  ASSUME IInv, Books, Capture
  PROVE  Books'
<1>1. /\ block # NoBlock /\ ~block.captured /\ block' = [block EXCEPT !.captured = TRUE]
      /\ \/ camera' = camera /\ expected' = expected
         \/ ~camera.busy /\ camera'.busy = TRUE /\ expected' = expected \cup {block.id}
      /\ UNCHANGED <<lastBlock, answers, nextPerms, session, paused, listening, moves, prior, screens,
                      pc, choice>>
  BY DEF Capture, workVars, updateVars, planVars
<1>2. /\ block' \in BlockType /\ block'.id = block.id /\ block'.captured = TRUE
      /\ block.id \in 1 .. lastBlock
  BY <1>1 DEF Books, Kinds, BlockType, Counted
<1>3. /\ lastBlock \in Nat /\ Len(answers) \in Nat /\ Due = 1 /\ Due' = 0
      /\ Busy \in {0, 1} /\ (Busy' = Busy \/ (Busy' = 1 /\ Busy = 0))
  <2>1. lastBlock \in Nat /\ Len(answers) \in Nat
    BY DEF IInv, Typed
  <2>2. Due = 1 /\ Due' = 0
    BY <1>1, <1>2 DEF Due
  <2>3. Busy \in {0, 1} /\ (Busy' = Busy \/ (Busy' = 1 /\ Busy = 0))
    <3>1. CASE camera' = camera
      BY <3>1 DEF Busy
    <3>2. CASE ~camera.busy /\ camera'.busy = TRUE
      <4>1. Busy = 0 /\ Busy' = 1
        BY <3>2 DEF Busy
      <4> QED BY <4>1
    <3> QED BY <1>1, <3>1, <3>2
  <2> QED BY <2>1, <2>2, <2>3
<1>4. Counted'
  <2>1. Len(answers) + Busy + Due <= lastBlock /\ expected \subseteq 1 .. lastBlock
    BY DEF Books, Counted
  <2>2. Len(answers') + Busy' + Due' <= lastBlock'
    BY <1>1, <1>3, <2>1
  <2>3. block' # NoBlock /\ block'.id # 0
    BY <1>2 DEF NoBlock
  <2> QED BY <1>1, <1>2, <2>1, <2>2, <2>3 DEF Counted
<1>5. Kinds' /\ Bound'
  BY <1>1, <1>2 DEF Books, Kinds, Bound
<1> QED BY <1>4, <1>5 DEF Books

\* What the thread hands over it has no longer.
LEMMA TakenBooks ==
  ASSUME IInv, Books, Taken
  PROVE  Books'
<1>1. /\ camera.busy /\ camera' = NoCamera /\ \E a : answers' = Append(answers, a)
      /\ UNCHANGED <<block, lastBlock, nextPerms, session, paused, listening, moves, prior, screens,
                      expected, pc, choice>>
  BY DEF Taken, workVars, updateVars, blockVars, planVars
<1>2. /\ Len(answers) \in Nat /\ Len(answers') = Len(answers) + 1 /\ lastBlock \in Nat
      /\ Busy = 1 /\ Busy' = 0 /\ Due' = Due /\ Due \in {0, 1}
  BY <1>1 DEF IInv, Typed, Busy, Due, NoCamera
<1>3. Counted'
  BY <1>1, <1>2 DEF Books, Counted
<1>4. Kinds' /\ Bound'
  BY <1>1 DEF Books, Kinds, Bound
<1> QED BY <1>3, <1>4 DEF Books

\* Only what is expected, and of the open block, is put with it.
LEMMA OnCaptureBooks ==
  ASSUME IInv, Books, OnCapture
  PROVE  Books'
<1> DEFINE e == Head(answers)
<1>1. /\ answers # <<>> /\ answers' = Tail(answers) /\ expected' \subseteq expected
      /\ \/ screens' = screens
         \/ /\ screens' = screens \cup {[block |-> e.block, image |-> e.image]}
            /\ e.block \in expected /\ e.block = block.id
      /\ UNCHANGED <<block, lastBlock, nextPerms, session, paused, listening, moves, prior, camera,
                      pc, choice>>
  BY DEF OnCapture, workVars, updateVars, blockVars, planVars
<1> HIDE DEF e
<1>2. /\ Len(answers) \in Nat /\ Len(answers') = Len(answers) - 1 /\ lastBlock \in Nat
      /\ Busy' = Busy /\ Due' = Due /\ Due \in {0, 1} /\ Busy \in {0, 1}
  BY <1>1 DEF IInv, Typed, Busy, Due
<1>3. Counted'
  BY <1>1, <1>2 DEF Books, Counted
<1>4. Bound'
  <2>1. e.block \in expected => e.block # 0
    BY <1>2 DEF Books, Counted
  <2> QED BY <1>1, <2>1 DEF Books, Bound
<1>5. Kinds'
  BY <1>1 DEF Books, Kinds
<1> QED BY <1>3, <1>4, <1>5 DEF Books

\* The steps that track, pause and go on.
LEMMA TrackingBooks ==
  ASSUME IInv, Books, Roll \/ Pause \/ Resume \/ PolicyArrives
  PROVE  Books'
<1>1. Typed /\ paused \in BOOLEAN /\ listening \in BOOLEAN /\ moves \in Nat /\ prior \in Choices
      /\ nextPerms \in SUBSET Capabilities /\ session \in SUBSET Capabilities
  BY DEF IInv, Books, Kinds
<1>2. CASE Roll
  <2>1. /\ UNCHANGED <<prior, camera, answers, session, paused, listening, moves, pc, choice>>
        /\ pc = "idle" /\ Opens(nextPerms) /\ Pruned(block') /\ block # NoBlock
    BY <1>2 DEF Roll, IdleWorker, workVars, updateVars, planVars
  <2>2. nextPerms' = nextPerms
    BY <2>1 DEF Opens
  <2>3. ~paused
    BY <2>1 DEF Books, Bound
  <2> QED BY <1>1, <2>1, <2>2, <2>3, QuietKeeps DEF Pruned
<1>3. CASE Pause
  <2>1. /\ UNCHANGED <<prior, camera, answers, session, nextPerms, lastBlock, pc, choice>>
        /\ block' = NoBlock /\ paused' = TRUE /\ moves' = moves + 1 /\ pc = "idle"
        /\ Pruned(NoBlock) /\ Apply(manager, FALSE, {})
    BY <1>3 DEF Pause, IdleWorker, Move, updateVars
  <2>2. listening' \in BOOLEAN
    BY <1>1, <2>1, ApplyApplies
  <2>3. expected' \subseteq expected /\ screens' \subseteq screens
        /\ \A s \in screens' : s.block = 0
    BY <2>1 DEF Pruned, NoBlock
  <2> QED BY <1>1, <2>1, <2>2, <2>3, QuietKeeps
<1>4. CASE Resume
  <2>1. /\ UNCHANGED <<prior, camera, answers, session, screens, expected, moves, pc, choice>>
        /\ paused' = FALSE /\ pc = "idle" /\ paused
        /\ \/ Opens(session) /\ Apply(manager, TRUE, session)
           \/ UNCHANGED <<block, nextPerms, lastBlock, listening>>
    BY <1>4 DEF Resume, IdleWorker, updateVars, shotVars, planVars, blockVars
  <2>2. block = NoBlock /\ \A s \in screens : s.block = 0 /\ s.block # 0
    BY <2>1 DEF Books, Bound, NoBlock
  <2>3. listening' \in BOOLEAN /\ nextPerms' \in SUBSET Capabilities
    BY <1>1, <2>1, ApplyApplies DEF Opens
  <2> QED BY <1>1, <2>1, <2>2, <2>3, QuietKeeps
<1>5. CASE PolicyArrives
  <2>1. /\ UNCHANGED <<prior, camera, answers, screens, expected, block, lastBlock, paused,
                        pc, choice>>
        /\ moves' = moves + 1 /\ pc = "idle" /\ Apply(manager, block # NoBlock, session')
        /\ nextPerms' \in {nextPerms, session'} /\ session' \subseteq consent.perms
    BY <1>5 DEF PolicyArrives, IdleWorker, Move, shotVars, updateVars
  <2>2. session' \in SUBSET Capabilities
    BY <1>1, <2>1, PermsAre
  <2>3. listening' \in BOOLEAN
    <3>1. (block # NoBlock) \in BOOLEAN
      OBVIOUS
    <3> QED BY <1>1, <2>1, <2>2, <3>1, ApplyApplies
  <2>4. paused => block = NoBlock
    BY DEF Books, Bound
  <2> QED BY <1>1, <2>1, <2>2, <2>3, <2>4, QuietKeeps
<1> QED BY <1>2, <1>3, <1>4, <1>5

\* A choice that still lets something be tracked is a grant.
LEMMA NarrowedGrants ==
  ASSUME NEW current, NEW target, Narrowed(current, target).given = "granted"
  PROVE  target.given = "granted"
  BY DEF Narrowed

LEMMA UpdateBooks ==
  ASSUME IInv, Books, NEW c \in plan.choices, UpdateConsent(c)
  PROVE  Books'
<1> DEFINE now == Narrowed(consent, c)
           tracks == ShouldTrack(now, unsynced, paused)
<1>1. /\ choice' = c /\ prior' = consent /\ session' = now.perms \cap project
      /\ Apply(manager, tracks, session')
      /\ moves' = moves + 1 /\ screens' \in {screens, {}} /\ expected' \in {expected, {}}
      /\ UNCHANGED <<paused, camera, answers>>
  BY DEF UpdateConsent, Move
<1>2. /\ tracks => ~paused /\ c.given = "granted"
      /\ \/ tracks /\ block = NoBlock /\ Opens(session')
         \/ /\ tracks /\ block # NoBlock /\ block' = [block EXCEPT !.perms = session']
            /\ nextPerms' = session' /\ lastBlock' = lastBlock
         \/ /\ ~tracks /\ block' = NoBlock /\ screens' = {}
            /\ UNCHANGED <<nextPerms, lastBlock>>
  BY NarrowedGrants DEF UpdateConsent, ShouldTrack
<1>3. tracks \in BOOLEAN
  BY DEF ShouldTrack
<1> HIDE DEF now, tracks
<1>4. session' \in SUBSET Capabilities /\ moves' \in Nat /\ prior' \in Choices
  BY <1>1, PermsAre DEF IInv, Typed, Books, Kinds
<1>5. listening' \in BOOLEAN
  BY <1>1, <1>3, <1>4, ApplyApplies DEF IInv
<1>6. nextPerms' \in SUBSET Capabilities
  BY <1>2, <1>4 DEF Books, Kinds, Opens
<1>7. block = NoBlock => screens = {}
  BY DEF Books, Bound, NoBlock
<1>8. paused \in BOOLEAN /\ Typed
  BY DEF IInv, Books, Kinds
<1>9. /\ ~tracks => block' = NoBlock
      /\ paused' => block' = NoBlock
      /\ block' # NoBlock => choice'.given = "granted"
  BY <1>1, <1>2
<1> QED BY <1>1, <1>2, <1>4, <1>5, <1>6, <1>7, <1>8, <1>9, QuietKeeps

\* The worker waits while the choice is saved, and then its block follows.
LEMMA SavingBooks ==
  ASSUME IInv, Books, Write \/ Written \/ Unwritten \/ WriteFails \/ Widen \/ FailClosed
  PROVE  Books'
<1>1. Typed /\ paused \in BOOLEAN /\ listening \in BOOLEAN /\ moves \in Nat /\ prior \in Choices
      /\ nextPerms \in SUBSET Capabilities /\ session \in SUBSET Capabilities
  BY DEF IInv, Books, Kinds
<1>2. /\ block = NoBlock => screens = {}
      /\ paused => block = NoBlock
      /\ pc # "idle" /\ block # NoBlock => choice.given = "granted"
  BY DEF Books, Bound, NoBlock
<1>3. UNCHANGED <<paused, choice, prior, camera, answers, moves>> /\ pc # "idle"
  BY DEF Write, Written, Unwritten, WriteFails, Widen, FailClosed, UpdateRest, planVars
<1>4. CASE Write \/ Written \/ Unwritten \/ WriteFails
  <2>1. UNCHANGED <<session, block, nextPerms, lastBlock, listening, expected, screens>>
    BY <1>4 DEF Write, Written, Unwritten, WriteFails, WorkerWaits, blockVars
  <2> QED BY <1>1, <1>2, <1>3, <2>1, QuietKeeps
<1>5. CASE Widen
  <2> DEFINE tracks == ShouldTrack(choice, FALSE, paused)
  <2>1. /\ pc' = "idle" /\ session' = choice.perms \cap project
        /\ Apply(manager, tracks, session') /\ Reconciled(tracks)
        /\ UNCHANGED <<screens, expected>>
    BY <1>5 DEF Widen
  <2>2. tracks \in BOOLEAN /\ (tracks => ~paused) /\ (~tracks /\ block # NoBlock => FALSE)
    BY <1>2, <1>3 DEF ShouldTrack
  <2> HIDE DEF tracks
  <2>3. session' \in SUBSET Capabilities
    BY <1>1, <2>1, PermsAre
  <2>4. listening' \in BOOLEAN
    BY <1>1, <2>1, <2>2, <2>3, ApplyApplies
  <2>5. \/ tracks /\ block = NoBlock /\ Opens(session')
        \/ tracks /\ nextPerms' = session' /\ UNCHANGED <<block, lastBlock>>
        \/ block' = NoBlock /\ block = NoBlock /\ UNCHANGED <<nextPerms, lastBlock>>
    BY <2>1, <2>2 DEF Reconciled
  <2>6. nextPerms' \in SUBSET Capabilities
    BY <1>1, <2>3, <2>5 DEF Opens
  <2>7. paused' => block' = NoBlock
    BY <1>2, <1>3, <2>2, <2>5
  <2> QED BY <1>1, <1>2, <1>3, <2>1, <2>3, <2>4, <2>5, <2>6, <2>7, QuietKeeps
<1>6. CASE FailClosed
  <2>1. /\ pc' = "idle" /\ session' = {} /\ Apply(manager, FALSE, {}) /\ block' = NoBlock
        /\ screens' = {} /\ expected' = {} /\ UNCHANGED <<nextPerms, lastBlock>>
    BY <1>6 DEF FailClosed, Ended
  <2>2. listening' \in BOOLEAN
    BY <1>1, <2>1, ApplyApplies
  <2> QED BY <1>1, <1>3, <2>1, <2>2, QuietKeeps
<1> QED BY <1>4, <1>5, <1>6

\* A restart finds no screenshot on its way.
LEMMA ProcessBooks ==
  ASSUME IInv, Books, Start \/ Crash \/ Offline
  PROVE  Books'
<1>1. Typed /\ paused \in BOOLEAN /\ listening \in BOOLEAN /\ moves \in Nat /\ prior \in Choices
      /\ nextPerms \in SUBSET Capabilities /\ session \in SUBSET Capabilities
  BY DEF IInv, Books, Kinds
<1>2. CASE Start
  <2> DEFINE perms == Loaded.perms \cap project
             off == [state |-> "stopped", generation |-> 2, policy |-> {}]
  <2>1. /\ ~running /\ paused' = FALSE /\ session' = perms
        /\ UNCHANGED <<pc, choice, prior, camera, answers, expected, screens, moves>>
        /\ \/ Opens(perms) /\ listening' = Listens(TRUE, perms)
           \/ block' = NoBlock /\ nextPerms' = {} /\ listening' = FALSE /\ lastBlock' = lastBlock
    BY <1>2 DEF Start, updateVars, shotVars, planVars
  <2>2. screens = {} /\ pc = "idle"
    BY <2>1 DEF IInv, Fresh, Alive, Follows
  <2>3. perms \in SUBSET Capabilities
    BY <1>1, PermsAre
  <2> HIDE DEF perms
  <2>4. listening' \in BOOLEAN /\ nextPerms' \in SUBSET Capabilities
    BY <2>1, <2>3 DEF Listens, Opens
  <2> QED BY <1>1, <2>1, <2>2, <2>3, <2>4, QuietKeeps
<1>3. CASE Crash
  <2>1. /\ camera' = NoCamera /\ answers' = <<>> /\ expected' = {} /\ screens' = {}
        /\ pc' = "idle" /\ block' = NoBlock /\ listening' = FALSE /\ moves' = moves + 1
        /\ UNCHANGED <<paused, prior, session, nextPerms, lastBlock>>
    BY <1>3 DEF Crash, Move, workVars
  <2>2. /\ NoBlock \in BlockType /\ NoBlock.id = 0 /\ Len(answers') = 0 /\ Busy' = 0 /\ Due' = 0
    BY <2>1 DEF NoBlock, NoCamera, BlockType, Busy, Due
  <2>3. lastBlock \in Nat
    BY <1>1 DEF Typed
  <2>4. Kinds'
    <3>1. prior' \in Choices /\ camera' = NoCamera
      BY <1>1, <2>1
    <3>2. moves' \in Nat /\ listening' \in BOOLEAN /\ paused' \in BOOLEAN
      <4>1. moves' \in Nat
        BY <1>1, <2>1
      <4>2. listening' \in BOOLEAN /\ paused' \in BOOLEAN
        BY <1>1, <2>1
      <4> QED BY <4>1, <4>2
    <3>3. block' \in BlockType
      BY <2>1, <2>2
    <3>4. nextPerms' \in SUBSET Capabilities /\ session' \in SUBSET Capabilities
      BY <1>1, <2>1
    <3> QED BY <3>1, <3>2, <3>3, <3>4 DEF Kinds
  <2>5. Counted'
    BY <2>1, <2>2, <2>3 DEF Counted
  <2>6. Bound'
    BY <2>1 DEF Bound
  <2> QED BY <2>4, <2>5, <2>6 DEF Books
<1>4. CASE Offline
  <2>1. /\ moves' = moves + 1
        /\ UNCHANGED <<paused, prior, session, nextPerms, lastBlock, camera, answers, expected,
                        screens, pc, choice, block, listening>>
    BY <1>4 DEF Offline, Move, workVars, updateVars, blockVars, shotVars
  <2>2. /\ paused => block = NoBlock
        /\ pc # "idle" /\ block # NoBlock => choice.given = "granted"
    BY DEF Books, Bound
  <2> QED BY <1>1, <2>1, <2>2, QuietKeeps
<1> QED BY <1>2, <1>3, <1>4

LEMMA NextBooks ==
  ASSUME IInv, Books, [Next]_vars
  PROVE  Books'
<1>1. CASE UNCHANGED vars
  <2> USE <1>1 DEF vars, diskVars, lifeVars, workVars, updateVars, blockVars, shotVars, planVars
  <2>1. Kinds' /\ Bound'
    BY DEF Books, Kinds, Bound
  <2>2. Counted'
    BY DEF Books, Counted, Busy, Due
  <2> QED BY <2>1, <2>2 DEF Books
<1>2. CASE Next
  BY <1>2, CaptureBooks, TakenBooks, OnCaptureBooks, TrackingBooks, UpdateBooks, SavingBooks,
     ProcessBooks DEF Next
<1> QED BY <1>1, <1>2

LEMMA InitBooks == Init => Books
<1> SUFFICES ASSUME Init PROVE Books
  OBVIOUS
<1>1. Kinds
  BY DEF Init, Kinds, NoBlock, BlockType, Choices
<1>2. Busy = 0 /\ Due = 0 /\ Len(answers) = 0
  BY DEF Init, Busy, Due, NoCamera
<1>3. Counted /\ Bound
  BY <1>2 DEF Init, Counted, Bound
<1> QED BY <1>1, <1>3 DEF Books

(* The variables have the values they are meant to have; no block asks for more *)
(* than one screenshot, and those that wait are of the open block, whatever is  *)
(* paused, revoked or restarted in between (capture, prune_screens).            *)
THEOREM ConsentTypes == Spec => []TypeOK
<1>1. IInv /\ Books => TypeOK
  <2> SUFFICES ASSUME IInv, Books PROVE TypeOK
    OBVIOUS
  <2>1. camera.image.generation <= life.generation
    <3>1. life.generation \in Nat
      BY DEF IInv, Typed, Life
    <3>2. CASE camera.busy
      BY <3>2 DEF IInv, Fresh, Alive
    <3>3. CASE ~camera.busy
      <4>1. camera.image.generation = 0
        BY <3>3 DEF Books, Kinds, NoCamera
      <4> QED BY <3>1, <4>1
    <3> QED BY <3>2, <3>3
  <2>2. Len(answers) <= lastBlock
    <3>1. lastBlock \in Nat /\ Len(answers) \in Nat /\ Busy \in Nat /\ Due \in Nat
      BY DEF IInv, Typed, Busy, Due
    <3> QED BY <3>1 DEF Books, Counted
  <2>3. block \in [id : Nat, perms : SUBSET Capabilities, captured : BOOLEAN]
    BY DEF Books, Kinds, BlockType
  <2>4. life \in [state : {"unconfigured", "stopped", "tracking"}, generation : Nat,
                  policy : SUBSET Capabilities]
    BY DEF IInv, Typed, Life
  <2>5. camera.busy \in BOOLEAN
    BY DEF IInv, Typed
  <2>6. /\ disk \in Choices \cup {Unreadable} /\ running \in BOOLEAN
        /\ manager \in Choices /\ consent \in Choices /\ choice \in Choices
        /\ wish \in Choices /\ unsynced \in BOOLEAN /\ project \in SUBSET Capabilities
        /\ pc \in {"idle", "narrowed", "written", "saved", "unsaved"}
        /\ lastBlock \in Nat /\ tightened \in Nat /\ plan \in Plans
    BY DEF IInv, Typed
  <2>7. /\ paused \in BOOLEAN /\ listening \in BOOLEAN /\ moves \in Nat
        /\ session \in SUBSET Capabilities /\ nextPerms \in SUBSET Capabilities
        /\ prior \in Choices
        /\ expected \subseteq 1 .. lastBlock /\ \A s \in screens : s.block = block.id
    BY DEF Books, Kinds, Counted, Bound
  <2> QED BY <2>1, <2>2, <2>3, <2>4, <2>5, <2>6, <2>7 DEF TypeOK
<1>2. Init => IInv /\ Books
  BY InitIInv, InitBooks
<1>3. IInv /\ Books /\ [Next]_vars => (IInv /\ Books)'
  BY NextKeeps, NextBooks
<1> QED BY <1>1, <1>2, <1>3, PTL DEF Spec
================================================================================
