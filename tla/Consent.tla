-------------------------------- MODULE Consent --------------------------------
(***************************************************************************)
(* What the user allows and what is recorded: the consent file and the     *)
(* manager in front of it (consent.rs), the acquisition lifecycle with its *)
(* generations and tickets (lifecycle.rs), the worker that narrows, saves  *)
(* and then widens (agent/worker.rs, update_consent), the open block's     *)
(* permissions (agent/blocks.rs), and the sensors and the screenshot       *)
(* thread that follow (tracking/tracker.rs).                               *)
(*                                                                         *)
(* A step is what a thread does between two points where another can act.  *)
(* The lifecycle's lock is held while a choice is saved (pc = "written").  *)
(* Whatever else stops tracking (no account, a lock, sleep) is `paused`.   *)
(***************************************************************************)
EXTENDS Naturals, Sequences

CONSTANT Plans   \* what the user, the workspace and the disk do in this instance

\* "plain": screenshots need not be blurred.
Capabilities == {"screenshot", "plain", "keyboard"}
AllUses == {"pause", "crash", "offline"}
AllFaults == {"disk", "damage"}

Absent == [given |-> "absent", perms |-> {}]
Revoked == [given |-> "revoked", perms |-> {}]
Unreadable == [given |-> "unreadable", perms |-> {}]
Granted(perms) == [given |-> "granted", perms |-> perms]
Choices == {Absent, Revoked} \cup {Granted(p) : p \in SUBSET Capabilities}

ASSUME ConsentAssumption ==
  \A p \in Plans : /\ p.choices \subseteq Choices /\ p.policies \subseteq SUBSET Capabilities
                   /\ p.uses \subseteq AllUses /\ p.faults \subseteq AllFaults
                   /\ p.moves \in Nat /\ p.blocks \in Nat

VARIABLES
  disk,        \* consent.json
  running,     \* the agent is up
  manager,     \* ConsentManager: the consent in memory
  life,        \* TrackerLifecycle: state, generation, project policy
  consent,     \* worker: the consent that applies
  unsynced,    \* worker: the last save failed
  project,     \* worker: what the workspace's project allows, as last heard
  session,     \* worker: the permissions of its session
  paused,      \* worker: tracking is off for another reason
  pc,          \* worker: how far update_consent is
  choice,      \* ... the choice it was asked for
  prior,       \* ... and the consent before it
  block,       \* the open block: what it may record
  nextPerms,   \* what the next block of the stretch may record
  lastBlock,
  listening,   \* the keyboard is counted
  camera,      \* the screenshot being taken
  answers,     \* finished screenshots on their way to the worker
  expected,    \* captures_in_flight: blocks whose screenshot is awaited
  screens,     \* screenshots of blocks not finished yet
  rows,        \* history: screenshots queued with a block
  wish,        \* history: the last choice of the user, as far as the disk has it
  tightened,   \* history: how often screenshots were taken back or blurred
  plan, moves  \* one of Plans, and how many of its moves were made

diskVars   == <<disk, running>>
lifeVars   == <<manager, life>>
workVars   == <<consent, unsynced, project, session, paused>>
updateVars == <<pc, choice, prior>>
blockVars  == <<block, nextPerms, lastBlock>>
shotVars   == <<camera, answers, expected, screens>>
planVars   == <<plan, moves>>
vars == <<diskVars, lifeVars, workVars, updateVars, blockVars, listening, shotVars, rows,
          wish, tightened, planVars>>

NoBlock == [id |-> 0, perms |-> {}, captured |-> FALSE]
NoCamera == [busy |-> FALSE, block |-> 0, image |-> [generation |-> 0, asked |-> 0]]

Init ==
  /\ disk = Absent /\ running = FALSE
  /\ manager = Absent /\ life = [state |-> "unconfigured", generation |-> 1, policy |-> {}]
  /\ plan \in Plans /\ moves = 0
  /\ consent = Absent /\ unsynced = FALSE /\ project \in plan.policies
  /\ session = {} /\ paused = FALSE
  /\ pc = "idle" /\ choice = Absent /\ prior = Absent
  /\ block = NoBlock /\ nextPerms = {} /\ lastBlock = 0 /\ listening = FALSE
  /\ camera = NoCamera /\ answers = <<>> /\ expected = {} /\ screens = {}
  /\ rows = {} /\ wish = Absent /\ tightened = 0

Move == moves < plan.moves /\ moves' = moves + 1 /\ UNCHANGED plan

\* The history counts what takes screenshots back, or asks for them blurred.
Tightens(old, new) == ~((old \cap {"screenshot", "plain"}) \subseteq new)
Tightened(old, new) == tightened' = tightened + IF Tightens(old, new) THEN 1 ELSE 0

-------------------------------------------------------------------------------
(* Consent and the lifecycle *)

\* has_any_active_capability
Any(perms) == perms \ {"plain"} # {}

\* (mutant of Narrowed: the choice applies before it is saved)
NarrowedAtOnce(current, target) == target

\* What applies before it is saved: all that is taken back, nothing new.
Narrowed(current, target) ==
  CASE target.given = "granted" /\ current.given = "granted" ->
         Granted(current.perms \cap target.perms)
    [] target.given = "granted" /\ current.given # "granted" -> current
    [] OTHER -> target

\* Project policy and local consent.
Effective(m, l) == m.perms \cap l.policy

Renewed(l) == [l EXCEPT !.generation = @ + 1]

\* A policy that did not change leaves the tickets alone.
Configured(l, m, perms) ==
  LET c == [Renewed(l) EXCEPT !.policy = perms] IN
  CASE l.state = "unconfigured" -> [c EXCEPT !.state = "stopped"]
    [] l.state # "unconfigured" /\ l.policy = perms -> l
    [] OTHER -> IF Any(Effective(m, c)) THEN c ELSE [c EXCEPT !.state = "stopped"]

Started(l, m) ==
  IF l.state = "stopped" /\ m.given = "granted" /\ Any(Effective(m, l))
  THEN [Renewed(l) EXCEPT !.state = "tracking"] ELSE l

Halted(l) == IF l.state = "tracking" THEN [Renewed(l) EXCEPT !.state = "stopped"] ELSE l

\* apply_sensor_policy: admission first, ...
On(l, m, perms) ==
  LET c == Configured(l, m, perms) IN IF Any(perms) THEN Started(c, m) ELSE Halted(c)

Off(l, m) == Halted(Configured(l, m, {}))

\* (mutant of Listens: a listener that runs is left running)
ListensOn(active, perms) == listening \/ (active /\ "keyboard" \in perms)

\* ... then the listener, which is gone when the call returns.
Listens(active, perms) == active /\ "keyboard" \in perms

\* apply_sensor_policy(active, perms)
Apply(m, active, perms) ==
  /\ life' = IF active THEN On(life, m, perms) ELSE Off(life, m)
  /\ listening' = Listens(active, perms)

\* A changed consent makes every ticket stale.
Consented(l, m) ==
  LET r == Renewed(l) IN IF l.state = "tracking" /\ ~Any(Effective(m, l))
                         THEN [r EXCEPT !.state = "stopped"] ELSE r

Admits(l, m) == l.state = "tracking" /\ "screenshot" \in Effective(m, l)

-------------------------------------------------------------------------------
(* Screenshots *)

\* The policy of the session, when there is consent.
Permitted(c, unsaved, perms) == IF c.given = "granted" /\ ~unsaved THEN perms ELSE {}
Current == Permitted(consent, unsynced, session)

IdleWorker == running /\ pc = "idle"

NewImage == [generation |-> life.generation, asked |-> tightened]

\* The moment of the open block's screenshot: asked for when it is permitted
\* and none is being taken; either way the moment has passed.
Capture ==
  LET asks == "screenshot" \in Current /\ ~camera.busy /\ Admits(life, manager) IN
  /\ IdleWorker /\ block # NoBlock /\ ~block.captured /\ "screenshot" \in block.perms
  /\ block' = [block EXCEPT !.captured = TRUE]
  /\ camera' = IF asks THEN [busy |-> TRUE, block |-> block.id, image |-> NewImage] ELSE camera
  /\ expected' = IF asks THEN expected \cup {block.id} ELSE expected
  /\ UNCHANGED <<diskVars, lifeVars, workVars, updateVars, nextPerms, lastBlock, listening,
                 answers, screens, rows, wish, tightened, planVars>>

\* The thread: a screenshot that outlived its ticket is not handed over.
Taken ==
  /\ running /\ camera.busy /\ pc # "written"
  /\ camera' = NoCamera
  /\ \E good \in BOOLEAN :
       answers' = Append(answers,
         [block |-> camera.block, image |-> camera.image,
          some |-> good /\ Admits(life, manager) /\ camera.image.generation = life.generation])
  /\ UNCHANGED <<diskVars, lifeVars, workVars, updateVars, blockVars, listening, expected,
                 screens, rows, wish, tightened, planVars>>

\* Kept when it is still expected, its block is open, and it is permitted.
OnCapture ==
  LET e == Head(answers) IN
  /\ IdleWorker /\ answers # <<>> /\ answers' = Tail(answers)
  /\ expected' = expected \ {e.block}
  /\ screens' = IF e.some /\ e.block \in expected /\ e.block = block.id /\ "screenshot" \in Current
                THEN screens \cup {[block |-> e.block, image |-> e.image]} ELSE screens
  /\ UNCHANGED <<diskVars, lifeVars, workVars, updateVars, blockVars, listening, camera, rows,
                 wish, tightened, planVars>>

\* (mutant of Attachable: any screenshot of the block)
AttachableAny(image, b, l, m) == "screenshot" \in b.perms

\* snapshot: never one of an earlier generation.
Attachable(image, b, l, m) ==
  "screenshot" \in b.perms /\ Admits(l, m) /\ image.generation = l.generation

\* record: the screenshot of the block, or one taken at its end when its
\* moment had not come (`late`).  The queue keeps when it was asked for.
Recorded(b, late, l, m, permitted) ==
  LET taken  == {s.image : s \in {x \in screens : x.block = b.id}}
      atEnd  == late /\ taken = {} /\ ~b.captured
      images == IF "screenshot" \notin permitted THEN {}
                ELSE IF atEnd /\ Admits(l, m)
                     THEN {[generation |-> l.generation, asked |-> tightened]} ELSE taken
  IN rows \cup {[asked |-> i.asked, kept |-> tightened] :
                  i \in {x \in images : Attachable(x, b, l, m)}}

\* (mutant of Pruned: what came for the finished block stays)
PrunedNever(b) == UNCHANGED <<screens, expected>>

\* prune_screens
Pruned(b) ==
  /\ screens' = {s \in screens : s.block = b.id}
  /\ expected' = expected \cap {b.id}

-------------------------------------------------------------------------------
(* Tracking *)

ShouldTrack(c, unsaved, off) == c.given = "granted" /\ ~unsaved /\ ~off

Opens(perms) ==
  /\ lastBlock < plan.blocks /\ lastBlock' = lastBlock + 1
  /\ block' = [id |-> lastBlock', perms |-> perms, captured |-> FALSE]
  /\ nextPerms' = perms

\* An interval is over (or the user cut the block): the next one follows.
Roll ==
  /\ IdleWorker /\ block # NoBlock
  /\ \E late \in BOOLEAN : rows' = Recorded(block, late, life, manager, Current)
  /\ Opens(nextPerms) /\ Pruned(block')
  /\ UNCHANGED <<diskVars, lifeVars, workVars, updateVars, listening, camera, answers, wish,
                 tightened, planVars>>

\* The user pauses, or the session locks, and no screenshot at the end then.
Pause ==
  /\ IdleWorker /\ "pause" \in plan.uses /\ ~paused /\ paused' = TRUE /\ Move
  /\ \E late \in BOOLEAN :
       rows' = IF block = NoBlock THEN rows ELSE Recorded(block, late, life, manager, Current)
  /\ block' = NoBlock /\ Pruned(NoBlock)
  /\ Apply(manager, FALSE, {})
  /\ UNCHANGED <<diskVars, manager, consent, unsynced, project, session, updateVars, nextPerms,
                 lastBlock, camera, answers, wish, tightened>>

Resume ==
  /\ IdleWorker /\ paused /\ paused' = FALSE
  /\ IF ShouldTrack(consent, unsynced, FALSE)
     THEN Opens(session) /\ Apply(manager, TRUE, session)
     ELSE UNCHANGED <<blockVars, life, listening>>
  /\ UNCHANGED <<diskVars, manager, consent, unsynced, project, session, updateVars, shotVars,
                 rows, wish, tightened, planVars>>

\* The project's policy was refreshed: the sensors follow it, the open block
\* keeps what it started under.
PolicyArrives ==
  /\ IdleWorker /\ Move
  /\ \E p \in plan.policies \ {project} :
       /\ project' = p /\ session' = consent.perms \cap p
       /\ Tightened(wish.perms \cap project, wish.perms \cap p)
  /\ nextPerms' = IF block = NoBlock THEN nextPerms ELSE session'
  /\ Apply(manager, block # NoBlock, session')
  /\ UNCHANGED <<diskVars, manager, consent, unsynced, paused, updateVars, block, lastBlock,
                 shotVars, rows, wish>>

-------------------------------------------------------------------------------
(* update_consent *)

\* The end of every part: the block follows what should be tracked.  A stop
\* records nothing of the sensors, which are off by now.
Reconciled(tracks) ==
  IF tracks
  THEN IF block = NoBlock THEN Opens(session')
       ELSE nextPerms' = session' /\ UNCHANGED <<block, lastBlock>>
  ELSE block' = NoBlock /\ UNCHANGED <<nextPerms, lastBlock>>

\* (mutant of Ended: the block goes on)
EndedLater == UNCHANGED block

Ended == block' = NoBlock

\* Step 1: what is withdrawn stops before anything is saved.
UpdateConsent(c) ==
  LET now    == Narrowed(consent, c)
      tracks == ShouldTrack(now, unsynced, paused)
      allows == "screenshot" \in Permitted(now, unsynced, session')
  IN
  /\ IdleWorker /\ Move
  /\ c # consent \/ unsynced
  /\ pc' = "narrowed" /\ choice' = c /\ prior' = consent
  /\ consent' = now /\ session' = now.perms \cap project
  /\ Apply(manager, tracks, session')
  /\ IF tracks
     THEN IF block = NoBlock THEN Opens(session')
          ELSE /\ block' = [block EXCEPT !.perms = session'] /\ nextPerms' = session'
               /\ UNCHANGED lastBlock
     ELSE block' = NoBlock /\ UNCHANGED <<nextPerms, lastBlock>>
  /\ screens' = IF allows /\ tracks THEN screens ELSE {}
  /\ expected' = IF allows /\ tracks THEN expected ELSE {}
  /\ wish' = c /\ Tightened(wish.perms \cap project, c.perms \cap project)
  /\ UNCHANGED <<diskVars, manager, unsynced, project, paused, camera, answers, rows>>

UpdateRest == UNCHANGED <<running, project, paused, choice, prior, camera, answers, rows, wish,
                          tightened, planVars>>
WorkerWaits == UNCHANGED <<consent, unsynced, session, blockVars, listening, expected, screens>>

\* Step 2: the file is replaced at once or not at all.
Write ==
  /\ running /\ pc = "narrowed" /\ manager # choice
  /\ disk' = choice /\ manager' = Narrowed(manager, choice) /\ pc' = "written"
  /\ UNCHANGED life /\ UpdateRest /\ WorkerWaits

Written ==
  /\ running /\ pc = "written" /\ pc' = "saved"
  /\ manager' = choice /\ life' = Consented(life, choice)
  /\ UNCHANGED disk /\ UpdateRest /\ WorkerWaits

\* Nothing to do for the manager: it has this consent already.
Unwritten ==
  /\ running /\ pc = "narrowed" /\ manager = choice /\ pc' = "saved"
  /\ UNCHANGED <<disk, lifeVars>> /\ UpdateRest /\ WorkerWaits

WriteFails ==
  /\ running /\ pc = "narrowed" /\ manager # choice /\ "disk" \in plan.faults
  /\ manager' = Narrowed(manager, choice) /\ pc' = "unsaved"
  /\ life' = IF manager' = manager THEN life ELSE Consented(life, manager')
  /\ UNCHANGED disk /\ UpdateRest /\ WorkerWaits

\* Saved: now what was added applies too.
Widen ==
  /\ running /\ pc = "saved" /\ pc' = "idle"
  /\ consent' = choice /\ unsynced' = FALSE /\ session' = choice.perms \cap project
  /\ Apply(manager, ShouldTrack(choice, FALSE, paused), session')
  /\ Reconciled(ShouldTrack(choice, FALSE, paused))
  /\ UNCHANGED <<disk, manager, expected, screens>> /\ UpdateRest

\* Not saved: everything stops, until a save succeeds.
FailClosed ==
  /\ running /\ pc = "unsaved" /\ pc' = "idle"
  /\ consent' = (IF prior = Absent THEN Absent ELSE Revoked) /\ unsynced' = TRUE
  /\ session' = {} /\ Apply(manager, FALSE, {})
  /\ Ended /\ screens' = {} /\ expected' = {}
  /\ UNCHANGED <<disk, manager, nextPerms, lastBlock>> /\ UpdateRest

-------------------------------------------------------------------------------
(* The process *)

\* A file that cannot be read counts as no consent.
Loaded == IF disk = Unreadable THEN Absent ELSE disk

\* Consent and lifecycle are read anew; the worker starts tracking when it may.
Start ==
  LET off   == [state |-> "stopped", generation |-> 2, policy |-> {}]
      perms == Loaded.perms \cap project
  IN
  /\ ~running /\ running' = TRUE
  /\ manager' = Loaded /\ consent' = Loaded /\ wish' = Loaded
  /\ unsynced' = FALSE /\ paused' = FALSE /\ session' = perms
  /\ IF ShouldTrack(Loaded, FALSE, FALSE)
     THEN /\ Opens(perms)
          /\ life' = On(off, Loaded, perms) /\ listening' = Listens(TRUE, perms)
     ELSE /\ block' = NoBlock /\ nextPerms' = {} /\ life' = off /\ listening' = FALSE
          /\ UNCHANGED lastBlock
  /\ UNCHANGED <<disk, project, updateVars, shotVars, rows, tightened, planVars>>

\* Killed at any point, in the middle of an update too.
Crash ==
  /\ running /\ running' = FALSE /\ "crash" \in plan.uses /\ Move
  /\ pc' = "idle" /\ block' = NoBlock /\ listening' = FALSE
  /\ camera' = NoCamera /\ answers' = <<>> /\ expected' = {} /\ screens' = {}
  /\ UNCHANGED <<disk, lifeVars, workVars, choice, prior, nextPerms, lastBlock, rows, wish,
                 tightened>>

\* While the agent is down: the command line writes the file, or it is damaged.
Offline ==
  /\ ~running /\ Move
  /\ \/ "offline" \in plan.uses /\ \E c \in plan.choices : disk' = c
     \/ "damage" \in plan.faults /\ disk' = Unreadable
  /\ UNCHANGED <<running, lifeVars, workVars, updateVars, blockVars, listening, shotVars, rows,
                 wish, tightened>>

Next ==
  \/ \E c \in plan.choices : UpdateConsent(c)
  \/ Write \/ Written \/ Unwritten \/ WriteFails \/ Widen \/ FailClosed
  \/ Capture \/ Taken \/ OnCapture
  \/ Roll \/ Pause \/ Resume \/ PolicyArrives
  \/ Start \/ Crash \/ Offline

Spec == Init /\ [][Next]_vars

-------------------------------------------------------------------------------
(* What should hold *)

(* Type correctness. *)
TypeOK ==
  /\ disk \in Choices \cup {Unreadable} /\ running \in BOOLEAN
  /\ manager \in Choices /\ consent \in Choices /\ choice \in Choices
  /\ prior \in Choices /\ wish \in Choices
  /\ life \in [state : {"unconfigured", "stopped", "tracking"}, generation : Nat,
               policy : SUBSET Capabilities]
  /\ unsynced \in BOOLEAN /\ paused \in BOOLEAN /\ listening \in BOOLEAN
  /\ project \in SUBSET Capabilities /\ session \in SUBSET Capabilities
  /\ nextPerms \in SUBSET Capabilities
  /\ pc \in {"idle", "narrowed", "written", "saved", "unsaved"}
  /\ block \in [id : Nat, perms : SUBSET Capabilities, captured : BOOLEAN]
  /\ lastBlock \in Nat /\ tightened \in Nat /\ moves \in Nat /\ plan \in Plans
  /\ camera.busy \in BOOLEAN /\ camera.image.generation <= life.generation
  /\ Len(answers) <= lastBlock /\ expected \subseteq 1 .. lastBlock
  /\ \A s \in screens : s.block = block.id

(* ConsentManager::update, narrowed ("newly added capabilities are admitted     *)
(* only after persistence succeeds"): what applies is never more than what a   *)
(* restart would find in the file.                                             *)
WideningWaits ==
  running => consent.perms \subseteq disk.perms /\ manager.perms \subseteq disk.perms

(* update_consent, apply_sensor_policy: from the moment the user chooses, the   *)
(* keyboard is counted and screenshots are admitted only as chosen, and only   *)
(* as the workspace allows.                                                     *)
SensorsFollow ==
  running =>
    /\ listening => "keyboard" \in wish.perms \cap project
    /\ Admits(life, manager) => "screenshot" \in wish.perms \cap project

(* capture, on_capture, snapshot: a screenshot that is queued was asked for     *)
(* after the last time that screenshots were withdrawn or blurring was asked.  *)
NoStaleShot == \A r \in rows : r.asked = r.kept

(* update_consent ("a failed save stops everything"): until a save succeeds    *)
(* nothing is tracked, counted, admitted or kept.                              *)
FailsClosed ==
  running /\ unsynced =>
    block = NoBlock /\ ~listening /\ life.state # "tracking" /\ screens = {}

(* AppState ("whether in-memory consent differs from on-disk consent due to a  *)
(* write failure"): when it does not say so, a restart finds what applies.     *)
SyncedIsSaved == running /\ pc = "idle" /\ ~unsynced => disk.perms = consent.perms
================================================================================
