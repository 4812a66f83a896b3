--------------------------------- MODULE Blocks ---------------------------------
(***************************************************************************)
(* The block engine of the agent (clients/linux/src/agent/blocks.rs): how  *)
(* tracked time is cut into blocks, and which of it is kept when the user  *)
(* turns out to be away.  Time is in steps; `now` and the input that the   *)
(* sensors report are the environment's.                                   *)
(*                                                                         *)
(* Left out: descriptions, and the screenshot of a block with the          *)
(* permissions that rule it.                                               *)
(***************************************************************************)
EXTENDS Integers, Sequences, FiniteSets, Functions

CONSTANTS
  HoldGrace,    \* HOLD_GRACE
  MinBlock,     \* MIN_BLOCK
  Policies,     \* what a block may be recorded under: [interval, idle]
  Off,          \* the `idle` of a policy without idle detection
  NoStretch,    \* nothing is tracked
  MaxTime,      \* bound: the last instant of a behaviour
  MaxLag        \* bound: how late a notice of the system is handled

Block == [from : Nat, to : Nat, interval : Nat, idle : Nat \cup {Off}]

Stretch == [since : Nat, start : Nat, open : Policies, next : Policies,
            held : Seq(Block), heldActivity : Nat]

ASSUME BlocksAssumption ==
  /\ HoldGrace \in Nat /\ MinBlock \in Nat \ {0} /\ MaxTime \in Nat /\ MaxLag \in Nat
  /\ Off \notin Nat /\ NoStretch \notin Stretch
  /\ \A p \in Policies : /\ p.interval \in Nat /\ p.interval >= MinBlock
                         /\ p.idle \in Nat \cup {Off}

VARIABLES
  now,      \* the clock
  input,    \* the user's latest input
  stretch,  \* the stretch in progress
  final,    \* history: up to where the stretch's time is final
  raw,      \* history: the blocks the last call ended, the too short included
  finished, \* what the last call returned: of `raw`, and in its order
  call      \* history: the last call, and the moment it was about

vars == <<now, input, stretch, final, raw, finished, call>>

Latest(a, b) == IF a >= b THEN a ELSE b
Earliest(a, b) == IF a =< b THEN a ELSE b

Holding(s) == s.held # <<>>

\* Where the time not yet final begins.
UnsavedSince(s) == IF Holding(s) THEN s.held[1].from ELSE s.start

\* Mutant: a moment before the block's start is taken as it is.
FinishAt(from, to, p) ==
  [from |-> from, to |-> to, interval |-> p.interval, idle |-> p.idle]

Finish(from, to, p) ==
  [from |-> from, to |-> Latest(from, to), interval |-> p.interval, idle |-> p.idle]

LongEnough(b) == b.to - b.from >= MinBlock

-------------------------------------------------------------------------------
(* roll: the interval boundaries up to `until` *)

\* The k-th boundary: the open block has its own interval, the next ones the
\* policy's.
Boundary(s, k) == s.start + s.open.interval + (k - 1) * s.next.interval

Boundaries(s, until) ==
  IF Boundary(s, 1) > until THEN 0
  ELSE 1 + (until - Boundary(s, 1)) \div s.next.interval

Passed(s, until) ==
  [k \in 1 .. Boundaries(s, until) |->
     Finish(IF k = 1 THEN s.start ELSE Boundary(s, k - 1), Boundary(s, k),
            IF k = 1 THEN s.open ELSE s.next)]

\* Mutant: the next block starts when the boundary is noticed.
RolledLate(s, until) ==
  IF Boundaries(s, until) = 0 THEN s ELSE [s EXCEPT !.start = until, !.open = s.next]

\* The stretch with its open block moved past the boundaries.
Rolled(s, until) ==
  LET n == Boundaries(s, until)
  IN  IF n = 0 THEN s ELSE [s EXCEPT !.start = Boundary(s, n), !.open = s.next]

\* Mutant: a block counts as active when its start does.
ActiveAtStart(s, blocks, activity) ==
  IF Holding(s) THEN <<>>
  ELSE SelectSeq(blocks, LAMBDA b : b.from - activity =< HoldGrace)

\* Of the blocks passed, those that end with the user active: the first ones,
\* for once one is held so is every one after it.
Active(s, blocks, activity) ==
  IF Holding(s) THEN <<>>
  ELSE SubSeq(blocks, 1, Cardinality({i \in DOMAIN blocks : blocks[i].to - activity =< HoldGrace}))

Hold(s, blocks, activity) ==
  IF blocks = <<>> THEN s
  ELSE [s EXCEPT !.held = s.held \o blocks,
                 !.heldActivity = IF Holding(s) THEN s.heldActivity ELSE activity]

Release(s) == [s EXCEPT !.held = <<>>, !.heldActivity = 0]

-------------------------------------------------------------------------------
(* tick *)

ActivityOf(s) == Latest(input, s.since)

IdleOn(s) == s.open.idle # Off

\* Input since the hold, or idle detection turned off: the held blocks were work.
WasWork(s) == Holding(s) /\ (~IdleOn(s) \/ ActivityOf(s) > s.heldActivity)

\* Mutant: the block the last activity falls in goes with the rest.
CutWholeBlocks(blocks, last) == SelectSeq(blocks, LAMBDA b : b.to =< last)

\* What was tracked after the last activity is not work.  The blocks follow one
\* another, so that those left are the first ones.
CutAtLastActivity(blocks, last) ==
  LET left == {i \in DOMAIN blocks : blocks[i].to =< last \/ blocks[i].from < last}
  IN  [i \in 1 .. Cardinality(left) |-> [blocks[i] EXCEPT !.to = Earliest(@, last)]]

Ticked(s) ==
  LET activity == ActivityOf(s)
      released == IF WasWork(s) THEN s.held ELSE <<>>
      s1       == IF WasWork(s) THEN Release(s) ELSE s
      passed   == Passed(s1, now)
      done     == IF IdleOn(s) THEN Active(s1, passed, activity) ELSE passed
      later    == SubSeq(passed, Len(done) + 1, Len(passed))
      s2       == Rolled(IF IdleOn(s) THEN Hold(s1, later, activity) ELSE s1, now)
      away     == s2.open.idle # Off /\ now - activity >= s2.open.idle
      left     == CutAtLastActivity(Append(s2.held, Finish(s2.start, now, s2.open)), activity)
  IN  [blocks   |-> released \o done \o (IF away THEN left ELSE <<>>),
       stretch  |-> IF away THEN NoStretch ELSE s2]

-------------------------------------------------------------------------------
(* The calls *)

\* Mutant: the blocks still held are forgotten.
ClosedWithoutHeld(s, until) ==
  [blocks |-> Passed(Release(s), until), stretch |-> Rolled(Release(s), until)]

\* Everything finished up to `until`, with nothing held back.
Closed(s, until) ==
  LET s1 == Rolled(Release(s), until)
  IN  [blocks |-> s.held \o Passed(Release(s), until), stretch |-> s1]

Finished(blocks) ==
  /\ raw' = blocks /\ finished' = {b \in Range(blocks) : LongEnough(b)}
  /\ final' = IF blocks = <<>> THEN final ELSE blocks[Len(blocks)].to

Idling == [op |-> "none", at |-> 0]

Start(at, p) ==
  /\ stretch = NoStretch
  /\ stretch' = [since |-> at, start |-> at, open |-> p, next |-> p,
                 held |-> <<>>, heldActivity |-> 0]
  /\ final' = at /\ raw' = <<>> /\ finished' = {} /\ call' = [op |-> "start", at |-> at]
  /\ UNCHANGED <<now, input>>

Tick ==
  /\ stretch # NoStretch
  /\ Finished(Ticked(stretch).blocks) /\ stretch' = Ticked(stretch).stretch
  /\ call' = [op |-> "tick", at |-> now]
  /\ UNCHANGED <<now, input>>

End(at) ==
  /\ stretch # NoStretch
  /\ LET c == Closed(stretch, at)
     IN  Finished(Append(c.blocks, Finish(c.stretch.start, at, c.stretch.open)))
  /\ stretch' = NoStretch /\ call' = [op |-> "end", at |-> at]
  /\ UNCHANGED <<now, input>>

Cut(at) ==
  /\ stretch # NoStretch
  /\ LET c   == Closed(stretch, at)
         end == Latest(at, c.stretch.start)
     IN  /\ Finished(Append(c.blocks, Finish(c.stretch.start, end, c.stretch.open)))
         /\ stretch' = [c.stretch EXCEPT !.start = end, !.open = c.stretch.next]
  /\ call' = [op |-> "cut", at |-> at]
  /\ UNCHANGED <<now, input>>

UpdatePolicy(p) ==
  /\ stretch # NoStretch
  /\ stretch' = [stretch EXCEPT !.next = p]
  /\ raw' = <<>> /\ finished' = {} /\ call' = [op |-> "policy", at |-> now]
  /\ UNCHANGED <<now, input, final>>

Pass ==
  /\ now < MaxTime /\ now' = now + 1
  /\ input' \in {input, now'}
  /\ raw' = <<>> /\ finished' = {} /\ call' = Idling
  /\ UNCHANGED <<stretch, final>>

Init ==
  /\ now = 0 /\ input = 0 /\ stretch = NoStretch
  /\ final = 0 /\ raw = <<>> /\ finished = {} /\ call = Idling

Moments == Latest(0, now - MaxLag) .. now

Next ==
  \/ \E at \in Moments, p \in Policies : Start(at, p)
  \/ Tick
  \/ \E at \in Moments : End(at) \/ Cut(at)
  \/ \E p \in Policies : UpdatePolicy(p)
  \/ Pass

Spec == Init /\ [][Next]_vars

-------------------------------------------------------------------------------
(* Type correctness. *)
TypeOK ==
  /\ now \in 0 .. MaxTime /\ input \in 0 .. now /\ final \in 0 .. MaxTime
  /\ stretch # NoStretch => stretch \in Stretch
  /\ raw \in Seq(Block) /\ \A b \in Range(raw) : b.from =< b.to

Tiles(blocks) == \A i \in 1 .. Len(blocks) - 1 : blocks[i].to = blocks[i + 1].from

(* "Blocks follow one another without gaps": the held blocks, then the open   *)
(* one, continue exactly where the finished time of the stretch ends, however *)
(* ticks, cuts, holds, releases and policy changes follow one another.        *)
NoGaps ==
  stretch # NoStretch =>
    /\ Tiles(stretch.held)
    /\ UnsavedSince(stretch) = final
    /\ Holding(stretch) => stretch.held[Len(stretch.held)].to = stretch.start

(* "... and never exceed the interval", and what is ended is ended once and   *)
(* in order: from where the final time ended, without gaps, each block within *)
(* the interval it was started with; only what is too short is not returned.  *)
FinishedInOrder ==
  [][raw' # <<>> =>
       /\ raw'[1].from = final
       /\ Tiles(raw')
       /\ \A b \in Range(raw') : /\ b.to - b.from =< b.interval
                                 /\ b \in finished' \/ b.to - b.from < MinBlock]_vars

(* Time away is not work: while the open block has idle detection, no block a *)
(* tick returns ends more than the grace after the user's last input, however *)
(* late the tick and however many blocks were held.                           *)
AwayIsNotWork ==
  [][call'.op = "tick" /\ IdleOn(stretch) =>
       \A b \in finished' : b.to =< ActivityOf(stretch) + HoldGrace]_vars

(* Work is not lost: a call that ends or cuts the stretch at a moment leaves  *)
(* nothing before that moment undecided, and a stretch that a tick ends for   *)
(* inactivity keeps all of it up to the last input.                           *)
WorkIsKept ==
  [][/\ call'.op \in {"end", "cut"} => final' >= call'.at
     /\ call'.op = "tick" /\ stretch # NoStretch /\ stretch' = NoStretch
          => final' >= ActivityOf(stretch)]_vars
================================================================================
