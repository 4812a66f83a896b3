-------------------------------- MODULE Delivery --------------------------------
(***************************************************************************)
(* What the agent and the server together promise for recorded work: a     *)
(* block stays queued until the server has it, it is set aside, or it is   *)
(* given up openly, and the server holds it under the account and the      *)
(* workspace it was recorded in.  Upload.tla implements this.              *)
(***************************************************************************)
CONSTANTS Blocks, Scopes

VARIABLES
  fate,     \* where each block is on the device
  origin,   \* what was recorded: <<block, the scope it was recorded under>>
  stored,   \* what the server holds: <<block, scope>>
  erased    \* what the server held until an owner deleted it

vars == <<fate, origin, stored, erased>>

Init ==
  /\ fate = [b \in Blocks |-> "unrecorded"]
  /\ origin = {} /\ stored = {} /\ erased = {}

\* Every block of S goes to `to`.
Moved(S, to) == [b \in Blocks |-> IF b \in S THEN to ELSE fate[b]]

At(where) == {b \in Blocks : fate[b] = where}

\* Recording may push older blocks (or this one) over the queue's limits.
Record(b, scope) ==
  /\ fate[b] = "unrecorded"
  /\ \E over \in SUBSET (At("queued") \cup {b}) :
       fate' = [c \in Blocks |-> IF c \in over THEN "discarded"
                                 ELSE IF c = b THEN "queued" ELSE fate[c]]
  /\ origin' = origin \cup {<<b, scope>>}
  /\ UNCHANGED <<stored, erased>>

\* Any time after it was recorded: a request may be handled late.
Store(h) ==
  /\ h \in origin \ (stored \cup erased)
  /\ stored' = stored \cup {h}
  /\ UNCHANGED <<fate, origin, erased>>

Deliver(h) ==
  /\ fate[h[1]] = "queued" /\ h \in stored \cup erased
  /\ fate' = Moved({h[1]}, "delivered")
  /\ UNCHANGED <<origin, stored, erased>>

\* Kept for a while for the user to see, never delivered.
SetAside(S) ==
  /\ fate' = Moved(S, "parked")
  /\ UNCHANGED <<origin, stored, erased>>

\* The user deletes what was not uploaded.
Discard(S) ==
  /\ fate' = Moved(S, "discarded")
  /\ UNCHANGED <<origin, stored, erased>>

Erase(h) ==
  /\ stored' = stored \ {h}
  /\ erased' = erased \cup {h}
  /\ UNCHANGED <<fate, origin>>

Next ==
  \/ \E b \in Blocks, scope \in Scopes : Record(b, scope)
  \/ \E h \in origin : Store(h) \/ Deliver(h)
  \/ \E h \in stored : Erase(h)
  \/ \E S \in SUBSET At("queued") : SetAside(S)
  \/ \E S \in SUBSET (At("queued") \cup At("parked")) : Discard(S)

Spec == Init /\ [][Next]_vars

-------------------------------------------------------------------------------
Fates == {"unrecorded", "queued", "parked", "delivered", "discarded"}

Held == Blocks \X Scopes

(* Type correctness. *)
TypeOK ==
  /\ fate \in [Blocks -> Fates]
  /\ origin \subseteq Held /\ stored \subseteq Held /\ erased \subseteq Held

(* A block that left the queue as delivered is at the server, or was until    *)
(* an owner deleted it.                                                       *)
DeliveredIsHeld ==
  \A b \in Blocks : fate[b] = "delivered" => \E h \in stored \cup erased : h[1] = b

(* The server has a block under the one scope it was recorded in, and a block *)
(* an owner deleted does not come back.                                       *)
HeldWhereRecorded ==
  /\ stored \cup erased \subseteq origin
  /\ \A g, h \in origin : g[1] = h[1] => g = h
  /\ stored \cap erased = {}
================================================================================
