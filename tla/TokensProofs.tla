------------------------------ MODULE TokensProofs ------------------------------
(***************************************************************************)
(* Proofs about Tokens.tla, for any plans and bounds: types; the lock of a *)
(* token cell, which at most one client holds, one that is renewing with   *)
(* the token the cell has and still has the cell when it lets go; and the  *)
(* order of the blocks that wait for a key.                                *)
(***************************************************************************)
EXTENDS Tokens, SequenceTheorems, TLAPS

\* Tokens that were granted, and 0; cells that were given out, and 0.
Known == 0 .. Len(grants)
Out == 0 .. lastCell

Cell == [access : Known, refresh : Known, age : {"fresh", "ageing", "expired"},
         holder : Clients \cup {"nobody"}, watched : BOOLEAN]
Event == [op : {"expired", "signedIn"}, cell : Out \ {0}]
Command == [op : {"none", "use", "drop", "signIn"}, cell : Out]
Secrets == [refresh : Known, key : Nat]
Row == [block : Nat, key : Nat]

\* A client that is not idle has a cell; one that renews has a token.
ClientRecord == [cell : Out, pc : Steps, token : Known, attempt : 1 .. 2]
Client == {v \in ClientRecord : /\ v.pc # "idle" => v.cell # 0
                                /\ v.pc = "renew" => v.token # 0}

GrantsTyped ==
  grants \in Seq(Nat) /\ used \subseteq Nat /\ ended \subseteq Nat /\ denied \subseteq Nat

CellsTyped == cells \in [Cells -> Cell] /\ lastCell \in 0 .. MaxCells

ClientsTyped == client \in [Clients -> Client]

TodoTyped == todo \in [Clients -> Command]

EventsTyped == events \in [Clients -> Seq(Event)]

SavingTyped == sent \in Seq(Known) /\ saving \in Secrets /\ item \in Secrets

\* The device is revoked and the secrets are saved with the account at hand,
\* never while its secrets could not be read.
AccountTyped ==
  /\ account \in [cell : Out, key : Nat] /\ lastKey \in 0 .. MaxKeys
  /\ revoked => account.cell # 0
  /\ credLocked => account.cell = 0
  /\ keeping \in [at : {"no", "read", "write"}, refresh : Known, connects : BOOLEAN]
  /\ keeping.at = "no" => keeping = NotKeeping
  /\ keeping.at # "no" => account.cell # 0

FlagsTyped ==
  /\ farewell \in {"no", "asked", "saying"} /\ locked \in BOOLEAN
  /\ signedIn \in BOOLEAN /\ expired \in BOOLEAN /\ credLocked \in BOOLEAN
  /\ revoked \in BOOLEAN /\ signingIn \in BOOLEAN

PlanTyped ==
  /\ plan \in Plans /\ trouble \in 0 .. plan.trouble
  /\ excuses \subseteq {"lost", "ended", "unsaved", "stale"}

BlocksTyped ==
  unsigned \in Seq(Nat) /\ rows \in Seq(Row) /\ lastBlock \in 0 .. plan.blocks

Typed ==
  /\ GrantsTyped /\ CellsTyped /\ ClientsTyped /\ TodoTyped /\ EventsTyped
  /\ SavingTyped /\ AccountTyped /\ FlagsTyped /\ PlanTyped /\ BlocksTyped

-------------------------------------------------------------------------------
(* What the types give *)

\* Counters and bounds are natural numbers, and 0 is in every range.
LEMMA Numbers ==
  ASSUME Typed
  PROVE  /\ 0 \in Known /\ Len(grants) \in Nat /\ 0 \in Out
         /\ lastCell \in Nat /\ lastCell <= MaxCells /\ MaxCells \in Nat
         /\ plan.blocks \in Nat /\ plan.trouble \in Nat
  BY TokensAssumption DEF Typed, GrantsTyped, Known, Out, CellsTyped, PlanTyped

\* A cell that was given out is a cell.
LEMMA OutIsCell ==
  ASSUME Typed, NEW k \in Out, k # 0
  PROVE  k \in Cells /\ cells[k] \in Cell
  BY Numbers DEF Typed, CellsTyped, Out, Cells

\* What a client is, and what its cell is.
LEMMA ClientHas ==
  ASSUME Typed, NEW c \in Clients
  PROVE  /\ client[c] \in ClientRecord
         /\ client[c].cell \in Out /\ client[c].token \in Known
         /\ client[c].pc # "idle" => client[c].cell # 0
         /\ client[c].cell # 0 => client[c].cell \in Cells /\ cells[client[c].cell] \in Cell
         /\ client[c].pc = "renew" => /\ client[c].token \in 1 .. Len(grants)
                                      /\ grants[client[c].token] \in Nat
<1>1. client[c] \in Client
  BY DEF Typed, ClientsTyped
<1>2. /\ client[c] \in ClientRecord
      /\ client[c].pc # "idle" => client[c].cell # 0
      /\ client[c].pc = "renew" => client[c].token # 0
  BY <1>1 DEF Client
<1>3. client[c].cell \in Out /\ client[c].token \in Known
  BY <1>2 DEF ClientRecord
<1>4. client[c].cell # 0 => client[c].cell \in Cells /\ cells[client[c].cell] \in Cell
  BY <1>3, OutIsCell
<1>5. client[c].pc = "renew" => client[c].token \in 1 .. Len(grants)
  BY <1>2, <1>3, Numbers DEF Known
<1> QED BY <1>2, <1>3, <1>4, <1>5 DEF Typed, GrantsTyped

\* A client that is idle, with any cell that was given out, is a client.
LEMMA IdleTyped ==
  ASSUME Typed, NEW k \in Out
  PROVE  Idle(k) \in Client
  BY Numbers DEF Idle, Client, ClientRecord, Steps

\* What ensure_token makes of a client before the lock is a client.
LEMMA EnsuredTyped ==
  ASSUME Typed, NEW c \in Clients, client[c].cell # 0, NEW cell \in Cell, NEW n \in 1 .. 2
  PROVE  Ensured(c, cell, n) \in Client
<1>1. client[c] \in ClientRecord /\ cell.access \in Known
  BY ClientHas DEF Cell
<1>2. Ensured(c, cell, n) \in ClientRecord
  BY <1>1, Numbers DEF Ensured, ClientRecord, Steps
<1> QED BY <1>1, <1>2 DEF Ensured, Client, ClientRecord

\* A command or a report about a cell that was given out is one.
LEMMA ToldTyped ==
  ASSUME Typed, NEW k \in Out
  PROVE  /\ Told("use", k) \in Command /\ Told("drop", k) \in Command
         /\ Told("signIn", k) \in Command /\ Told("none", k) \in Command
         /\ k # 0 => Told("expired", k) \in Event /\ Told("signedIn", k) \in Event
  BY DEF Told, Command, Event

\* Clients stay typed when one of them becomes another client record.
LEMMA ClientMoves ==
  ASSUME Typed, NEW c \in Clients, NEW v \in Client,
         client' = [client EXCEPT ![c] = v], Known' = Known, Out' = Out
  PROVE  ClientsTyped'
<1>1. Client' = Client
  BY DEF Client, ClientRecord
<1> QED BY <1>1 DEF Typed, ClientsTyped

\* Cells stay typed when one of them becomes another cell record.
LEMMA CellChanges ==
  ASSUME Typed, NEW k \in Cells, NEW v \in Cell,
         cells' = [cells EXCEPT ![k] = v], Known' = Known, lastCell' = lastCell
  PROVE  CellsTyped'
<1>1. Cell' = Cell
  BY DEF Cell
<1> QED BY <1>1 DEF Typed, CellsTyped

\* Reports stay typed when a client adds one.
LEMMA Reported ==
  ASSUME Typed, NEW c \in Clients, NEW e \in Event, Report(c, e), Out' = Out
  PROVE  EventsTyped'
<1>1. Event' = Event
  BY DEF Event
<1>2. events[c] \in Seq(Event)
  BY DEF Typed, EventsTyped
<1>3. Append(events[c], e) \in Seq(Event)
  BY <1>2
<1>4. events \in [Clients -> Seq(Event)]
  BY DEF Typed, EventsTyped
<1> QED BY <1>1, <1>3, <1>4 DEF EventsTyped, Report

\* The report the worker takes is one, and what is left are reports.
LEMMA Taken ==
  ASSUME Typed, NEW c \in Clients, events[c] # <<>>
  PROVE  Head(events[c]) \in Event /\ Tail(events[c]) \in Seq(Event)
  BY DEF Typed, EventsTyped

\* What is in range stays in range while nothing is granted.
LEMMA SameSets ==
  ASSUME grants' = grants, lastCell' = lastCell
  PROVE  /\ Known' = Known /\ Out' = Out /\ Cell' = Cell /\ Event' = Event
         /\ Command' = Command /\ Secrets' = Secrets /\ Client' = Client
  BY DEF Known, Out, Cell, Event, Command, Secrets, Client, ClientRecord

-------------------------------------------------------------------------------
(* Every step keeps the types *)

\* Types are kept by what a client does by itself.
LEMMA ClientTyped ==
  ASSUME Typed, NEW c \in Clients,
         \/ Ask(c) \/ Renew(c) \/ TakeGrant(c) \/ TakeRefusal(c) \/ TakeFailure(c)
         \/ Done(c) \/ Unauthorized(c)
  PROVE  Typed'
<1> DEFINE k == client[c].cell
<1>0. /\ grants' = grants /\ lastCell' = lastCell
      /\ GrantsTyped' /\ AccountTyped' /\ FlagsTyped' /\ PlanTyped' /\ BlocksTyped'
      /\ TodoTyped'
  <2>1. /\ UNCHANGED <<serverVars, lastCell, todo, farewell, saving, ringVars, accountVars,
                       blockVars, historyVars>>
    BY DEF Ask, Renew, TakeGrant, TakeRefusal, TakeFailure, Done, Unauthorized, ClientRest
  <2>2. grants' = grants /\ lastCell' = lastCell
    BY <2>1 DEF serverVars
  <2> QED BY <2>1, <2>2, SameSets DEF Typed, serverVars, ringVars, accountVars, blockVars,
             historyVars, GrantsTyped, AccountTyped, FlagsTyped, PlanTyped, BlocksTyped,
             TodoTyped
<1>a. /\ Known' = Known /\ Out' = Out /\ Cell' = Cell /\ Event' = Event
      /\ Command' = Command /\ Secrets' = Secrets /\ Client' = Client
  BY <1>0, SameSets
<1>b. sent' = sent /\ saving' = saving /\ item' = item => SavingTyped'
  BY <1>a DEF Typed, SavingTyped
<1>c. cells' = cells => CellsTyped'
  BY <1>0, <1>a DEF Typed, CellsTyped
<1>d. events' = events => EventsTyped'
  BY <1>a DEF Typed, EventsTyped
<1>e. saving' = saving /\ item' = item
  BY DEF Ask, Renew, TakeGrant, TakeRefusal, TakeFailure, Done, Unauthorized, ClientRest,
         ringVars
<1>f. client[c].pc # "idle" => k \in Cells /\ cells[k] \in Cell /\ k \in Out /\ k # 0
  BY ClientHas
<1>1. CASE Ask(c)
  <2>1. /\ client' = [client EXCEPT ![c] = Ensured(c, cells[k], 1)]
        /\ k # 0 /\ cells' = cells /\ events' = events /\ sent' = sent
    BY <1>1 DEF Ask
  <2>2. Ensured(c, cells[k], 1) \in Client
    BY <2>1, EnsuredTyped, ClientHas
  <2>3. ClientsTyped'
    BY <2>1, <2>2, <1>a, ClientMoves
  <2> QED BY <1>0, <1>b, <1>c, <1>d, <1>e, <2>1, <2>3 DEF Typed
<1>2. CASE Renew(c)
  <2>0. client[c].pc = "queue" /\ sent' = sent
    BY <1>2 DEF Renew
  <2>1. CASE /\ client' = [client EXCEPT ![c].pc = "send", ![c].token = cells[k].access]
             /\ UNCHANGED <<cells, events>>
    <3>1. client' = [client EXCEPT ![c] = [client[c] EXCEPT !.pc = "send",
                                                            !.token = cells[k].access]]
      BY <2>1
    <3>2. [client[c] EXCEPT !.pc = "send", !.token = cells[k].access] \in Client
      BY <1>f, <2>0, ClientHas DEF Client, ClientRecord, Cell, Steps
    <3> QED BY <1>0, <1>a, <1>b, <1>c, <1>d, <1>e, <2>0, <2>1, <3>1, <3>2, ClientMoves
            DEF Typed
  <2>2. CASE /\ cells[k].refresh # 0
             /\ cells' = [cells EXCEPT ![k].holder = c]
             /\ client' = [client EXCEPT ![c].pc = "renew", ![c].token = cells[k].refresh]
             /\ UNCHANGED events
    <3>1. client' = [client EXCEPT ![c] = [client[c] EXCEPT !.pc = "renew",
                                                            !.token = cells[k].refresh]]
      BY <2>2
    <3>2. [client[c] EXCEPT !.pc = "renew", !.token = cells[k].refresh] \in Client
      BY <1>f, <2>0, <2>2, ClientHas DEF Client, ClientRecord, Cell, Steps
    <3>3. cells' = [cells EXCEPT ![k] = [cells[k] EXCEPT !.holder = c]]
      BY <2>2
    <3>4. [cells[k] EXCEPT !.holder = c] \in Cell
      BY <1>f, <2>0 DEF Cell
    <3> QED BY <1>0, <1>a, <1>b, <1>d, <1>e, <1>f, <2>0, <2>2, <3>1, <3>2, <3>3, <3>4,
               ClientMoves, CellChanges DEF Typed
  <2>3. CASE /\ client' = [client EXCEPT ![c] = Idle(k)] /\ Report(c, Told("expired", k))
             /\ UNCHANGED cells
    <3>1. Told("expired", k) \in Event /\ Idle(k) \in Client
      BY <1>f, <2>0, ToldTyped, IdleTyped
    <3> QED BY <1>0, <1>a, <1>b, <1>c, <1>e, <2>0, <2>3, <3>1, ClientMoves, Reported
            DEF Typed
  <2> QED BY <1>2, <2>1, <2>2, <2>3 DEF Renew
<1>3. CASE TakeGrant(c)
  <2>0. client[c].pc = "granted" /\ events' = events
    BY <1>3 DEF TakeGrant
  <2>1. /\ client' = [client EXCEPT ![c] = [client[c] EXCEPT !.pc = "send"]]
        /\ cells' = [cells EXCEPT ![k] = [Granted(cells[k], client[c].token)
                                            EXCEPT !.holder = "nobody"]]
        /\ sent' = sent \o Announced(cells[k], client[c].token)
    BY <1>3 DEF TakeGrant
  <2>2. [client[c] EXCEPT !.pc = "send"] \in Client
    BY <1>f, <2>0, ClientHas DEF Client, ClientRecord, Steps
  <2>3. [Granted(cells[k], client[c].token) EXCEPT !.holder = "nobody"] \in Cell
    BY <1>f, <2>0, ClientHas DEF Granted, Cell
  <2>4. Announced(cells[k], client[c].token) \in Seq(Known)
    BY ClientHas DEF Announced
  <2>5. SavingTyped'
    BY <1>a, <1>e, <2>1, <2>4 DEF Typed, SavingTyped
  <2> QED BY <1>0, <1>a, <1>d, <1>f, <2>0, <2>1, <2>2, <2>3, <2>5, ClientMoves, CellChanges
          DEF Typed
<1>4. CASE TakeRefusal(c)
  <2>0. client[c].pc = "refused" /\ sent' = sent /\ Report(c, Told("expired", k))
    BY <1>4 DEF TakeRefusal
  <2>1. /\ client' = [client EXCEPT ![c] = Idle(k)]
        /\ cells' = [cells EXCEPT ![k] = [cells[k] EXCEPT !.holder = "nobody"]]
    BY <1>4 DEF TakeRefusal
  <2>2. Told("expired", k) \in Event /\ Idle(k) \in Client
    BY <1>f, <2>0, ToldTyped, IdleTyped
  <2>3. [cells[k] EXCEPT !.holder = "nobody"] \in Cell
    BY <1>f, <2>0 DEF Cell
  <2> QED BY <1>0, <1>a, <1>b, <1>e, <1>f, <2>0, <2>1, <2>2, <2>3, ClientMoves, CellChanges,
             Reported DEF Typed
<1>5. CASE TakeFailure(c)
  <2> DEFINE v == IF Valid(cells[k]) THEN [client[c] EXCEPT !.pc = "send",
                                                            !.token = cells[k].access]
                  ELSE Idle(k)
  <2>0. client[c].pc = "failed" /\ sent' = sent /\ events' = events
    BY <1>5 DEF TakeFailure
  <2>1. /\ client' = [client EXCEPT ![c] = v]
        /\ cells' = [cells EXCEPT ![k] = [cells[k] EXCEPT !.holder = "nobody"]]
    BY <1>5 DEF TakeFailure
  <2>2. [client[c] EXCEPT !.pc = "send", !.token = cells[k].access] \in Client
    BY <1>f, <2>0, ClientHas DEF Client, ClientRecord, Cell, Steps
  <2>3. v \in Client
    BY <1>f, <2>0, <2>2, IdleTyped
  <2>4. [cells[k] EXCEPT !.holder = "nobody"] \in Cell
    BY <1>f, <2>0 DEF Cell
  <2> HIDE DEF v
  <2> QED BY <1>0, <1>a, <1>b, <1>d, <1>e, <1>f, <2>0, <2>1, <2>3, <2>4, ClientMoves,
             CellChanges DEF Typed
<1>6. CASE Done(c)
  <2>1. /\ client' = [client EXCEPT ![c] = Idle(k)]
        /\ cells' = cells /\ events' = events /\ sent' = sent
    BY <1>6 DEF Done
  <2>2. Idle(k) \in Client
    BY ClientHas, IdleTyped
  <2> QED BY <1>0, <1>a, <1>b, <1>c, <1>d, <1>e, <2>1, <2>2, ClientMoves DEF Typed
<1>7. CASE Unauthorized(c)
  <2> DEFINE w == Invalidated(cells[k], client[c].token)
             v == IF client[c].attempt = 1 THEN Ensured(c, w, 2) ELSE Idle(k)
  <2>0. client[c].pc = "send" /\ sent' = sent /\ events' = events
    BY <1>7 DEF Unauthorized
  <2>1. client' = [client EXCEPT ![c] = v] /\ cells' = [cells EXCEPT ![k] = w]
    BY <1>7 DEF Unauthorized
  <2>2. w \in Cell
    BY <1>f, <2>0, Numbers DEF Invalidated, Cell
  <2>3. v \in Client
    BY <1>f, <2>0, <2>2, IdleTyped, EnsuredTyped
  <2> HIDE DEF v, w
  <2> QED BY <1>0, <1>a, <1>b, <1>d, <1>e, <1>f, <2>0, <2>1, <2>2, <2>3, ClientMoves,
             CellChanges DEF Typed
<1> QED BY <1>1, <1>2, <1>3, <1>4, <1>5, <1>6, <1>7

\* A longer list of grants keeps everything in range.
LEMMA MoreGranted ==
  ASSUME Typed, NEW g \in Nat, grants' = Append(grants, g), lastCell' = lastCell
  PROVE  /\ grants' \in Seq(Nat) /\ Len(grants') \in Known' /\ Len(grants') # 0
         /\ Known \subseteq Known' /\ Out' = Out /\ Event' = Event /\ Command' = Command
         /\ Cell \subseteq Cell' /\ Client \subseteq Client' /\ Secrets \subseteq Secrets'
<1>1. grants' \in Seq(Nat) /\ Len(grants') = Len(grants) + 1 /\ Len(grants) \in Nat
  BY DEF Typed, GrantsTyped
<1>2. Known \subseteq Known' /\ Len(grants') \in Known' /\ Len(grants') # 0
  BY <1>1 DEF Known
<1>3. Out' = Out /\ Event' = Event /\ Command' = Command
  BY DEF Out, Event, Command
<1>4. Cell \subseteq Cell'
  BY <1>2 DEF Cell
<1>5. ClientRecord \subseteq ClientRecord'
  BY <1>2, <1>3 DEF ClientRecord
<1>6. Client \subseteq Client'
  BY <1>5 DEF Client
<1>7. Secrets \subseteq Secrets'
  BY <1>2 DEF Secrets
<1> QED BY <1>1, <1>2, <1>3, <1>4, <1>6, <1>7

\* Types are kept by what the server does.
LEMMA ServerTyped ==
  ASSUME Typed, NEW c \in Clients, ServerStep(c) \/ Deny
  PROVE  Typed'
<1>0. UNCHANGED <<cells, lastCell, todo, farewell, events, sent, saving, item, locked,
                  accountVars, blockVars, plan>>
  BY DEF ServerStep, AnswerGrant, AnswerRefusal, NoAnswer, Deny, ServerRest, cellVars, ringVars,
         historyVars, Trouble
<1>f. FlagsTyped' /\ BlocksTyped'
  BY <1>0 DEF Typed, FlagsTyped, BlocksTyped, accountVars, blockVars
<1>1. CASE AnswerGrant(c)
  <2> DEFINE t == client[c].token
             v == [client[c] EXCEPT !.pc = "granted", !.token = Len(grants')]
  <2>1. /\ client[c].pc = "renew" /\ grants' = Append(grants, grants[t])
        /\ used' = used \cup {t} /\ client' = [client EXCEPT ![c] = v]
        /\ ended' = ended /\ denied' = denied /\ UNCHANGED historyVars
    BY <1>1 DEF AnswerGrant, ServerRest
  <2>2. /\ client[c] \in ClientRecord /\ client[c].cell # 0 /\ t \in Nat /\ grants[t] \in Nat
    BY <2>1, ClientHas
  <2>3. /\ grants' \in Seq(Nat) /\ Len(grants') \in Known' /\ Len(grants') # 0
        /\ Known \subseteq Known' /\ Out' = Out /\ Event' = Event /\ Command' = Command
        /\ Cell \subseteq Cell' /\ Client \subseteq Client' /\ Secrets \subseteq Secrets'
    BY <1>0, <2>1, <2>2, MoreGranted
  <2>4. GrantsTyped'
    BY <2>1, <2>2, <2>3 DEF Typed, GrantsTyped
  <2>5. CellsTyped'
    BY <1>0, <2>3 DEF Typed, CellsTyped
  <2>6. v \in Client'
    BY <2>1, <2>2, <2>3 DEF Client, ClientRecord, Steps
  <2>7. ClientsTyped'
    <3> HIDE DEF v
    <3>1. client \in [Clients -> Client']
      BY <2>3 DEF Typed, ClientsTyped
    <3> QED BY <2>1, <2>6, <3>1 DEF ClientsTyped
  <2>8. TodoTyped' /\ EventsTyped'
    BY <1>0, <2>3 DEF Typed, TodoTyped, EventsTyped
  <2>9. SavingTyped'
    BY <1>0, <2>3 DEF Typed, SavingTyped
  <2>10. AccountTyped' /\ PlanTyped'
    BY <1>0, <2>1, <2>3 DEF Typed, AccountTyped, PlanTyped, accountVars, blockVars,
       historyVars
  <2> QED BY <1>f, <2>4, <2>5, <2>7, <2>8, <2>9, <2>10 DEF Typed
<1>2. ASSUME \/ AnswerRefusal(c) \/ NoAnswer(c) \/ Deny
      PROVE  Typed'
  <2>0. grants' = grants
    BY <1>2 DEF AnswerRefusal, NoAnswer, Deny
  <2>a. /\ Known' = Known /\ Out' = Out /\ Cell' = Cell /\ Event' = Event
        /\ Command' = Command /\ Secrets' = Secrets /\ Client' = Client
    BY <1>0, <2>0, SameSets
  <2>b. /\ CellsTyped' /\ TodoTyped' /\ EventsTyped' /\ SavingTyped' /\ AccountTyped'
    BY <1>0, <2>a DEF Typed, CellsTyped, TodoTyped, EventsTyped, SavingTyped, AccountTyped,
       accountVars, blockVars
  <2>1. GrantsTyped'
    <3>1. CASE AnswerRefusal(c)
      <4>1. client[c].pc = "renew" /\ used' = used /\ denied' = denied
            /\ ended' = ended \cup {grants[client[c].token]}
        BY <3>1 DEF AnswerRefusal, ServerRest
      <4> QED BY <2>0, <4>1, ClientHas DEF Typed, GrantsTyped
    <3>2. CASE NoAnswer(c)
      BY <2>0, <3>2 DEF NoAnswer, ServerRest, Typed, GrantsTyped
    <3>3. CASE Deny
      <4>1. used' = used
        BY <3>3 DEF Deny
      <4>2. denied' \subseteq Nat /\ ended' \subseteq Nat
        <5>1. denied \subseteq Nat /\ ended \subseteq Nat /\ 1 .. Len(grants) \subseteq Nat
          BY Numbers DEF Typed, GrantsTyped
        <5>2. \/ \E g \in 1 .. Len(grants) : denied' = denied \cup {g} /\ ended' = ended
              \/ \E g \in 1 .. Len(grants) :
                   /\ ended' = ended \cup {g}
                   /\ denied' = denied \cup {x \in 1 .. Len(grants) : grants[x] = g}
          BY <3>3 DEF Deny
        <5> QED BY <5>1, <5>2
      <4> QED BY <2>0, <4>1, <4>2 DEF Typed, GrantsTyped
    <3> QED BY <1>2, <3>1, <3>2, <3>3
  <2>2. ClientsTyped'
    <3>1. CASE client' = client
      BY <2>a, <3>1 DEF Typed, ClientsTyped
    <3>2. ASSUME NEW p \in {"refused", "failed"}, client[c].pc \in {"renew", "granted"},
                 client' = [client EXCEPT ![c] = [client[c] EXCEPT !.pc = p]]
          PROVE  ClientsTyped'
      <4>1. [client[c] EXCEPT !.pc = p] \in Client
        BY <3>2, ClientHas DEF Client, ClientRecord, Steps
      <4> QED BY <2>a, <3>2, <4>1, ClientMoves
    <3> QED BY <1>2, <3>1, <3>2 DEF AnswerRefusal, NoAnswer, Deny
  <2>3. PlanTyped'
    BY <1>2, Numbers DEF AnswerRefusal, NoAnswer, Deny, Trouble, historyVars, Typed, PlanTyped
  <2> QED BY <1>f, <2>b, <2>1, <2>2, <2>3 DEF Typed
<1> QED BY <1>1, <1>2 DEF ServerStep

\* Types are kept by time, the persister and the keyring.
LEMMA RestTyped ==
  ASSUME Typed,
         \/ \E k \in Cells : Age(k)
         \/ PersisterLoads \/ PersisterSaves \/ Ring
  PROVE  Typed'
<1>0. UNCHANGED <<grants, used, ended, denied, lastCell, client, todo, farewell, events,
                  accountVars, blockVars, plan>>
  BY DEF Age, PersisterLoads, PersisterSaves, Ring, PersisterRest, serverVars, cellVars,
         historyVars, Excused, Trouble
<1>a. /\ Known' = Known /\ Out' = Out /\ Cell' = Cell /\ Event' = Event
      /\ Command' = Command /\ Secrets' = Secrets /\ Client' = Client
  BY <1>0, SameSets
<1>b. /\ GrantsTyped' /\ ClientsTyped' /\ TodoTyped' /\ EventsTyped' /\ AccountTyped'
      /\ BlocksTyped'
  BY <1>0, <1>a DEF Typed, GrantsTyped, ClientsTyped, TodoTyped, EventsTyped, AccountTyped,
     BlocksTyped, accountVars, blockVars
<1>1. CellsTyped'
  <2>1. ASSUME NEW k \in Cells, Age(k) PROVE CellsTyped'
    <3> DEFINE v == [cells[k] EXCEPT !.age = IF @ = "fresh" THEN "ageing" ELSE "expired"]
    <3>1. cells' = [cells EXCEPT ![k] = v]
      BY <2>1 DEF Age
    <3>2. v \in Cell
      BY DEF Typed, CellsTyped, Cell
    <3> QED BY <1>0, <1>a, <3>1, <3>2, CellChanges
  <2>2. CASE cells' = cells
    BY <1>0, <1>a, <2>2 DEF Typed, CellsTyped
  <2> QED BY <2>1, <2>2 DEF PersisterLoads, PersisterSaves, Ring, PersisterRest, cellVars
<1>2. SavingTyped'
  <2>1. CASE PersisterLoads
    <3>1. sent \in Seq(Known) /\ sent # <<>> /\ sent' = Tail(sent) /\ item' = item
      BY <2>1 DEF PersisterLoads, Typed, SavingTyped
    <3>2. Head(sent) \in Known /\ Tail(sent) \in Seq(Known)
      BY <3>1
    <3>3. NoItem \in Secrets /\ [item EXCEPT !.refresh = Head(sent)] \in Secrets
      BY <3>2, Numbers DEF NoItem, Secrets, Typed, SavingTyped
    <3>4. saving' \in Secrets
      BY <2>1, <3>3 DEF PersisterLoads
    <3> QED BY <1>a, <3>1, <3>2, <3>4 DEF Typed, SavingTyped
  <2>2. CASE PersisterSaves
    <3>1. NoItem \in Secrets
      BY Numbers DEF NoItem, Secrets
    <3> QED BY <1>a, <2>2, <3>1 DEF PersisterSaves, Typed, SavingTyped
  <2>3. CASE UNCHANGED <<sent, saving, item>>
    BY <1>a, <2>3 DEF Typed, SavingTyped
  <2> QED BY <2>1, <2>2, <2>3 DEF Age, Ring, ringVars
<1>3. FlagsTyped'
  BY <1>0 DEF Age, PersisterLoads, PersisterSaves, Ring, PersisterRest, ringVars, accountVars,
     Typed, FlagsTyped
<1>4. PlanTyped'
  BY Numbers DEF Age, PersisterLoads, PersisterSaves, Ring, Excused, Trouble, historyVars,
     Typed, PlanTyped
<1> QED BY <1>b, <1>1, <1>2, <1>3, <1>4 DEF Typed

\* Types are kept when a client carries out what the worker told it.
LEMMA ControlTyped ==
  ASSUME Typed, (\E c \in Clients : Apply(c)) \/ CheckSignIn \/ SayFarewell \/ LetGo
  PROVE  Typed'
<1>0. /\ "control" \in Clients /\ NoCell \in Cell /\ Told("none", 0) \in Command
      /\ Told("drop", 0) \in Command /\ Idle(0) \in Client
  BY Numbers, ToldTyped, IdleTyped DEF Clients, NoCell, Cell
<1>1. ASSUME NEW c \in Clients, Apply(c) PROVE Typed'
  <2>1. /\ client' = [client EXCEPT ![c] = Idle(todo[c].cell)]
        /\ todo' = [todo EXCEPT ![c] = Told("none", 0)]
        /\ UNCHANGED <<grants, used, ended, denied, cells, lastCell, farewell, events, sent,
                       saving, ringVars, accountVars, blockVars, historyVars>>
    BY <1>1 DEF Apply, Nothing, CommandRest, cellVars
  <2>a. /\ Known' = Known /\ Out' = Out /\ Cell' = Cell /\ Event' = Event
        /\ Command' = Command /\ Secrets' = Secrets /\ Client' = Client
    BY <2>1, SameSets
  <2>2. Idle(todo[c].cell) \in Client
    BY IdleTyped DEF Typed, TodoTyped, Command
  <2>3. ClientsTyped'
    BY <2>1, <2>2, <2>a, ClientMoves
  <2>4. TodoTyped'
    BY <1>0, <2>1, <2>a DEF Typed, TodoTyped
  <2> QED BY <2>1, <2>a, <2>3, <2>4 DEF Typed, GrantsTyped, CellsTyped, EventsTyped,
             SavingTyped, AccountTyped, FlagsTyped, PlanTyped, BlocksTyped, ringVars,
             accountVars, blockVars, historyVars
<1>2. CASE CheckSignIn
  <2>1. /\ todo' = [todo EXCEPT !["control"] = Told("none", 0)]
        /\ UNCHANGED <<used, ended, denied, farewell, sent, saving, ringVars, account, signedIn,
                       expired, credLocked, revoked, keeping, blockVars, historyVars>>
    BY <1>2 DEF CheckSignIn, Nothing, CommandRest
  <2>2. CASE /\ signingIn' = FALSE /\ UNCHANGED <<grants, cells, lastCell, client, events>>
    <3>1. /\ Known' = Known /\ Out' = Out /\ Cell' = Cell /\ Event' = Event
          /\ Command' = Command /\ Secrets' = Secrets /\ Client' = Client
      BY <2>2, SameSets
    <3>2. TodoTyped'
      BY <1>0, <2>1, <3>1 DEF Typed, TodoTyped
    <3> QED BY <2>1, <2>2, <3>1, <3>2 DEF Typed, GrantsTyped, CellsTyped, ClientsTyped,
               EventsTyped, SavingTyped, AccountTyped, FlagsTyped, PlanTyped, BlocksTyped,
               ringVars, blockVars, historyVars
  <2>3. CASE /\ lastCell < MaxCells
             /\ grants' = Append(grants, Len(grants) + 1) /\ lastCell' = lastCell + 1
             /\ cells' = [cells EXCEPT ![lastCell'] = Granted(NoCell, Len(grants'))]
             /\ client' = [client EXCEPT !["control"] = Idle(lastCell')]
             /\ \/ Report("control", Told("signedIn", lastCell')) /\ UNCHANGED signingIn
                \/ signingIn' = FALSE /\ UNCHANGED events
    <3>1. /\ grants' \in Seq(Nat) /\ Len(grants') = Len(grants) + 1 /\ Len(grants) \in Nat
      BY <2>3 DEF Typed, GrantsTyped
    <3>2. Known \subseteq Known' /\ Len(grants') \in Known' /\ 0 \in Known'
      BY <3>1 DEF Known
    <3>3. /\ Out \subseteq Out' /\ lastCell' \in Out' /\ lastCell' # 0 /\ 0 \in Out'
          /\ lastCell' \in 0 .. MaxCells /\ lastCell' \in Cells
      BY <2>3, Numbers DEF Out, Cells
    <3>4. Cell \subseteq Cell' /\ Granted(NoCell, Len(grants')) \in Cell'
      BY <3>2 DEF Cell, Granted, NoCell
    <3>5. Client \subseteq Client' /\ Idle(lastCell') \in Client'
      <4>1. ClientRecord \subseteq ClientRecord'
        BY <3>2, <3>3 DEF ClientRecord
      <4>2. Idle(lastCell') \in ClientRecord'
        BY <3>2, <3>3 DEF ClientRecord, Idle, Steps
      <4> QED BY <4>1, <4>2 DEF Client, Idle
    <3>6. Command \subseteq Command' /\ Event \subseteq Event'
      BY <3>3 DEF Command, Event
    <3>7. Told("signedIn", lastCell') \in Event'
      BY <3>3 DEF Told, Event
    <3>8. GrantsTyped'
      BY <2>1, <3>1 DEF Typed, GrantsTyped
    <3>9. CellsTyped'
      <4>1. cells \in [Cells -> Cell']
        BY <3>4 DEF Typed, CellsTyped
      <4> QED BY <2>3, <3>3, <3>4, <4>1 DEF CellsTyped
    <3>10. ClientsTyped'
      <4>1. client \in [Clients -> Client']
        BY <3>5 DEF Typed, ClientsTyped
      <4> QED BY <2>3, <3>5, <4>1 DEF ClientsTyped
    <3>11. TodoTyped'
      <4>1. todo \in [Clients -> Command'] /\ Told("none", 0) \in Command'
        BY <1>0, <3>6 DEF Typed, TodoTyped
      <4> QED BY <2>1, <4>1 DEF TodoTyped
    <3>12. EventsTyped'
      <4>1. events \in [Clients -> Seq(Event')]
        BY <3>6 DEF Typed, EventsTyped
      <4>2. Append(events["control"], Told("signedIn", lastCell')) \in Seq(Event')
        BY <1>0, <3>7, <4>1
      <4>3. events' = [events EXCEPT !["control"] = Append(@, Told("signedIn", lastCell'))]
            \/ events' = events
        BY <2>3 DEF Report
      <4> QED BY <4>1, <4>2, <4>3 DEF EventsTyped
    <3>13. Secrets \subseteq Secrets'
      BY <3>2 DEF Secrets
    <3>14. SavingTyped'
      BY <2>1, <3>2, <3>13 DEF Typed, SavingTyped, ringVars
    <3>15. AccountTyped'
      BY <2>1, <3>2, <3>3 DEF Typed, AccountTyped, blockVars
    <3>16. FlagsTyped' /\ PlanTyped' /\ BlocksTyped'
      BY <2>1, <2>3 DEF Typed, FlagsTyped, PlanTyped, BlocksTyped, ringVars, blockVars,
         historyVars
    <3> QED BY <3>8, <3>9, <3>10, <3>11, <3>12, <3>14, <3>15, <3>16 DEF Typed
  <2> QED BY <1>2, <2>2, <2>3 DEF CheckSignIn, cellVars
<1>3. CASE SayFarewell
  <2> DEFINE k == client["control"].cell
  <2>1. /\ UNCHANGED <<grants, used, ended, denied, lastCell, events, sent, saving, ringVars,
                       accountVars, blockVars, plan, trouble>>
        /\ farewell' = "saying" /\ cells' = Released("control")
        /\ \/ client' = [client EXCEPT !["control"] = Idle(k)]
           \/ k # 0 /\ client' = [client EXCEPT !["control"] = Ensured("control", cells[k], 1)]
        /\ todo' = todo \/ todo' = [todo EXCEPT !["control"] = Told("none", 0)]
        /\ excuses' \subseteq excuses \cup {"lost"}
    BY <1>3 DEF SayFarewell, Excused, serverVars, Nothing
  <2>a. /\ Known' = Known /\ Out' = Out /\ Cell' = Cell /\ Event' = Event
        /\ Command' = Command /\ Secrets' = Secrets /\ Client' = Client
    BY <2>1, SameSets
  <2>2. /\ Idle(k) \in Client
        /\ k # 0 => Ensured("control", cells[k], 1) \in Client
    BY <1>0, ClientHas, IdleTyped, EnsuredTyped
  <2>3. ClientsTyped'
    BY <1>0, <2>1, <2>2, <2>a, ClientMoves
  <2>4. TodoTyped'
    BY <1>0, <2>1, <2>a DEF Typed, TodoTyped
  <2>5. CellsTyped'
    <3>1. \A x \in Cells : cells[x] \in Cell /\ [cells[x] EXCEPT !.holder = "nobody"] \in Cell
      BY DEF Typed, CellsTyped, Cell
    <3> QED BY <2>1, <2>a, <3>1 DEF Typed, CellsTyped, Released
  <2>6. FlagsTyped' /\ PlanTyped'
    BY <2>1 DEF Typed, FlagsTyped, PlanTyped, ringVars, accountVars
  <2> QED BY <2>1, <2>a, <2>3, <2>4, <2>5, <2>6 DEF Typed, GrantsTyped, EventsTyped,
             SavingTyped, AccountTyped, BlocksTyped, ringVars, accountVars, blockVars
<1>4. CASE LetGo
  <2>1. /\ client' = [client EXCEPT !["control"] = Idle(0)] /\ farewell' = "no"
        /\ UNCHANGED <<grants, used, ended, denied, cells, lastCell, todo, events, sent,
                       saving, ringVars, accountVars, blockVars, historyVars>>
    BY <1>4 DEF LetGo, CommandRest, cellVars
  <2>a. /\ Known' = Known /\ Out' = Out /\ Cell' = Cell /\ Event' = Event
        /\ Command' = Command /\ Secrets' = Secrets /\ Client' = Client
    BY <2>1, SameSets
  <2>2. ClientsTyped'
    BY <1>0, <2>1, <2>a, ClientMoves
  <2> QED BY <2>1, <2>a, <2>2 DEF Typed, GrantsTyped, CellsTyped, TodoTyped, EventsTyped,
             SavingTyped, AccountTyped, FlagsTyped, PlanTyped, BlocksTyped, ringVars,
             accountVars, blockVars, historyVars
<1> QED BY <1>1, <1>2, <1>3, <1>4

-------------------------------------------------------------------------------
(* The worker *)

\* Blocks that waited, signed, are rows.
LEMMA SignedTyped ==
  ASSUME NEW blocks \in Seq(Nat), NEW key \in Nat
  PROVE  Signed(blocks, key) \in Seq(Row)
<1>1. \A i \in 1 .. Len(blocks) : [block |-> blocks[i], key |-> key] \in Row
  BY DEF Row
<1>2. DOMAIN blocks = 1 .. Len(blocks) /\ Len(blocks) \in Nat
  OBVIOUS
<1>3. Signed(blocks, key) \in [1 .. Len(blocks) -> Row]
  BY <1>1, <1>2 DEF Signed
<1> QED BY <1>2, <1>3

\* Commands stay typed when the worker tells all clients the same.
LEMMA AsksTyped ==
  ASSUME Typed, NEW k \in Out, NEW op \in {"none", "use", "drop"},
         todo' = [c \in Clients |-> Told(op, k)], Out' = Out
  PROVE  TodoTyped'
<1>1. Told(op, k) \in Command'
  BY DEF Told, Command
<1> QED BY <1>1 DEF TodoTyped

\* ClearItem leaves a typed item.
LEMMA ClearedTyped ==
  ASSUME Typed, ClearItem
  PROVE  item' \in Secrets
  BY Numbers DEF ClearItem, NoItem, Secrets, Typed, SavingTyped

\* Types are kept by what the worker does by itself and for the user.
LEMMA WorkerTyped ==
  ASSUME Typed,
         \/ /\ keeping.at = "no"
            /\ \/ \E c \in Clients : Expire(c)
               \/ SignIn \/ SignedIn \/ SignOut \/ DeviceRevoked \/ SwitchTo
               \/ FinishBlock \/ PurgeQueue
         \/ ReadToken \/ SaveItem
  PROVE  Typed'
<1>0. /\ UNCHANGED <<grants, used, ended, denied, lastCell, client, sent, saving, locked, plan>>
      /\ "control" \in Clients /\ "uploader" \in Clients
  BY DEF Expire, SignIn, SignedIn, SignOut, DeviceRevoked, SwitchTo, FinishBlock, PurgeQueue,
         serverVars, cellVars, ringVars, historyVars, ReadToken, SaveItem, Excused, Trouble,
         Clients
<1>a. /\ Known' = Known /\ Out' = Out /\ Cell' = Cell /\ Event' = Event
      /\ Command' = Command /\ Secrets' = Secrets /\ Client' = Client
  BY <1>0, SameSets
<1>b. GrantsTyped' /\ ClientsTyped'
  BY <1>0, <1>a DEF Typed, GrantsTyped, ClientsTyped
<1>c. cells' = cells => CellsTyped'
  BY <1>0, <1>a DEF Typed, CellsTyped
<1>d. /\ events' = events => EventsTyped'
      /\ todo' = todo => TodoTyped'
      /\ item' = item => SavingTyped'
      /\ UNCHANGED <<unsigned, rows, lastBlock>> => BlocksTyped'
      /\ UNCHANGED <<account, revoked, credLocked, keeping, lastKey>> => AccountTyped'
      /\ UNCHANGED <<trouble, excuses>> => PlanTyped'
  <2>1. /\ events' = events => EventsTyped'
        /\ todo' = todo => TodoTyped'
    BY <1>a DEF Typed, EventsTyped, TodoTyped
  <2>2. item' = item => SavingTyped'
    BY <1>0, <1>a DEF Typed, SavingTyped
  <2>3. UNCHANGED <<unsigned, rows, lastBlock>> => BlocksTyped'
    BY <1>0 DEF Typed, BlocksTyped
  <2>4. UNCHANGED <<account, revoked, credLocked, keeping, lastKey>> => AccountTyped'
    BY <1>a DEF Typed, AccountTyped
  <2>5. UNCHANGED <<trouble, excuses>> => PlanTyped'
    BY <1>0 DEF Typed, PlanTyped
  <2> QED BY <2>1, <2>2, <2>3, <2>4, <2>5
<1>e. /\ 0 \in Out /\ Told("drop", 0) \in Command /\ Told("signIn", 0) \in Command
  BY Numbers, ToldTyped
<1>1. ASSUME NEW c \in Clients, Expire(c) PROVE Typed'
  <2>1. /\ events[c] # <<>> /\ events' = [events EXCEPT ![c] = Tail(events[c])]
        /\ UNCHANGED <<cells, farewell, item, account, signedIn, credLocked, revoked, signingIn,
                       keeping, unsigned, rows, lastKey, lastBlock, trouble, excuses>>
        /\ \/ expired' = TRUE /\ todo' = [x \in Clients |-> Told("drop", 0)]
           \/ UNCHANGED <<expired, todo>>
    BY <1>1 DEF Expire, cellVars, ringVars, blockVars, historyVars, Everyone
  <2>2. EventsTyped'
    BY <1>a, <2>1, Taken DEF Typed, EventsTyped
  <2>3. TodoTyped'
    BY <1>a, <1>d, <1>e, <2>1, AsksTyped
  <2>4. FlagsTyped'
    BY <1>0, <2>1 DEF Typed, FlagsTyped
  <2> QED BY <1>b, <1>c, <1>d, <2>1, <2>2, <2>3, <2>4 DEF Typed
<1>2. CASE SignIn
  <2>1. /\ signingIn' = TRUE /\ todo' = [todo EXCEPT !["control"] = Told("signIn", 0)]
        /\ UNCHANGED <<cells, farewell, events, item, account, signedIn, expired, credLocked,
                       revoked, keeping, unsigned, rows, lastKey, lastBlock, trouble, excuses>>
    BY <1>2 DEF SignIn, cellVars, ringVars, blockVars, historyVars
  <2>2. TodoTyped'
    BY <1>a, <1>e, <2>1 DEF Typed, TodoTyped
  <2>3. FlagsTyped'
    BY <1>0, <2>1 DEF Typed, FlagsTyped
  <2> QED BY <1>b, <1>c, <1>d, <2>1, <2>2, <2>3 DEF Typed
<1>3. CASE SignedIn
  <2> DEFINE k == Head(events["control"]).cell
             key == KeyOf(IF locked THEN NoItem ELSE item)
  <2>1. /\ events["control"] # <<>>
        /\ events' = [events EXCEPT !["control"] = Tail(events["control"])]
        /\ cells' = [cells EXCEPT ![k] = [cells[k] EXCEPT !.watched = TRUE]]
        /\ key <= MaxKeys /\ lastKey' = IF key > lastKey THEN key ELSE lastKey
        /\ account' = [cell |-> k, key |-> key] /\ item' = item
        /\ credLocked' = FALSE /\ revoked' = FALSE
        /\ keeping' = [at |-> "read", refresh |-> 0, connects |-> TRUE]
    BY <1>3 DEF SignedIn, Generated, Keep, ringVars
  <2>2. /\ signedIn' = TRUE /\ expired' = FALSE /\ signingIn' = FALSE /\ farewell' = farewell
        /\ UNCHANGED <<todo, unsigned, rows, lastBlock, trouble>>
        /\ excuses' \subseteq excuses \cup {"unsaved"}
    BY <1>3 DEF SignedIn, Excused
  <2>3. Head(events["control"]) \in Event /\ Tail(events["control"]) \in Seq(Event)
    BY <1>0, <2>1, Taken
  <2>4. k \in Out /\ k # 0 /\ k \in Cells /\ cells[k] \in Cell
    BY <2>3, OutIsCell DEF Event
  <2>5. key \in Nat
    BY DEF KeyOf, NoItem, Secrets, Typed, SavingTyped, AccountTyped
  <2> HIDE DEF k, key
  <2>6. EventsTyped'
    BY <1>a, <2>1, <2>3 DEF Typed, EventsTyped
  <2>7. CellsTyped'
    <3>1. [cells[k] EXCEPT !.watched = TRUE] \in Cell
      BY <2>4 DEF Cell
    <3> QED BY <1>0, <1>a, <2>1, <2>4, <3>1, CellChanges
  <2>8. PlanTyped'
    BY <1>0, <2>2 DEF Typed, PlanTyped
  <2>9. AccountTyped'
    BY <1>a, <2>1, <2>4, <2>5, Numbers DEF Typed, AccountTyped
  <2>10. FlagsTyped'
    BY <1>0, <2>1, <2>2 DEF Typed, FlagsTyped
  <2> QED BY <1>b, <1>d, <2>1, <2>2, <2>6, <2>7, <2>8, <2>9, <2>10 DEF Typed
<1>4. CASE SignOut
  <2>1. /\ keeping.at = "no" /\ ClearItem /\ farewell' = "asked"
        /\ todo' = [todo EXCEPT !["uploader"] = Told("drop", 0)]
        /\ account' = [cell |-> 0, key |-> 0] /\ signedIn' = FALSE /\ expired' = FALSE
        /\ credLocked' = FALSE /\ revoked' = FALSE /\ unsigned' = <<>>
        /\ UNCHANGED <<cells, events, signingIn, keeping, rows, lastKey, lastBlock, trouble,
                       excuses>>
    BY <1>4 DEF SignOut, ReadToken, SaveItem, cellVars, historyVars, NoAccount
  <2>2. SavingTyped'
    BY <1>0, <1>a, <2>1, ClearedTyped DEF Typed, SavingTyped
  <2>3. TodoTyped'
    BY <1>a, <1>e, <2>1 DEF Typed, TodoTyped
  <2>4. AccountTyped'
    BY <1>a, <1>e, <2>1 DEF Typed, AccountTyped
  <2>5. FlagsTyped'
    BY <1>0, <2>1 DEF Typed, FlagsTyped
  <2>6. BlocksTyped'
    BY <1>0, <2>1 DEF Typed, BlocksTyped
  <2> QED BY <1>b, <1>c, <1>d, <2>1, <2>2, <2>3, <2>4, <2>5, <2>6 DEF Typed
<1>5. CASE DeviceRevoked
  <2>1. /\ ClearItem /\ revoked' = TRUE /\ account.cell # 0 /\ Trouble({})
        /\ UNCHANGED <<cells, todo, farewell, events, account, signedIn, expired, credLocked,
                       signingIn, keeping, unsigned, rows, lastKey, lastBlock>>
    BY <1>5 DEF DeviceRevoked, cellVars, blockVars
  <2>2. SavingTyped'
    BY <1>0, <1>a, <2>1, ClearedTyped DEF Typed, SavingTyped
  <2>3. PlanTyped'
    BY <2>1, Numbers DEF Typed, PlanTyped, Trouble
  <2>4. AccountTyped' /\ FlagsTyped'
    BY <1>0, <1>a, <2>1 DEF Typed, AccountTyped, FlagsTyped
  <2> QED BY <1>b, <1>c, <1>d, <2>1, <2>2, <2>3, <2>4 DEF Typed
<1>6. CASE SwitchTo
  <2>1. /\ todo' = [x \in Clients |-> Told("use", account.cell)] /\ revoked' = FALSE
        /\ \/ revoked /\ keeping' = [at |-> "read", refresh |-> 0, connects |-> FALSE]
           \/ keeping' = keeping
        /\ UNCHANGED <<cells, farewell, events, item, account, signedIn, expired, credLocked,
                       signingIn, unsigned, rows, lastKey, lastBlock, trouble, excuses>>
    BY <1>6 DEF SwitchTo, Connect, Keep, cellVars, ringVars, blockVars, historyVars
  <2>2. account.cell \in Out
    BY DEF Typed, AccountTyped
  <2>3. TodoTyped'
    BY <1>a, <2>1, <2>2, AsksTyped
  <2>4. FlagsTyped'
    BY <1>0, <2>1 DEF Typed, FlagsTyped
  <2>5. AccountTyped'
    <3>1. CASE keeping' = keeping
      BY <1>a, <2>1, <3>1 DEF Typed, AccountTyped
    <3>2. CASE revoked /\ keeping' = [at |-> "read", refresh |-> 0, connects |-> FALSE]
      BY <1>a, <2>1, <3>2, Numbers DEF Typed, AccountTyped
    <3> QED BY <2>1, <3>1, <3>2
  <2> QED BY <1>b, <1>c, <1>d, <2>1, <2>3, <2>4, <2>5 DEF Typed
<1>7. CASE FinishBlock \/ PurgeQueue
  <2>1. UNCHANGED <<cells, todo, farewell, events, item, account, signedIn, expired, credLocked,
                    revoked, signingIn, keeping, lastKey, trouble, excuses>>
    BY <1>7 DEF FinishBlock, PurgeQueue, cellVars, ringVars, accountVars, historyVars
  <2>2. FlagsTyped'
    BY <1>0, <2>1 DEF Typed, FlagsTyped
  <2>3. BlocksTyped'
    <3>1. CASE FinishBlock
      <4>1. lastBlock' = lastBlock + 1 /\ lastBlock < plan.blocks
        BY <3>1 DEF FinishBlock
      <4>2. lastBlock' \in 0 .. plan.blocks /\ lastBlock' \in Nat
        BY <4>1, Numbers DEF Typed, BlocksTyped
      <4>3. unsigned' \in Seq(Nat)
        <5>1. unsigned \in Seq(Nat) /\ (Len(unsigned) >= MaxUnsigned => unsigned # <<>>)
          BY TokensAssumption DEF Typed, BlocksTyped
        <5>2. Waiting(lastBlock') \in Seq(Nat)
          BY <4>2, <5>1 DEF Waiting
        <5> QED BY <3>1, <5>1, <5>2 DEF FinishBlock
      <4>4. rows' \in Seq(Row)
        <5>1. [block |-> lastBlock', key |-> account.key] \in Row
          BY <4>2 DEF Row, Typed, AccountTyped
        <5>2. rows \in Seq(Row)
          BY DEF Typed, BlocksTyped
        <5>3. rows' = Append(rows, [block |-> lastBlock', key |-> account.key]) \/ rows' = rows
          BY <3>1 DEF FinishBlock
        <5> QED BY <5>1, <5>2, <5>3
      <4> QED BY <1>0, <4>2, <4>3, <4>4 DEF BlocksTyped
    <3>2. CASE PurgeQueue
      BY <1>0, <3>2 DEF PurgeQueue, Typed, BlocksTyped
    <3> QED BY <1>7, <3>1, <3>2
  <2> QED BY <1>b, <1>c, <1>d, <2>1, <2>2, <2>3 DEF Typed
<1>8. CASE ReadToken
  <2>1. /\ keeping.at = "read"
        /\ keeping' = [keeping EXCEPT !.at = "write", !.refresh = cells[account.cell].refresh]
        /\ UNCHANGED <<cells, todo, farewell, events, item, account, signedIn, expired,
                       credLocked, revoked, signingIn, unsigned, rows, lastKey, lastBlock,
                       trouble, excuses>>
    BY <1>8 DEF ReadToken, cellVars, ringVars, blockVars, historyVars
  <2>2. cells[account.cell].refresh \in Known
    BY <2>1, OutIsCell DEF Typed, AccountTyped, Cell
  <2>3. AccountTyped'
    BY <1>a, <2>1, <2>2 DEF Typed, AccountTyped
  <2>4. FlagsTyped'
    BY <1>0, <2>1 DEF Typed, FlagsTyped
  <2> QED BY <1>b, <1>c, <1>d, <2>1, <2>3, <2>4 DEF Typed
<1>9. CASE SaveItem
  <2>1. /\ keeping.at = "write" /\ keeping' = NotKeeping
        /\ item' = item \/ item' = [refresh |-> keeping.refresh, key |-> account.key]
        /\ excuses' \subseteq excuses \cup {"unsaved", "stale"}
        /\ UNCHANGED <<cells, farewell, events, account, signedIn, expired, credLocked, revoked,
                       signingIn, lastKey, lastBlock, trouble>>
    BY <1>9 DEF SaveItem, Excused, cellVars
  <2>2. account.cell \in Out /\ account.key \in Nat /\ keeping.refresh \in Known
    BY DEF Typed, AccountTyped
  <2>3. /\ \/ /\ todo' = [x \in Clients |-> Told("use", account.cell)]
              /\ rows' = rows \o Signed(unsigned, account.key) /\ unsigned' = <<>>
           \/ UNCHANGED <<unsigned, rows, todo>>
    BY <1>9 DEF SaveItem, FlushUnsigned, Connect
  <2>4. SavingTyped'
    BY <1>0, <1>a, <2>1, <2>2 DEF Typed, SavingTyped, Secrets
  <2>5. TodoTyped'
    BY <1>a, <1>d, <2>2, <2>3, AsksTyped
  <2>6. BlocksTyped'
    <3>1. Signed(unsigned, account.key) \in Seq(Row)
      BY <2>2, SignedTyped DEF Typed, BlocksTyped
    <3>2. rows \o Signed(unsigned, account.key) \in Seq(Row) /\ <<>> \in Seq(Nat)
      BY <3>1 DEF Typed, BlocksTyped
    <3> HIDE DEF Signed
    <3> QED BY <1>0, <2>1, <2>3, <3>2 DEF Typed, BlocksTyped
  <2>7. AccountTyped'
    BY <1>a, <2>1, Numbers DEF Typed, AccountTyped, NotKeeping
  <2>8. PlanTyped' /\ FlagsTyped'
    BY <1>0, <2>1 DEF Typed, PlanTyped, FlagsTyped
  <2> QED BY <1>b, <1>c, <1>d, <2>1, <2>4, <2>5, <2>6, <2>7, <2>8 DEF Typed
<1> QED BY <1>1, <1>2, <1>3, <1>4, <1>5, <1>6, <1>7, <1>8, <1>9

\* Each of the three ends of LoadSecrets leaves typed cells, commands and account.
LEMMA LoadTyped ==
  ASSUME Typed, NEW others \in [Cells -> Cell], NEW n \in 0 .. MaxCells,
         NEW told \in [Clients -> [op : {"none", "use", "drop", "signIn"}, cell : 0 .. n]],
         NEW waiting \in Seq(Nat), NEW wasExpired \in BOOLEAN, NEW wasLocked \in BOOLEAN,
         LoadSecrets(others, n, told, waiting, wasExpired, wasLocked), grants' = grants,
         lastBlock' = lastBlock, plan' = plan, ~revoked', keeping' = NotKeeping
  PROVE  /\ CellsTyped' /\ TodoTyped' /\ AccountTyped' /\ BlocksTyped'
         /\ expired' \in BOOLEAN /\ credLocked' \in BOOLEAN
         /\ n <= lastCell'
<1>0. MaxCells \in Nat /\ n \in Nat /\ 0 \in Known
  BY Numbers
<1>a. Known' = Known /\ Cell' = Cell
  BY DEF Known, Cell
<1>1. CASE /\ account' = NoAccount /\ cells' = others /\ lastCell' = n
           /\ todo' = told /\ unsigned' = waiting
           /\ UNCHANGED <<rows, lastKey>>
           /\ expired' \in BOOLEAN /\ credLocked' \in BOOLEAN
  <2>1. 0 \in Out'
    BY <1>0, <1>1 DEF Out
  <2>2. CellsTyped'
    BY <1>1, <1>a DEF CellsTyped
  <2>3. TodoTyped'
    BY <1>1 DEF TodoTyped, Command, Out
  <2>4. AccountTyped'
    BY <1>0, <1>1, <1>a, <2>1 DEF AccountTyped, NoAccount, NotKeeping, Typed
  <2>5. BlocksTyped'
    BY <1>1 DEF BlocksTyped, Typed
  <2> QED BY <1>0, <1>1, <2>2, <2>3, <2>4, <2>5
<1>2. CASE /\ n < MaxCells /\ account' = [cell |-> n + 1, key |-> item.key]
           /\ credLocked' = FALSE /\ expired' = wasExpired /\ lastCell' = n + 1
           /\ cells' = [others EXCEPT ![n + 1] =
                          [WithRefreshToken(item.refresh) EXCEPT !.watched = TRUE]]
           /\ FlushUnsigned(waiting, item.key) /\ Connect(n + 1) /\ UNCHANGED lastKey
  <2>0. item.key \in Nat /\ item.refresh \in Known
    BY DEF Typed, SavingTyped, Secrets
  <2>1. n + 1 \in Out' /\ n + 1 # 0 /\ lastCell' \in 0 .. MaxCells
    BY <1>0, <1>2 DEF Out
  <2>2. CellsTyped'
    <3>1. [WithRefreshToken(item.refresh) EXCEPT !.watched = TRUE] \in Cell'
      BY <1>0, <1>a, <2>0 DEF WithRefreshToken, NoCell, Cell
    <3> QED BY <1>2, <1>a, <2>1, <3>1 DEF CellsTyped
  <2>3. TodoTyped'
    <3>1. Told("use", n + 1) \in Command'
      BY <2>1 DEF Told, Command
    <3> QED BY <1>2, <3>1 DEF TodoTyped, Connect
  <2>4. AccountTyped'
    BY <1>0, <1>2, <1>a, <2>0, <2>1 DEF AccountTyped, NotKeeping, Typed
  <2>5. BlocksTyped'
    <3>1. Signed(waiting, item.key) \in Seq(Row)
      BY <2>0, SignedTyped
    <3>2. rows' = rows \o Signed(waiting, item.key) /\ unsigned' = <<>>
      BY <1>2 DEF FlushUnsigned
    <3>3. rows \in Seq(Row) /\ lastBlock \in 0 .. plan.blocks
      BY DEF BlocksTyped, Typed
    <3>4. rows' \in Seq(Row)
      BY <3>1, <3>2, <3>3
    <3>5. unsigned' \in Seq(Nat)
      BY <3>2
    <3>6. lastBlock' \in 0 .. plan'.blocks
      BY <3>3
    <3> QED BY <3>4, <3>5, <3>6 DEF BlocksTyped
  <2>6. expired' \in BOOLEAN /\ credLocked' \in BOOLEAN
    BY <1>2
  <2>7. n <= lastCell'
    BY <1>0, <1>2
  <2> QED BY <2>2, <2>3, <2>4, <2>5, <2>6, <2>7
<1> QED BY <1>1, <1>2 DEF LoadSecrets

\* Types are kept when the keyring is read again or the process starts again.
LEMMA LoadingTyped ==
  ASSUME Typed, (keeping.at = "no" /\ ReloadCredentials) \/ Restart
  PROVE  Typed'
<1>0. /\ UNCHANGED <<grants, used, ended, denied, item, locked, signedIn, lastBlock, plan>>
      /\ NoCell \in Cell
  BY Numbers DEF ReloadCredentials, Restart, serverVars, ringVars, historyVars, Trouble, NoCell,
     Cell
<1>a. Known' = Known /\ Cell' = Cell /\ Secrets' = Secrets
  BY <1>0 DEF Known, Cell, Secrets
<1>b. GrantsTyped'
  BY <1>0 DEF Typed, GrantsTyped
<1>1. CASE keeping.at = "no" /\ ReloadCredentials
  <2>1. /\ LoadSecrets(cells, lastCell, todo, unsigned, expired, credLocked)
        /\ credLocked /\ ~revoked /\ keeping' = keeping
        /\ UNCHANGED <<client, farewell, events, sent, saving, revoked, signingIn, trouble,
                       excuses>>
    BY <1>1 DEF ReloadCredentials, historyVars, Typed, AccountTyped
  <2>2. /\ CellsTyped' /\ TodoTyped' /\ AccountTyped' /\ BlocksTyped'
        /\ expired' \in BOOLEAN /\ credLocked' \in BOOLEAN /\ lastCell <= lastCell'
    <3>1. /\ cells \in [Cells -> Cell] /\ lastCell \in 0 .. MaxCells /\ unsigned \in Seq(Nat)
          /\ expired \in BOOLEAN /\ credLocked \in BOOLEAN
          /\ todo \in [Clients -> [op : {"none", "use", "drop", "signIn"}, cell : 0 .. lastCell]]
      BY DEF Typed, CellsTyped, BlocksTyped, FlagsTyped, TodoTyped, Command, Out
    <3>2. keeping' = NotKeeping
      BY <1>1, <2>1 DEF Typed, AccountTyped
    <3> QED BY <1>0, <2>1, <3>1, <3>2, LoadTyped
  <2>3. lastCell' \in Nat
    BY <2>2, Numbers DEF CellsTyped
  <2>4. Out \subseteq Out'
    BY <2>2, <2>3, Numbers DEF Out
  <2>5. ClientsTyped'
    <3>1. ClientRecord \subseteq ClientRecord'
      BY <1>a, <2>4 DEF ClientRecord
    <3>2. Client \subseteq Client'
      BY <3>1 DEF Client
    <3> QED BY <2>1, <3>2 DEF Typed, ClientsTyped
  <2>6. EventsTyped'
    <3>1. Event \subseteq Event'
      BY <2>4 DEF Event
    <3> QED BY <2>1, <3>1 DEF Typed, EventsTyped
  <2>7. SavingTyped'
    BY <1>0, <1>a, <2>1 DEF Typed, SavingTyped
  <2>8. FlagsTyped' /\ PlanTyped'
    BY <1>0, <2>1, <2>2 DEF Typed, FlagsTyped, PlanTyped
  <2> QED BY <1>b, <2>2, <2>5, <2>6, <2>7, <2>8 DEF Typed
<1>2. CASE Restart
  <2> DEFINE none == [k \in Cells |-> NoCell]
  <2>1. /\ client' = Everyone(Idle(0)) /\ events' = Everyone(<<>>)
        /\ sent' = <<>> /\ saving' = NoItem
        /\ farewell' = "no" /\ revoked' = FALSE /\ signingIn' = FALSE
        /\ keeping' = NotKeeping
        /\ \/ LoadSecrets(none, 0, Everyone(Nothing), <<>>, FALSE, FALSE)
           \/ /\ cells' = none /\ lastCell' = 0 /\ todo' = Everyone(Nothing)
              /\ unsigned' = <<>> /\ account' = NoAccount /\ expired' = FALSE
              /\ credLocked' = FALSE /\ UNCHANGED <<rows, lastKey>>
    BY <1>2 DEF Restart
  <2>2. none \in [Cells -> Cell]
    BY <1>0
  <2> HIDE DEF none
  <2>3. /\ CellsTyped' /\ TodoTyped' /\ AccountTyped' /\ BlocksTyped'
        /\ expired' \in BOOLEAN /\ credLocked' \in BOOLEAN
    <3>1. CASE LoadSecrets(none, 0, Everyone(Nothing), <<>>, FALSE, FALSE)
      <4>1. /\ 0 \in 0 .. MaxCells /\ <<>> \in Seq(Nat) /\ FALSE \in BOOLEAN /\ ~revoked'
            /\ Everyone(Nothing) \in
                 [Clients -> [op : {"none", "use", "drop", "signIn"}, cell : 0 .. 0]]
        BY <2>1, Numbers DEF Everyone, Nothing, Told
      <4> QED BY <1>0, <2>1, <2>2, <3>1, <4>1, LoadTyped
    <3>2. CASE /\ cells' = none /\ lastCell' = 0 /\ todo' = Everyone(Nothing)
               /\ unsigned' = <<>> /\ account' = NoAccount /\ expired' = FALSE
               /\ credLocked' = FALSE /\ UNCHANGED <<rows, lastKey>>
      <4>1. CellsTyped'
        BY <1>a, <2>2, <3>2, Numbers DEF CellsTyped
      <4>2. 0 \in Out' /\ Nothing \in Command'
        BY <3>2 DEF Out, Nothing, Told, Command
      <4>3. TodoTyped'
        BY <3>2, <4>2 DEF TodoTyped, Everyone
      <4>4. AccountTyped'
        BY <1>a, <2>1, <3>2, <4>2, Numbers DEF AccountTyped, NoAccount, NotKeeping, Typed
      <4>5. BlocksTyped'
        BY <1>0, <3>2 DEF BlocksTyped, Typed
      <4> QED BY <3>2, <4>1, <4>3, <4>4, <4>5
    <3> QED BY <2>1, <3>1, <3>2
  <2>4. 0 \in Out' /\ 0 \in Known'
    <3>1. lastCell' \in Nat
      BY <2>3, Numbers DEF CellsTyped
    <3> QED BY <1>a, <3>1, Numbers DEF Out
  <2>5. ClientsTyped'
    <3>1. Idle(0) \in Client'
      BY <2>4 DEF Idle, Client, ClientRecord, Steps
    <3> QED BY <2>1, <3>1 DEF ClientsTyped, Everyone
  <2>6. EventsTyped' /\ SavingTyped'
    <3>1. NoItem \in Secrets'
      BY <2>4 DEF NoItem, Secrets
    <3> QED BY <1>0, <1>a, <2>1, <3>1 DEF EventsTyped, Everyone, SavingTyped, Typed
  <2>7. FlagsTyped'
    BY <1>0, <2>1, <2>3 DEF Typed, FlagsTyped
  <2>8. PlanTyped'
    BY <1>2, Numbers DEF Restart, Trouble, Typed, PlanTyped
  <2> QED BY <1>b, <2>3, <2>5, <2>6, <2>7, <2>8 DEF Typed
<1> QED BY <1>1, <1>2

\* The types are kept by every step.
LEMMA TypedStep ==
  ASSUME Typed, [Next]_vars
  PROVE  Typed'
<1>1. CASE UNCHANGED vars
  <2>1. UNCHANGED <<grants, lastCell>>
    BY <1>1 DEF vars, serverVars, cellVars
  <2>2. /\ Known' = Known /\ Out' = Out /\ Cell' = Cell /\ Event' = Event
        /\ Command' = Command /\ Secrets' = Secrets /\ Client' = Client
    BY <2>1, SameSets
  <2> QED BY <1>1, <2>2 DEF vars, serverVars, cellVars, ringVars, accountVars, blockVars,
             historyVars, Typed, GrantsTyped, CellsTyped, ClientsTyped, TodoTyped, EventsTyped,
             SavingTyped, AccountTyped, FlagsTyped, PlanTyped, BlocksTyped
<1>2. CASE Next
  <2>0. "control" \in Clients /\ "uploader" \in Clients
    BY DEF Clients
  <2>1. ASSUME NEW c \in Clients, ClientStep(c) PROVE Typed'
    BY <2>1, ClientTyped, ControlTyped DEF ClientStep
  <2>2. ASSUME NEW c \in Clients, ServerStep(c) PROVE Typed'
    BY <2>2, ServerTyped
  <2>3. CASE keeping.at = "no" /\ WorkerStep
    BY <2>3, WorkerTyped, LoadingTyped DEF WorkerStep
  <2>4. CASE Deny
    BY <2>0, <2>4, ServerTyped
  <2>5. CASE (\E k \in Cells : Age(k)) \/ PersisterLoads \/ PersisterSaves \/ Ring
    BY <2>5, RestTyped
  <2>6. CASE CheckSignIn \/ SayFarewell \/ LetGo
    BY <2>6, ControlTyped
  <2>7. CASE ReadToken \/ SaveItem
    BY <2>7, WorkerTyped
  <2>8. CASE Restart
    BY <2>8, LoadingTyped
  <2> QED BY <1>2, <2>0, <2>1, <2>2, <2>3, <2>4, <2>5, <2>6, <2>7, <2>8 DEF Next
<1> QED BY <1>1, <1>2

-------------------------------------------------------------------------------
(* The lock *)

\* A client that holds the lock of its cell renews, and one that renews holds
\* it; what it renews with is what the cell has.
Holds(c, k) == cells[k].holder = c

LockHeld ==
  \A c \in Clients :
    /\ \A k \in Cells : Holds(c, k) => client[c].cell = k /\ Renewing(c)
    /\ Renewing(c) => Holds(c, client[c].cell)
    /\ client[c].pc = "renew" => client[c].token = cells[client[c].cell].refresh

\* LockHeld is kept while no holder, no refresh token and no renewing client
\* changes.
LEMMA LockUntouched ==
  ASSUME Typed, LockHeld,
         \A k \in Cells : cells'[k].holder = cells[k].holder
                          /\ cells'[k].refresh = cells[k].refresh,
         \A c \in Clients : \/ client'[c] = client[c]
                            \/ ~Renewing(c) /\ ~Renewing(c)'
  PROVE  LockHeld'
<1> SUFFICES ASSUME NEW c \in Clients
             PROVE  /\ \A k \in Cells : Holds(c, k)' => client'[c].cell = k /\ Renewing(c)'
                    /\ Renewing(c)' => Holds(c, client[c].cell)'
                    /\ client'[c].pc = "renew" =>
                         client'[c].token = cells'[client'[c].cell].refresh
  BY DEF LockHeld
<1>1. CASE client'[c] = client[c]
  <2>1. Renewing(c)' = Renewing(c)
    BY <1>1 DEF Renewing
  <2>2. Renewing(c) => client[c].cell \in Cells
    BY ClientHas DEF Renewing
  <2>3. client[c].pc = "renew" => Renewing(c)
    BY DEF Renewing
  <2> QED BY <1>1, <2>1, <2>2, <2>3 DEF LockHeld, Holds
<1>2. CASE ~Renewing(c) /\ ~Renewing(c)'
  BY <1>2 DEF LockHeld, Holds, Renewing
<1> QED BY <1>1, <1>2

\* LockHeld is kept when a client lets go of the lock of its cell.
LEMMA LockReleased ==
  ASSUME Typed, LockHeld, NEW c \in Clients, Renewing(c),
         cells'[client[c].cell].holder = "nobody",
         \A k \in Cells : k # client[c].cell => cells'[k] = cells[k],
         \A x \in Clients : x # c => client'[x] = client[x],
         ~Renewing(c)'
  PROVE  LockHeld'
<1>1. client[c].cell \in Cells /\ cells[client[c].cell].holder = c
  BY ClientHas DEF LockHeld, Holds, Renewing
<1>2. "nobody" \notin Clients
  BY DEF Clients
<1>3. \A k \in Cells : ~Holds(c, k)'
  BY <1>1, <1>2 DEF LockHeld, Holds
<1>4. ASSUME NEW x \in Clients, x # c
      PROVE  /\ \A k \in Cells : Holds(x, k)' => client'[x].cell = k /\ Renewing(x)'
             /\ Renewing(x)' => Holds(x, client[x].cell)'
             /\ client'[x].pc = "renew" =>
                  client'[x].token = cells'[client'[x].cell].refresh
  <2>1. client'[x] = client[x] /\ Renewing(x)' = Renewing(x)
    BY <1>4 DEF Renewing
  <2>2. Renewing(x) => client[x].cell \in Cells /\ Holds(x, client[x].cell)
    BY ClientHas DEF LockHeld, Renewing
  <2>3. Renewing(x) => client[x].cell # client[c].cell
    BY <1>1, <1>4, <2>2 DEF Holds
  <2>4. client[x].pc = "renew" => Renewing(x)
    BY DEF Renewing
  <2> QED BY <1>1, <1>2, <2>1, <2>2, <2>3, <2>4 DEF LockHeld, Holds
<1> QED BY <1>3, <1>4 DEF LockHeld, Renewing

\* LockHeld is kept when a cell is given out: nobody has it yet.
LEMMA LockOfNewCell ==
  ASSUME Typed, LockHeld, NEW n \in Cells, n > lastCell, NEW v, v.holder = "nobody",
         cells' = [cells EXCEPT ![n] = v],
         \A c \in Clients : \/ client'[c] = client[c]
                            \/ ~Renewing(c) /\ ~Renewing(c)'
  PROVE  LockHeld'
<1>1. "nobody" \notin Clients
  BY DEF Clients
<1>2. cells'[n].holder = "nobody" /\ \A k \in Cells : k # n => cells'[k] = cells[k]
  BY DEF Typed, CellsTyped
<1>3. ASSUME NEW c \in Clients
      PROVE  /\ \A k \in Cells : Holds(c, k)' => client'[c].cell = k /\ Renewing(c)'
             /\ Renewing(c)' => Holds(c, client[c].cell)'
             /\ client'[c].pc = "renew" =>
                  client'[c].token = cells'[client'[c].cell].refresh
  <2>1. client[c].cell # n
    BY ClientHas, Numbers DEF Out
  <2>2. CASE client'[c] = client[c]
    <3>1. Renewing(c)' = Renewing(c)
      BY <2>2 DEF Renewing
    <3>2. Renewing(c) => client[c].cell \in Cells
      BY ClientHas DEF Renewing
    <3>3. client[c].pc = "renew" => Renewing(c)
      BY DEF Renewing
    <3> QED BY <1>1, <1>2, <2>1, <2>2, <3>1, <3>2, <3>3 DEF LockHeld, Holds
  <2>3. CASE ~Renewing(c) /\ ~Renewing(c)'
    BY <1>1, <1>2, <2>3 DEF LockHeld, Holds, Renewing
  <2> QED BY <2>2, <2>3
<1> QED BY <1>3 DEF LockHeld

\* LockHeld is kept by the server's answer or its absence: the client still
\* has the lock.
LEMMA LockKept ==
  ASSUME Typed, LockHeld, NEW c \in Clients, Renewing(c), Renewing(c)', cells' = cells,
         client'[c].cell = client[c].cell, client'[c].pc # "renew",
         \A x \in Clients : x # c => client'[x] = client[x]
  PROVE  LockHeld'
  BY DEF LockHeld, Holds, Renewing

\* LockHeld is kept when a client takes a lock that is free.
LEMMA LockTakenByOne ==
  ASSUME Typed, LockHeld, NEW c \in Clients, ~Renewing(c), client[c].cell \in Cells,
         LockFree(client[c].cell),
         cells' = [cells EXCEPT ![client[c].cell] = [@ EXCEPT !.holder = c]],
         client' = [client EXCEPT ![c] = [@ EXCEPT !.pc = "renew",
                                                   !.token = cells[client[c].cell].refresh]]
  PROVE  LockHeld'
<1> DEFINE k == client[c].cell
<1>0. client[c] \in ClientRecord /\ cells[k] \in Cell
  BY ClientHas, OutIsCell DEF Typed, CellsTyped
<1>1. /\ cells'[k].holder = c /\ cells'[k].refresh = cells[k].refresh
      /\ \A j \in Cells : j # k => cells'[j] = cells[j]
  BY <1>0 DEF Typed, CellsTyped, Cell
<1>2. /\ client'[c].cell = k /\ client'[c].pc = "renew" /\ client'[c].token = cells[k].refresh
      /\ \A x \in Clients : x # c => client'[x] = client[x]
  BY <1>0 DEF Typed, ClientsTyped, ClientRecord
<1>3. \A x \in Clients : ~Holds(x, k)
  BY DEF LockFree, Holds, Clients
<1>4. ASSUME NEW x \in Clients, x # c
      PROVE  /\ \A j \in Cells : Holds(x, j)' => client'[x].cell = j /\ Renewing(x)'
             /\ Renewing(x)' => Holds(x, client[x].cell)'
             /\ client'[x].pc = "renew" =>
                  client'[x].token = cells'[client'[x].cell].refresh
  <2>1. client'[x] = client[x] /\ Renewing(x)' = Renewing(x)
    BY <1>2, <1>4 DEF Renewing
  <2>2. Renewing(x) => client[x].cell \in Cells /\ client[x].cell # k
    BY <1>3, ClientHas DEF LockHeld, Renewing
  <2>3. client[x].pc = "renew" => Renewing(x)
    BY DEF Renewing
  <2>4. \A j \in Cells : Holds(x, j)' => j # k /\ Holds(x, j)
    BY <1>1, <1>4 DEF Holds
  <2>5. Renewing(x)' => /\ cells'[client'[x].cell] = cells[client[x].cell]
                        /\ Holds(x, client[x].cell)
    BY <1>1, <2>1, <2>2 DEF LockHeld
  <2>6. \A j \in Cells : Holds(x, j)' => client'[x].cell = j /\ Renewing(x)'
    BY <2>1, <2>4 DEF LockHeld
  <2>7. Renewing(x)' => Holds(x, client[x].cell)'
    BY <2>1, <2>5 DEF Holds
  <2>8. client'[x].pc = "renew" => client'[x].token = cells'[client'[x].cell].refresh
    BY <2>1, <2>3, <2>5 DEF LockHeld
  <2> QED BY <2>6, <2>7, <2>8
<1>5. /\ \A j \in Cells : Holds(c, j)' => client'[c].cell = j /\ Renewing(c)'
      /\ Renewing(c)' => Holds(c, client[c].cell)'
      /\ client'[c].pc = "renew" => client'[c].token = cells'[client'[c].cell].refresh
  <2>1. \A j \in Cells : ~Holds(c, j)
    BY DEF LockHeld
  <2> HIDE DEF k
  <2> QED BY <1>1, <1>2, <2>1 DEF Holds, Renewing
<1> QED BY <1>4, <1>5 DEF LockHeld

\* LockHeld is kept by every step of a client.
LEMMA LockClient ==
  ASSUME Typed, LockHeld, NEW c \in Clients,
         \/ Ask(c) \/ Renew(c) \/ TakeGrant(c) \/ TakeRefusal(c) \/ TakeFailure(c)
         \/ Done(c) \/ Unauthorized(c) \/ Apply(c)
  PROVE  LockHeld'
<1> DEFINE k == client[c].cell
<1>0. client[c] \in ClientRecord /\ (client[c].pc # "idle" => k \in Cells /\ cells[k] \in Cell)
  BY ClientHas
<1>1. ASSUME NEW v, client' = [client EXCEPT ![c] = v]
      PROVE  client'[c] = v /\ \A x \in Clients : x # c => client'[x] = client[x]
  BY <1>1 DEF Typed, ClientsTyped
<1>2. ASSUME NEW v, client' = [client EXCEPT ![c] = v], ~Renewing(c),
             v.pc \notin {"renew", "granted", "refused", "failed"},
             \A j \in Cells : cells'[j].holder = cells[j].holder
                              /\ cells'[j].refresh = cells[j].refresh
      PROVE  LockHeld'
  <2>1. ~Renewing(c)'
    BY <1>1, <1>2 DEF Renewing
  <2> QED BY <1>1, <1>2, <2>1, LockUntouched
<1>3. ASSUME NEW v, client' = [client EXCEPT ![c] = v], Renewing(c),
             v.pc \notin {"renew", "granted", "refused", "failed"},
             NEW w, cells' = [cells EXCEPT ![k] = w], w.holder = "nobody"
      PROVE  LockHeld'
  <2>1. ~Renewing(c)'
    BY <1>1, <1>3 DEF Renewing
  <2>2. k \in Cells
    BY <1>0, <1>3 DEF Renewing
  <2>3. cells'[k].holder = "nobody" /\ \A j \in Cells : j # k => cells'[j] = cells[j]
    BY <1>3, <2>2 DEF Typed, CellsTyped
  <2> QED BY <1>1, <1>3, <2>1, <2>3, LockReleased
<1>4. CASE Ask(c) \/ Done(c) \/ Apply(c)
  <2>1. PICK v : client' = [client EXCEPT ![c] = v] /\ v.pc \in {"idle", "send", "queue"}
    <3>1. CASE Ask(c)
      <4>1. /\ client' = [client EXCEPT ![c] = Ensured(c, cells[k], 1)]
            /\ Ensured(c, cells[k], 1).pc \in {"send", "queue"}
        BY <1>0, <3>1 DEF Ask, Ensured, ClientRecord
      <4> QED BY <4>1
    <3>2. CASE Done(c)
      <4>1. client' = [client EXCEPT ![c] = Idle(k)] /\ Idle(k).pc = "idle"
        BY <3>2 DEF Done, Idle
      <4> QED BY <4>1
    <3>3. CASE Apply(c)
      <4>1. /\ client' = [client EXCEPT ![c] = Idle(todo[c].cell)]
            /\ Idle(todo[c].cell).pc = "idle"
        BY <3>3 DEF Apply, Idle
      <4> QED BY <4>1
    <3> QED BY <1>4, <3>1, <3>2, <3>3
  <2>2. cells' = cells /\ ~Renewing(c)
    BY <1>4 DEF Ask, Done, Apply, cellVars, Renewing
  <2> QED BY <1>2, <2>1, <2>2
<1>5. CASE Renew(c)
  <2>1. client[c].pc = "queue" /\ LockFree(k) /\ ~Renewing(c)
    BY <1>5 DEF Renew, Renewing
  <2>2. CASE /\ client' = [client EXCEPT ![c].pc = "send", ![c].token = cells[k].access]
             /\ cells' = cells
    <3>1. client' = [client EXCEPT ![c] = [client[c] EXCEPT !.pc = "send",
                                                            !.token = cells[k].access]]
      BY <2>2
    <3>2. [client[c] EXCEPT !.pc = "send", !.token = cells[k].access].pc = "send"
      BY <1>0 DEF ClientRecord
    <3> QED BY <1>2, <2>1, <2>2, <3>1, <3>2
  <2>3. CASE /\ cells' = [cells EXCEPT ![k].holder = c]
             /\ client' = [client EXCEPT ![c].pc = "renew", ![c].token = cells[k].refresh]
    <3>1. /\ cells' = [cells EXCEPT ![k] = [@ EXCEPT !.holder = c]]
          /\ client' = [client EXCEPT ![c] = [@ EXCEPT !.pc = "renew",
                                                       !.token = cells[k].refresh]]
      BY <2>3
    <3> QED BY <1>0, <2>1, <3>1, LockTakenByOne
  <2>4. CASE client' = [client EXCEPT ![c] = Idle(k)] /\ cells' = cells
    BY <1>2, <2>1, <2>4 DEF Idle
  <2> QED BY <1>5, <2>2, <2>3, <2>4 DEF Renew
<1>6. CASE TakeGrant(c)
  <2>1. /\ client' = [client EXCEPT ![c] = [client[c] EXCEPT !.pc = "send"]]
        /\ cells' = [cells EXCEPT ![k] = [Granted(cells[k], client[c].token)
                                            EXCEPT !.holder = "nobody"]]
        /\ client[c].pc = "granted" /\ Renewing(c)
    BY <1>6 DEF TakeGrant, Renewing
  <2>2. /\ [client[c] EXCEPT !.pc = "send"].pc = "send"
        /\ [Granted(cells[k], client[c].token) EXCEPT !.holder = "nobody"].holder = "nobody"
    BY <1>0, <2>1 DEF ClientRecord, Cell, Granted
  <2> QED BY <1>3, <2>1, <2>2
<1>7. CASE TakeRefusal(c)
  <2>1. /\ client' = [client EXCEPT ![c] = Idle(k)] /\ Idle(k).pc = "idle"
        /\ cells' = [cells EXCEPT ![k] = [cells[k] EXCEPT !.holder = "nobody"]]
        /\ client[c].pc = "refused" /\ Renewing(c)
    BY <1>7 DEF TakeRefusal, Renewing, Idle
  <2>2. [cells[k] EXCEPT !.holder = "nobody"].holder = "nobody"
    BY <1>0, <2>1 DEF Cell
  <2> QED BY <1>3, <2>1, <2>2
<1>8. CASE TakeFailure(c)
  <2>1. PICK v : /\ client' = [client EXCEPT ![c] = v]
                 /\ v = Idle(k) \/ v = [client[c] EXCEPT !.pc = "send",
                                                         !.token = cells[k].access]
    BY <1>8 DEF TakeFailure
  <2>2. v.pc \in {"idle", "send"}
    <3>1. [client[c] EXCEPT !.pc = "send", !.token = cells[k].access].pc = "send"
      BY <1>0 DEF ClientRecord
    <3>2. Idle(k).pc = "idle"
      BY DEF Idle
    <3> QED BY <2>1, <3>1, <3>2
  <2>3. /\ cells' = [cells EXCEPT ![k] = [cells[k] EXCEPT !.holder = "nobody"]]
        /\ client[c].pc = "failed" /\ Renewing(c)
    BY <1>8 DEF TakeFailure, Renewing
  <2>4. [cells[k] EXCEPT !.holder = "nobody"].holder = "nobody"
    BY <1>0, <2>3 DEF Cell
  <2> QED BY <1>3, <2>1, <2>2, <2>3, <2>4
<1>9. CASE Unauthorized(c)
  <2> DEFINE w == Invalidated(cells[k], client[c].token)
  <2>1. PICK v : /\ client' = [client EXCEPT ![c] = v]
                 /\ v = Idle(k) \/ v = Ensured(c, w, 2)
    BY <1>9 DEF Unauthorized
  <2>2. v.pc \in {"idle", "send", "queue"}
    <3>1. Ensured(c, w, 2).pc \in {"send", "queue"}
      BY <1>0 DEF ClientRecord, Ensured
    <3>2. Idle(k).pc = "idle"
      BY DEF Idle
    <3> QED BY <2>1, <3>1, <3>2
  <2>3. cells' = [cells EXCEPT ![k] = w] /\ client[c].pc = "send" /\ ~Renewing(c)
    BY <1>9 DEF Unauthorized, Renewing
  <2>4. w.holder = cells[k].holder /\ w.refresh = cells[k].refresh
    BY <1>0, <2>3 DEF Cell, Invalidated
  <2>5. \A j \in Cells : cells'[j].holder = cells[j].holder
                         /\ cells'[j].refresh = cells[j].refresh
    <3> HIDE DEF w
    <3> QED BY <2>3, <2>4 DEF Typed, CellsTyped
  <2> QED BY <1>2, <2>1, <2>2, <2>3, <2>5
<1> QED BY <1>4, <1>5, <1>6, <1>7, <1>8, <1>9

\* LockHeld is kept by every step.
LEMMA LockStep ==
  ASSUME Typed, LockHeld, [Next]_vars
  PROVE  LockHeld'
<1>0. "nobody" \notin Clients /\ "control" \in Clients /\ "uploader" \in Clients
  BY DEF Clients
<1>1. ASSUME NEW c \in Clients, ClientStep(c) PROVE LockHeld'
  BY <1>1, LockClient DEF ClientStep
<1>2. ASSUME NEW c \in Clients, ServerStep(c) PROVE LockHeld'
  <2>1. client[c] \in ClientRecord /\ cells' = cells
    BY <1>2, ClientHas DEF ServerStep, AnswerGrant, AnswerRefusal, NoAnswer, ServerRest, cellVars
  <2>2. PICK v : /\ client' = [client EXCEPT ![c] = v] /\ v.cell = client[c].cell
                 /\ v.pc \in {"granted", "refused", "failed"}
    <3>1. /\ [client[c] EXCEPT !.pc = "granted", !.token = Len(grants')].cell = client[c].cell
          /\ [client[c] EXCEPT !.pc = "granted", !.token = Len(grants')].pc = "granted"
          /\ [client[c] EXCEPT !.pc = "refused"].cell = client[c].cell
          /\ [client[c] EXCEPT !.pc = "refused"].pc = "refused"
          /\ [client[c] EXCEPT !.pc = "failed"].cell = client[c].cell
          /\ [client[c] EXCEPT !.pc = "failed"].pc = "failed"
      BY <2>1 DEF ClientRecord
    <3>2. \/ client' = [client EXCEPT ![c] = [client[c] EXCEPT !.pc = "granted",
                                                                !.token = Len(grants')]]
          \/ client' = [client EXCEPT ![c] = [client[c] EXCEPT !.pc = "refused"]]
          \/ client' = [client EXCEPT ![c] = [client[c] EXCEPT !.pc = "failed"]]
      BY <1>2 DEF ServerStep, AnswerGrant, AnswerRefusal, NoAnswer
    <3> QED BY <3>1, <3>2
  <2>3. Renewing(c)
    BY <1>2 DEF ServerStep, AnswerGrant, AnswerRefusal, NoAnswer, Renewing
  <2>4. client'[c] = v /\ \A x \in Clients : x # c => client'[x] = client[x]
    BY <2>2 DEF Typed, ClientsTyped
  <2>5. Renewing(c)'
    BY <2>2, <2>4 DEF Renewing
  <2> QED BY <2>1, <2>2, <2>3, <2>4, <2>5, LockKept
<1>3. CASE CheckSignIn
  <2>1. CASE cells' = cells /\ client' = client
    BY <2>1, LockUntouched
  <2>2. CASE /\ lastCell < MaxCells /\ lastCell' = lastCell + 1
             /\ cells' = [cells EXCEPT ![lastCell'] = Granted(NoCell, Len(grants'))]
             /\ client' = [client EXCEPT !["control"] = Idle(lastCell')]
    <3>1. lastCell' \in Cells /\ lastCell' > lastCell
      BY <2>2, Numbers DEF Cells
    <3>2. Granted(NoCell, Len(grants')).holder = "nobody"
      BY DEF Granted, NoCell
    <3>3. /\ \A x \in Clients : x # "control" => client'[x] = client[x]
          /\ ~Renewing("control") /\ ~Renewing("control")'
      BY <1>0, <1>3, <2>2 DEF CheckSignIn, Renewing, Idle, Typed, ClientsTyped
    <3> QED BY <2>2, <3>1, <3>2, <3>3, LockOfNewCell
  <2> QED BY <1>3, <2>1, <2>2 DEF CheckSignIn, cellVars
<1>4. CASE SayFarewell
  <2>1. PICK v : /\ cells' = Released("control") /\ client' = [client EXCEPT !["control"] = v]
                 /\ v.pc \in {"idle", "send", "queue"}
    <3> DEFINE k == client["control"].cell
    <3>1. client["control"] \in ClientRecord
      BY <1>0, ClientHas
    <3>2. Idle(k).pc = "idle" /\ Ensured("control", cells[k], 1).pc \in {"send", "queue"}
      BY <3>1 DEF Idle, Ensured, ClientRecord
    <3> QED BY <1>4, <3>2 DEF SayFarewell
  <2>2. /\ \A x \in Clients : x # "control" => client'[x] = client[x]
        /\ ~Renewing("control")'
    BY <1>0, <2>1 DEF Renewing, Typed, ClientsTyped
  <2>3. CASE Renewing("control")
    <3> DEFINE k == client["control"].cell
    <3>1. k \in Cells /\ cells[k] \in Cell /\ Holds("control", k)
      BY <1>0, <2>3, ClientHas DEF LockHeld, Renewing
    <3>2. cells'[k].holder = "nobody"
      BY <2>1, <3>1 DEF Released, Holds, Cell
    <3>3. \A j \in Cells : j # k => cells'[j] = cells[j]
      BY <1>0, <2>1 DEF Released, LockHeld, Holds
    <3> QED BY <1>0, <2>2, <2>3, <3>2, <3>3, LockReleased
  <2>4. CASE ~Renewing("control")
    <3>1. \A j \in Cells : cells'[j] = cells[j]
      BY <1>0, <2>1, <2>4 DEF Released, LockHeld, Holds
    <3> QED BY <2>2, <2>4, <3>1, LockUntouched
  <2> QED BY <2>3, <2>4
<1>5. ASSUME NEW k \in Cells, Age(k) PROVE LockHeld'
  <2> DEFINE v == [cells[k] EXCEPT !.age = IF @ = "fresh" THEN "ageing" ELSE "expired"]
  <2>1. cells' = [cells EXCEPT ![k] = v] /\ client' = client
    BY <1>5 DEF Age
  <2>2. v.holder = cells[k].holder /\ v.refresh = cells[k].refresh
    BY DEF Typed, CellsTyped, Cell
  <2>3. \A j \in Cells : cells'[j].holder = cells[j].holder
                         /\ cells'[j].refresh = cells[j].refresh
    <3> HIDE DEF v
    <3> QED BY <2>1, <2>2 DEF Typed, CellsTyped
  <2> QED BY <2>1, <2>3, LockUntouched
<1>6. CASE SignedIn
  <2> DEFINE k == Head(events["control"]).cell
  <2>1. cells' = [cells EXCEPT ![k] = [cells[k] EXCEPT !.watched = TRUE]] /\ client' = client
    BY <1>6 DEF SignedIn
  <2>2. \A j \in Cells : cells'[j].holder = cells[j].holder
                         /\ cells'[j].refresh = cells[j].refresh
    <3> HIDE DEF k
    <3> QED BY <2>1 DEF Typed, CellsTyped, Cell
  <2> QED BY <2>1, <2>2, LockUntouched
<1>7. CASE ReloadCredentials
  <2>1. client' = client /\ LoadSecrets(cells, lastCell, todo, unsigned, expired, credLocked)
    BY <1>7 DEF ReloadCredentials
  <2>2. CASE cells' = cells
    BY <2>1, <2>2, LockUntouched
  <2>3. CASE /\ lastCell < MaxCells
             /\ cells' = [cells EXCEPT ![lastCell + 1] =
                            [WithRefreshToken(item.refresh) EXCEPT !.watched = TRUE]]
    <3>1. lastCell + 1 \in Cells /\ lastCell + 1 > lastCell
      BY <2>3, Numbers DEF Cells
    <3>2. [WithRefreshToken(item.refresh) EXCEPT !.watched = TRUE].holder = "nobody"
      BY DEF WithRefreshToken, NoCell
    <3> QED BY <2>1, <2>3, <3>1, <3>2, LockOfNewCell
  <2> QED BY <2>1, <2>2, <2>3 DEF LoadSecrets
<1>8. CASE Restart
  <2> DEFINE none == [j \in Cells |-> NoCell]
  <2>1. \A c \in Clients : client'[c] = Idle(0) /\ ~Renewing(c)'
    BY <1>8 DEF Restart, Everyone, Renewing, Idle
  <2>2. \/ cells' = none
        \/ cells' = [none EXCEPT ![0 + 1] =
                       [WithRefreshToken(item.refresh) EXCEPT !.watched = TRUE]]
    BY <1>8 DEF Restart, LoadSecrets
  <2>3. /\ [WithRefreshToken(item.refresh) EXCEPT !.watched = TRUE].holder = "nobody"
        /\ NoCell.holder = "nobody"
    BY DEF WithRefreshToken, NoCell
  <2>4. \A j \in Cells : cells'[j].holder = "nobody"
    BY <2>2, <2>3
  <2> QED BY <1>0, <2>1, <2>4 DEF LockHeld, Holds, Renewing
<1>9. CASE LetGo
  <2>1. cells' = cells /\ client["control"].pc = "idle"
        /\ client' = [client EXCEPT !["control"] = Idle(0)]
    BY <1>9 DEF LetGo, cellVars
  <2>2. /\ ~Renewing("control") /\ ~Renewing("control")'
        /\ \A x \in Clients : x # "control" => client'[x] = client[x]
    BY <1>0, <2>1 DEF Renewing, Idle, Typed, ClientsTyped
  <2> QED BY <2>1, <2>2, LockUntouched
<1>10. CASE cells' = cells /\ client' = client
  BY <1>10, LockUntouched
<1>11. \/ Deny \/ PersisterLoads \/ PersisterSaves \/ Ring \/ SignIn \/ SignOut
       \/ DeviceRevoked \/ SwitchTo \/ ReadToken \/ SaveItem \/ FinishBlock \/ PurgeQueue
       \/ UNCHANGED vars \/ (\E c \in Clients : Expire(c))
       => cells' = cells /\ client' = client
  BY DEF Deny, PersisterLoads, PersisterSaves, PersisterRest, Ring, SignIn, SignOut,
     DeviceRevoked, SwitchTo, ReadToken, SaveItem, FinishBlock, PurgeQueue, vars, Expire,
     cellVars
<1> QED BY <1>0, <1>1, <1>2, <1>3, <1>4, <1>5, <1>6, <1>7, <1>8, <1>9, <1>10, <1>11
        DEF Next, WorkerStep

-------------------------------------------------------------------------------
(* The order of the blocks *)

\* Blocks are numbered as they are recorded, and none waits while there is a
\* key to sign it with, but for those that a save in progress will sign.
Ordered ==
  /\ QueuedInOrder
  /\ \A i \in DOMAIN rows : rows[i].block <= lastBlock
  /\ \A i \in DOMAIN unsigned : unsigned[i] <= lastBlock
  /\ account.key # 0 /\ ~keeping.connects => unsigned = <<>>

\* The order is kept when the waiting blocks are signed and follow the rows.
LEMMA FlushedInOrder ==
  ASSUME Typed, Ordered, NEW key \in Nat,
         rows' = rows \o Signed(unsigned, key), unsigned' = <<>>, lastBlock' = lastBlock
  PROVE  Ordered'
<1>1. /\ rows \in Seq(Row) /\ unsigned \in Seq(Nat) /\ Signed(unsigned, key) \in Seq(Row)
      /\ Len(Signed(unsigned, key)) = Len(unsigned)
      /\ \A i \in 1 .. Len(unsigned) : Signed(unsigned, key)[i].block = unsigned[i]
  <2>1. rows \in Seq(Row) /\ unsigned \in Seq(Nat)
    BY DEF Typed, BlocksTyped
  <2>2. Signed(unsigned, key) \in Seq(Row)
    BY <2>1, SignedTyped
  <2>3. DOMAIN unsigned = 1 .. Len(unsigned) /\ Len(unsigned) \in Nat
    BY <2>1
  <2>4. /\ DOMAIN Signed(unsigned, key) = 1 .. Len(unsigned)
        /\ \A i \in 1 .. Len(unsigned) : Signed(unsigned, key)[i].block = unsigned[i]
    BY <2>3 DEF Signed
  <2>5. Len(Signed(unsigned, key)) = Len(unsigned)
    BY <2>2, <2>3, <2>4, LenProperties
  <2> QED BY <2>1, <2>2, <2>4, <2>5
<1> DEFINE n == Len(rows)
           m == Len(unsigned)
<1>2. /\ n \in Nat /\ m \in Nat /\ DOMAIN rows = 1 .. n /\ DOMAIN unsigned = 1 .. m
      /\ DOMAIN rows' = 1 .. n + m
      /\ \A i \in 1 .. n : rows'[i] = rows[i]
      /\ \A i \in n + 1 .. n + m : /\ i - n \in 1 .. m
                                   /\ rows'[i].block = unsigned[i - n]
  <2>1. n \in Nat /\ m \in Nat /\ DOMAIN rows = 1 .. n /\ DOMAIN unsigned = 1 .. m
    BY <1>1
  <2>2. /\ DOMAIN rows' = 1 .. n + m
        /\ \A i \in 1 .. n : rows'[i] = rows[i]
        /\ \A i \in n + 1 .. n + m : rows'[i] = Signed(unsigned, key)[i - n]
    <3> DEFINE t == Signed(unsigned, key)
    <3>1. rows' = rows \o t /\ t \in Seq(Row) /\ rows \in Seq(Row) /\ Len(t) = m
      BY <1>1
    <3> HIDE DEF t
    <3>2. /\ Len(rows') = n + m
          /\ \A i \in 1 .. n + m : rows'[i] = IF i <= n THEN rows[i] ELSE t[i - n]
      <4>1. /\ Len(rows \o t) = Len(rows) + Len(t)
            /\ \A i \in 1 .. Len(rows) + Len(t) :
                 (rows \o t)[i] = IF i <= Len(rows) THEN rows[i] ELSE t[i - Len(rows)]
        BY <3>1, ConcatProperties, Zenon
      <4> QED BY <3>1, <4>1
    <3>3. rows' \in Seq(Row)
      BY <3>1
    <3>4. DOMAIN rows' = 1 .. n + m
      BY <3>2, <3>3
    <3> QED BY <2>1, <3>2, <3>4 DEF t
  <2>3. \A i \in n + 1 .. n + m : i - n \in 1 .. m
    BY <2>1
  <2> QED BY <1>1, <2>1, <2>2, <2>3
<1>3. /\ \A i \in 1 .. n : rows[i].block \in Nat /\ rows[i].block <= lastBlock
      /\ \A i \in 1 .. m : unsigned[i] \in Nat /\ unsigned[i] <= lastBlock
      /\ \A i, j \in 1 .. n : i < j => rows[i].block < rows[j].block
      /\ \A i, j \in 1 .. m : i < j => unsigned[i] < unsigned[j]
      /\ \A i \in 1 .. n, j \in 1 .. m : rows[i].block < unsigned[j]
  <2>1. /\ \A i \in 1 .. n : rows[i] \in Row
        /\ \A i \in 1 .. m : unsigned[i] \in Nat
    BY <1>1
  <2> QED BY <1>2, <2>1 DEF Ordered, QueuedInOrder, Row
<1> HIDE DEF n, m
<1>4. \A i \in 1 .. n + m : rows'[i].block <= lastBlock
  <2> SUFFICES ASSUME NEW i \in 1 .. n + m PROVE rows'[i].block <= lastBlock
    OBVIOUS
  <2>1. i \in 1 .. n \/ i \in n + 1 .. n + m
    BY <1>2
  <2> QED BY <1>2, <1>3, <2>1
<1>5. \A i, j \in 1 .. n + m : i < j => rows'[i].block < rows'[j].block
  <2> SUFFICES ASSUME NEW i \in 1 .. n + m, NEW j \in 1 .. n + m, i < j
               PROVE  rows'[i].block < rows'[j].block
    OBVIOUS
  <2>1. CASE j \in 1 .. n
    <3>1. i \in 1 .. n
      BY <1>2, <2>1
    <3> QED BY <1>2, <1>3, <2>1, <3>1
  <2>2. CASE i \in 1 .. n /\ j \in n + 1 .. n + m
    BY <1>2, <1>3, <2>2
  <2>3. CASE i \in n + 1 .. n + m /\ j \in n + 1 .. n + m
    <3>1. i - n < j - n
      BY <1>2
    <3> QED BY <1>2, <1>3, <2>3, <3>1
  <2> QED BY <1>2, <2>1, <2>2, <2>3
<1>6. DOMAIN unsigned' = {}
  OBVIOUS
<1> QED BY <1>2, <1>4, <1>5, <1>6 DEF Ordered, QueuedInOrder

\* The order is kept by a new block, a row if there is a key and waiting if not.
LEMMA BlockInOrder ==
  ASSUME Typed, Ordered, FinishBlock, keeping.at = "no"
  PROVE  Ordered'
<1> DEFINE n == Len(rows)
           m == Len(unsigned)
           b == lastBlock + 1
<1>1. /\ rows \in Seq(Row) /\ unsigned \in Seq(Nat) /\ lastBlock \in Nat
      /\ n \in Nat /\ m \in Nat /\ DOMAIN rows = 1 .. n /\ DOMAIN unsigned = 1 .. m
      /\ account' = account /\ lastBlock' = b /\ keeping' = keeping /\ ~keeping.connects
  BY DEF Typed, BlocksTyped, FinishBlock, accountVars, AccountTyped, NotKeeping
<1>2. /\ \A i \in 1 .. n : rows[i] \in Row
      /\ \A i \in 1 .. m : unsigned[i] \in Nat
  BY <1>1
<1>3. /\ \A i \in 1 .. n : rows[i].block \in Nat /\ rows[i].block <= lastBlock
      /\ \A i \in 1 .. m : unsigned[i] \in Nat /\ unsigned[i] <= lastBlock
      /\ \A i, j \in 1 .. n : i < j => rows[i].block < rows[j].block
      /\ \A i, j \in 1 .. m : i < j => unsigned[i] < unsigned[j]
      /\ \A i \in 1 .. n, j \in 1 .. m : rows[i].block < unsigned[j]
  BY <1>1, <1>2 DEF Ordered, QueuedInOrder, Row
<1>4. CASE account.key # 0
  <2> DEFINE r == [block |-> b, key |-> account.key]
  <2>1. rows' = Append(rows, r) /\ unsigned' = <<>> /\ unsigned = <<>>
    BY <1>1, <1>4 DEF FinishBlock, Ordered
  <2>2. /\ DOMAIN rows' = 1 .. n + 1 /\ rows'[n + 1].block = b
        /\ \A i \in 1 .. n : rows'[i] = rows[i]
    BY <1>1, <2>1
  <2> QED BY <1>1, <1>3, <2>1, <2>2 DEF Ordered, QueuedInOrder
<1>5. CASE account.key = 0
  <2>1. rows' = rows /\ unsigned' = Waiting(b)
    BY <1>1, <1>5 DEF FinishBlock
  <2> DEFINE u == IF Len(unsigned) >= MaxUnsigned THEN Tail(unsigned) ELSE unsigned
             k == Len(u)
  <2>2. /\ u \in Seq(Nat) /\ k \in Nat
        /\ \A i \in 1 .. k : u[i] \in Nat /\ u[i] <= lastBlock
        /\ \A i, j \in 1 .. k : i < j => u[i] < u[j]
        /\ \A i \in 1 .. n, j \in 1 .. k : rows[i].block < u[j]
    <3>1. CASE u = unsigned
      BY <1>1, <1>3, <3>1
    <3>2. CASE u = Tail(unsigned) /\ unsigned # <<>>
      <4>1. /\ Tail(unsigned) \in Seq(Nat) /\ Len(Tail(unsigned)) = m - 1 /\ m # 0
            /\ \A i \in 1 .. m - 1 : Tail(unsigned)[i] = unsigned[i + 1]
        <5>1. unsigned # <<>> /\ unsigned \in Seq(Nat)
          BY <1>1, <3>2
        <5> QED BY <1>1, <5>1, HeadTailProperties
      <4>2. \A i \in 1 .. m - 1 : i + 1 \in 1 .. m
        BY <1>1
      <4>3. k = m - 1 /\ \A i \in 1 .. m - 1 : u[i] = unsigned[i + 1]
        BY <3>2, <4>1
      <4>4. \A i, j \in 1 .. m - 1 : i < j => i + 1 < j + 1
        BY <1>1
      <4> HIDE DEF u, k, m, n
      <4> QED BY <1>1, <1>3, <3>2, <4>1, <4>2, <4>3, <4>4
    <3>3. Len(unsigned) >= MaxUnsigned => unsigned # <<>>
      BY <1>1, TokensAssumption
    <3> QED BY <3>1, <3>2, <3>3
  <2>3. unsigned' = Append(u, b)
    BY <2>1 DEF Waiting
  <2> HIDE DEF u
  <2>4. /\ DOMAIN unsigned' = 1 .. k + 1 /\ unsigned'[k + 1] = b
        /\ \A i \in 1 .. k : unsigned'[i] = u[i]
    BY <1>1, <2>2, <2>3
  <2>a. k \in Nat /\ n \in Nat
    BY <1>1, <2>2
  <2> HIDE DEF k, n, m, b
  <2>5. \A i \in 1 .. k + 1 : i \in 1 .. k \/ i = k + 1
    BY <2>a
  <2>6. b \in Nat /\ lastBlock < b
    BY <1>1 DEF b
  <2>7. /\ \A i \in 1 .. k + 1 : unsigned'[i] <= b
        /\ \A i \in 1 .. n : rows[i].block <= b
    <3>1. \A i \in 1 .. n : rows[i].block <= b
      BY <1>1, <1>3, <2>6
    <3>2. \A i \in 1 .. k : unsigned'[i] <= b
      <4> SUFFICES ASSUME NEW i \in 1 .. k PROVE unsigned'[i] <= b
        OBVIOUS
      <4>1. u[i] \in Nat /\ u[i] <= lastBlock /\ unsigned'[i] = u[i] /\ lastBlock \in Nat
        BY <1>1, <2>2, <2>4
      <4> QED BY <2>6, <4>1
    <3> QED BY <2>4, <2>5, <2>6, <3>1, <3>2
  <2>8. \A i \in 1 .. n, j \in 1 .. k + 1 : rows[i].block < unsigned'[j]
    <3> SUFFICES ASSUME NEW i \in 1 .. n, NEW j \in 1 .. k + 1
                 PROVE  rows[i].block < unsigned'[j]
      OBVIOUS
    <3>1. CASE j \in 1 .. k
      BY <2>2, <2>4, <3>1
    <3>2. CASE j = k + 1
      BY <1>1, <1>3, <2>4, <2>6, <3>2
    <3> QED BY <2>5, <3>1, <3>2
  <2>9. \A i, j \in 1 .. k + 1 : i < j => unsigned'[i] < unsigned'[j]
    <3> SUFFICES ASSUME NEW i \in 1 .. k + 1, NEW j \in 1 .. k + 1, i < j
                 PROVE  unsigned'[i] < unsigned'[j]
      OBVIOUS
    <3>1. i \in 1 .. k
      BY <2>a
    <3>2. CASE j \in 1 .. k
      BY <2>2, <2>4, <3>1, <3>2
    <3>3. CASE j = k + 1
      BY <1>1, <2>2, <2>4, <2>6, <3>1, <3>3
    <3> QED BY <2>5, <3>2, <3>3
  <2>10. QueuedInOrder'
    BY <1>1, <1>3, <2>1, <2>4, <2>8, <2>9 DEF QueuedInOrder
  <2> QED BY <1>1, <1>5, <2>1, <2>4, <2>7, <2>10 DEF Ordered
<1> QED BY <1>4, <1>5

\* Every step keeps the order.
LEMMA OrderStep ==
  ASSUME Typed, Ordered, [Next]_vars
  PROVE  Ordered'
<1>0. item.key \in Nat
  BY DEF Typed, SavingTyped, Secrets
<1>1. CASE /\ UNCHANGED <<rows, unsigned, lastBlock>>
           /\ account'.key \in {account.key, 0}
           /\ keeping'.connects = keeping.connects \/ account'.key = 0
  BY <1>1 DEF Ordered, QueuedInOrder
<1>2. CASE keeping.at = "no" /\ FinishBlock
  BY <1>2, BlockInOrder
<1>3. CASE SignedIn
  <2>1. UNCHANGED <<rows, unsigned, lastBlock>> /\ keeping'.connects
    BY <1>3 DEF SignedIn, Keep
  <2> QED BY <2>1 DEF Ordered, QueuedInOrder
<1>4. CASE SignOut \/ PurgeQueue
  <2>1. unsigned' = <<>> /\ lastBlock' = lastBlock /\ (rows' = rows \/ rows' = <<>>)
    BY <1>4 DEF SignOut, PurgeQueue
  <2> QED BY <2>1 DEF Ordered, QueuedInOrder
<1>5. CASE ReloadCredentials
  <2>1. /\ LoadSecrets(cells, lastCell, todo, unsigned, expired, credLocked)
        /\ lastBlock' = lastBlock
    BY <1>5 DEF ReloadCredentials
  <2>2. CASE account' = NoAccount /\ unsigned' = unsigned /\ rows' = rows
    BY <1>1, <2>1, <2>2 DEF NoAccount
  <2>3. CASE FlushUnsigned(unsigned, item.key)
    BY <1>0, <2>1, <2>3, FlushedInOrder DEF FlushUnsigned
  <2> QED BY <2>1, <2>2, <2>3 DEF LoadSecrets
<1>6. CASE Restart
  <2>1. lastBlock' = lastBlock /\ unsigned' = <<>> /\ rows \in Seq(Row)
    BY <1>6 DEF Restart, LoadSecrets, FlushUnsigned, Typed, BlocksTyped
  <2>2. rows' = rows
    <3>1. Signed(<<>>, item.key) = <<>>
      BY DEF Signed
    <3> QED BY <1>6, <2>1, <3>1 DEF Restart, LoadSecrets, FlushUnsigned
  <2> QED BY <2>1, <2>2 DEF Ordered, QueuedInOrder
<1>7. CASE SaveItem
  <2>1. lastBlock' = lastBlock /\ account' = account /\ keeping' = NotKeeping
    BY <1>7 DEF SaveItem
  <2>2. account.key \in Nat
    BY DEF Typed, AccountTyped
  <2>3. CASE keeping.connects
    <3>1. rows' = rows \o Signed(unsigned, account.key) /\ unsigned' = <<>>
      BY <1>7, <2>3 DEF SaveItem, FlushUnsigned
    <3> QED BY <2>1, <2>2, <3>1, FlushedInOrder
  <2>4. CASE ~keeping.connects
    <3>1. rows' = rows /\ unsigned' = unsigned
      BY <1>7, <2>4 DEF SaveItem
    <3>2. keeping'.connects = keeping.connects
      BY <2>1, <2>4 DEF NotKeeping, Typed, AccountTyped
    <3> QED BY <1>1, <2>1, <3>1, <3>2
  <2> QED BY <2>3, <2>4
<1>8. CASE (keeping.at = "no" /\ SwitchTo) \/ ReadToken
  <2>1. UNCHANGED <<rows, unsigned, lastBlock, account>>
    BY <1>8 DEF SwitchTo, ReadToken, blockVars
  <2>2. keeping'.connects = keeping.connects
    <3>1. CASE keeping.at = "no" /\ SwitchTo
      <4>1. keeping = NotKeeping
        BY <3>1 DEF Typed, AccountTyped
      <4>2. keeping' = keeping \/ keeping' = [at |-> "read", refresh |-> 0, connects |-> FALSE]
        BY <3>1 DEF SwitchTo, Keep
      <4>3. CASE keeping' = keeping
        BY <4>3
      <4>4. CASE keeping' = [at |-> "read", refresh |-> 0, connects |-> FALSE]
        <5>1. keeping'.connects = FALSE
          BY <4>4
        <5>2. keeping.connects = FALSE
          BY <4>1 DEF NotKeeping
        <5> QED BY <5>1, <5>2
      <4> QED BY <4>2, <4>3, <4>4
    <3>2. CASE ReadToken
      <4>1. keeping' = [keeping EXCEPT !.at = "write", !.refresh = cells[account.cell].refresh]
        BY <3>2 DEF ReadToken
      <4> QED BY <4>1 DEF Typed, AccountTyped
    <3> QED BY <1>8, <3>1, <3>2
  <2> QED BY <1>1, <2>1, <2>2
<1>9. ASSUME NEW c \in Clients, ClientStep(c) \/ ServerStep(c) \/ Expire(c)
      PROVE  UNCHANGED <<rows, unsigned, lastBlock, account, keeping>>
  BY <1>9 DEF ClientStep, ServerStep, Ask, Renew, TakeGrant, TakeRefusal, TakeFailure, Done,
     Unauthorized, Apply, AnswerGrant, AnswerRefusal, NoAnswer, Expire, ClientRest, CommandRest,
     ServerRest, blockVars, accountVars
<1>10. ASSUME \/ \E k \in Cells : Age(k)
              \/ CheckSignIn \/ SayFarewell \/ LetGo \/ Deny
              \/ PersisterLoads \/ PersisterSaves \/ Ring \/ SignIn \/ DeviceRevoked
              \/ UNCHANGED vars
       PROVE  UNCHANGED <<rows, unsigned, lastBlock, account, keeping>>
  BY <1>10 DEF Age, CheckSignIn, SayFarewell, LetGo, Deny, PersisterLoads, PersisterSaves, Ring,
     SignIn, DeviceRevoked, PersisterRest, CommandRest, blockVars, accountVars, vars
<1>11. "control" \in Clients /\ "uploader" \in Clients
  BY DEF Clients
<1> QED BY <1>1, <1>2, <1>3, <1>4, <1>5, <1>6, <1>7, <1>8, <1>9, <1>10, <1>11
        DEF Next, WorkerStep

-------------------------------------------------------------------------------
(* Refresh tokens: each is redeemed once *)

\* An answer that the client has not put into its cell yet.
HasGrant(c) == client[c].pc = "granted"

\* The refresh tokens outside the cells, and the one a restart will find when
\* the persister is done.
Stored ==
  {sent[i] : i \in DOMAIN sent} \cup {saving.refresh, item.refresh, keeping.refresh}

Newest ==
  IF sent # <<>> THEN sent[Len(sent)]
  ELSE IF saving # NoItem THEN saving.refresh ELSE item.refresh

\* What is saved comes from a cell whose rotations are saved too.
Watching ==
  /\ used \subseteq 1 .. Len(grants)
  /\ account.cell # 0 => cells[account.cell].watched
  /\ credLocked => sent = <<>> /\ saving = NoItem /\ \A k \in Cells : ~cells[k].watched
  /\ \A k \in Cells : k > lastCell => cells[k].refresh = 0
  /\ \A i \in DOMAIN sent : sent[i] # 0
  /\ saving # NoItem => saving.refresh # 0
  /\ \A c \in Clients : HasGrant(c) => client[c].token # 0

\* A token that was redeemed is in a cell only while the answer is on its way
\* there, and what a restart would find was not, unless it is in such a cell.
Lineage ==
  excuses = {} =>
    /\ ended = {}
    /\ \A k, j \in Cells : cells[k].refresh # 0 /\ k # j => cells[k].refresh # cells[j].refresh
    /\ \A k \in Cells : cells[k].refresh \in used =>
         \E c \in Clients : HasGrant(c) /\ client[c].cell = k
    /\ \A k \in Cells : cells[k].refresh # 0 /\ cells[k].refresh \in Stored => cells[k].watched
    /\ \A c \in Clients : HasGrant(c) =>
         /\ client[c].token \notin used \cup Stored
         /\ \A k \in Cells : cells[k].refresh # client[c].token
         /\ \A d \in Clients : HasGrant(d) /\ d # c => client[c].token # client[d].token
    /\ Newest \in used => \E k \in Cells : cells[k].refresh = Newest
    /\ \A c \in Clients : client[c].pc # "refused"

\* A step that issues and redeems nothing: cells and answers stay, and what is
\* stored was stored before or is in a cell whose rotations are saved.
LEMMA Rearranged ==
  ASSUME Typed, Watching, Lineage,
         excuses' = {} =>
           /\ excuses = {} /\ used' = used /\ ended' = ended
           /\ \A k \in Cells : /\ cells'[k].refresh = cells[k].refresh
                               /\ cells[k].watched => cells'[k].watched
           /\ \A c \in Clients : HasGrant(c) \/ HasGrant(c)' => client'[c] = client[c]
           /\ \A c \in Clients : client'[c].pc = "refused" => client[c].pc = "refused"
           /\ \A x \in Stored' : x # 0 /\ x \notin Stored =>
                \E k \in Cells : cells[k].refresh = x /\ cells'[k].watched
           /\ Newest' \in {Newest, 0} \/ \E k \in Cells : cells[k].refresh = Newest'
  PROVE  Lineage'
<1> SUFFICES ASSUME excuses' = {}
             PROVE  /\ ended' = {}
                    /\ \A k, j \in Cells : cells'[k].refresh # 0 /\ k # j
                                             => cells'[k].refresh # cells'[j].refresh
                    /\ \A k \in Cells : cells'[k].refresh \in used' =>
                         \E c \in Clients : HasGrant(c)' /\ client'[c].cell = k
                    /\ \A k \in Cells : cells'[k].refresh # 0 /\ cells'[k].refresh \in Stored'
                                          => cells'[k].watched
                    /\ \A c \in Clients : HasGrant(c)' =>
                         /\ client'[c].token \notin used' \cup Stored'
                         /\ \A k \in Cells : cells'[k].refresh # client'[c].token
                         /\ \A d \in Clients : HasGrant(d)' /\ d # c
                                                 => client'[c].token # client'[d].token
                    /\ Newest' \in used' => \E k \in Cells : cells'[k].refresh = Newest'
                    /\ \A c \in Clients : client'[c].pc # "refused"
  BY DEF Lineage
<1>1. /\ excuses = {} /\ used' = used /\ ended' = ended
      /\ \A k \in Cells : cells'[k].refresh = cells[k].refresh
      /\ \A k \in Cells : cells[k].watched => cells'[k].watched
  OBVIOUS
<1>2. \A c \in Clients : HasGrant(c)' <=> HasGrant(c)
  BY DEF HasGrant
<1>3. \A c \in Clients : HasGrant(c) => client'[c] = client[c]
  OBVIOUS
<1>4. 0 \notin used
  BY Numbers DEF Watching
<1>5. \A k, j \in Cells : cells'[k].refresh # 0 /\ k # j
                            => cells'[k].refresh # cells'[j].refresh
  BY <1>1 DEF Lineage
<1>6. \A k \in Cells : cells'[k].refresh \in used' =>
        \E c \in Clients : HasGrant(c)' /\ client'[c].cell = k
  BY <1>1, <1>2, <1>3 DEF Lineage
<1>7. ASSUME NEW k \in Cells, cells'[k].refresh # 0, cells'[k].refresh \in Stored'
      PROVE  cells'[k].watched
  <2>1. CASE cells[k].refresh \in Stored
    BY <1>1, <1>7, <2>1 DEF Lineage
  <2>2. CASE cells[k].refresh \notin Stored
    <3>1. PICK j \in Cells : cells[j].refresh = cells[k].refresh /\ cells'[j].watched
      BY <1>1, <1>7, <2>2
    <3> QED BY <1>1, <1>7, <3>1 DEF Lineage
  <2> QED BY <2>1, <2>2
<1>8. ASSUME NEW c \in Clients, HasGrant(c)'
      PROVE  /\ client'[c].token \notin used' \cup Stored'
             /\ \A k \in Cells : cells'[k].refresh # client'[c].token
             /\ \A d \in Clients : HasGrant(d)' /\ d # c => client'[c].token # client'[d].token
  <2>1. HasGrant(c) /\ client'[c] = client[c]
    BY <1>2, <1>3, <1>8
  <2>2. /\ client[c].token \notin used \cup Stored
        /\ \A k \in Cells : cells[k].refresh # client[c].token
        /\ \A d \in Clients : HasGrant(d) /\ d # c => client[c].token # client[d].token
    BY <1>1, <2>1 DEF Lineage
  <2>3. client[c].token # 0
    BY <2>1 DEF Watching
  <2>4. client[c].token \notin Stored'
    BY <2>2, <2>3
  <2>5. \A d \in Clients : HasGrant(d)' /\ d # c => client'[c].token # client'[d].token
    BY <1>2, <1>3, <2>1, <2>2
  <2> QED BY <1>1, <2>1, <2>2, <2>4, <2>5
<1>9. Newest' \in used' => \E k \in Cells : cells'[k].refresh = Newest'
  BY <1>1, <1>4 DEF Lineage
<1>10. ended' = {} /\ \A c \in Clients : client'[c].pc # "refused"
  BY <1>1 DEF Lineage
<1> QED BY <1>5, <1>6, <1>7, <1>8, <1>9, <1>10

\* The same step keeps Watching when nothing is given out or forgotten.
LEMMA WatchingStays ==
  ASSUME Typed, Watching, used' = used, Len(grants') = Len(grants),
         \A k \in Cells : cells'[k].refresh = cells[k].refresh /\ cells'[k].watched = cells[k].watched,
         \A c \in Clients : HasGrant(c)' => client'[c] = client[c],
         lastCell' = lastCell, account' \in {account, NoAccount}, credLocked' => credLocked,
         \A i \in DOMAIN sent' : sent'[i] # 0,
         saving' # NoItem => saving'.refresh # 0,
         credLocked => sent' = sent /\ saving' = saving
  PROVE  Watching'
<1>1. \A c \in Clients : HasGrant(c)' => client'[c].token # 0
  BY DEF Watching, HasGrant
<1>2. account'.cell # 0 => cells'[account'.cell].watched
  <2>1. account.cell # 0 => account.cell \in Cells
    BY OutIsCell DEF Typed, AccountTyped
  <2> QED BY <2>1 DEF Watching, NoAccount
<1> QED BY <1>1, <1>2 DEF Watching

\* Both are kept by a step that leaves the cells' tokens, the answers on their
\* way and the persister alone; it may forget the account or its item.
LEMMA QuietKeeps ==
  ASSUME Typed, Watching, Lineage,
         used' = used, grants' = grants, ended' = ended, lastCell' = lastCell,
         \A k \in Cells : cells'[k].refresh = cells[k].refresh /\ cells'[k].watched = cells[k].watched,
         \A c \in Clients : HasGrant(c) \/ HasGrant(c)' => client'[c] = client[c],
         \A c \in Clients : client'[c].pc = "refused" => client[c].pc = "refused",
         account' \in {account, NoAccount}, credLocked' => credLocked,
         sent' = sent, saving' = saving, item' \in {item, NoItem},
         keeping'.refresh \in {keeping.refresh, 0}, excuses \subseteq excuses'
  PROVE  Watching' /\ Lineage'
<1>1. Watching'
  BY WatchingStays DEF Watching
<1>2. \A x \in Stored' : x # 0 /\ x \notin Stored => FALSE
  BY DEF Stored, NoItem
<1>3. Newest' \in {Newest, 0}
  BY DEF Newest, NoItem
<1>4. Lineage'
  BY <1>2, <1>3, Rearranged
<1> QED BY <1>1, <1>4

\* Both are kept by what a client does without an answer in its hands.
LEMMA ClientLineage ==
  ASSUME Typed, Watching, Lineage, NEW c \in Clients,
         \/ Ask(c) \/ Renew(c) \/ TakeRefusal(c) \/ TakeFailure(c) \/ Done(c)
         \/ Unauthorized(c) \/ Apply(c)
  PROVE  Watching' /\ Lineage'
<1> DEFINE k == client[c].cell
<1>0. /\ UNCHANGED <<used, grants, ended, lastCell, account, credLocked, keeping, sent, saving,
                     item, excuses>>
  BY DEF Ask, Renew, TakeRefusal, TakeFailure, Done, Unauthorized, Apply, ClientRest,
         CommandRest, serverVars, cellVars, ringVars, accountVars, historyVars
<1>1. client[c].pc # "granted"
  BY DEF Ask, Renew, TakeRefusal, TakeFailure, Done, Unauthorized, Apply, HasGrant
<1>2. PICK v : client' = [client EXCEPT ![c] = v] /\ v.pc \notin {"granted", "refused"}
  <2>1. CASE Ask(c)
    <3>1. client' = [client EXCEPT ![c] = Ensured(c, cells[k], 1)]
      BY <2>1 DEF Ask
    <3>2. Ensured(c, cells[k], 1).pc \in {"send", "queue"}
      BY ClientHas DEF Ensured, ClientRecord
    <3> QED BY <3>1, <3>2
  <2>2. CASE Renew(c)
    <3>1. \/ client' = [client EXCEPT ![c] = [client[c] EXCEPT !.pc = "send",
                                                               !.token = cells[k].access]]
          \/ client' = [client EXCEPT ![c] = [client[c] EXCEPT !.pc = "renew",
                                                               !.token = cells[k].refresh]]
          \/ client' = [client EXCEPT ![c] = Idle(k)]
      BY <2>2 DEF Renew
    <3>2. /\ [client[c] EXCEPT !.pc = "send", !.token = cells[k].access].pc = "send"
          /\ [client[c] EXCEPT !.pc = "renew", !.token = cells[k].refresh].pc = "renew"
          /\ Idle(k).pc = "idle"
      BY ClientHas DEF Idle, ClientRecord
    <3> QED BY <3>1, <3>2
  <2>3. CASE TakeRefusal(c) \/ Done(c)
    <3>1. client' = [client EXCEPT ![c] = Idle(k)] /\ Idle(k).pc = "idle"
      BY <2>3 DEF TakeRefusal, Done, Idle
    <3> QED BY <3>1
  <2>4. CASE TakeFailure(c)
    <3>1. \/ client' = [client EXCEPT ![c] = [client[c] EXCEPT !.pc = "send",
                                                               !.token = cells[k].access]]
          \/ client' = [client EXCEPT ![c] = Idle(k)]
      BY <2>4 DEF TakeFailure
    <3>2. /\ [client[c] EXCEPT !.pc = "send", !.token = cells[k].access].pc = "send"
          /\ Idle(k).pc = "idle"
      BY ClientHas DEF Idle, ClientRecord
    <3> QED BY <3>1, <3>2
  <2>5. CASE Unauthorized(c)
    <3> DEFINE w == Invalidated(cells[k], client[c].token)
    <3>1. \/ client' = [client EXCEPT ![c] = Ensured(c, w, 2)]
          \/ client' = [client EXCEPT ![c] = Idle(k)]
      BY <2>5 DEF Unauthorized
    <3>2. Ensured(c, w, 2).pc \in {"send", "queue"} /\ Idle(k).pc = "idle"
      BY ClientHas DEF Ensured, Idle, ClientRecord
    <3> HIDE DEF w
    <3> QED BY <3>1, <3>2
  <2>6. CASE Apply(c)
    <3>1. client' = [client EXCEPT ![c] = Idle(todo[c].cell)] /\ Idle(todo[c].cell).pc = "idle"
      BY <2>6 DEF Apply, Idle
    <3> QED BY <3>1
  <2> QED BY <2>1, <2>2, <2>3, <2>4, <2>5, <2>6
<1>3. /\ DOMAIN client = Clients
      /\ \A d \in Clients : client'[d] = IF d = c THEN v ELSE client[d]
  BY <1>2 DEF Typed, ClientsTyped
<1>4. \/ cells' = cells
      \/ /\ k \in Cells
         /\ \/ \E h : cells' = [cells EXCEPT ![k] = [cells[k] EXCEPT !.holder = h]]
            \/ cells' = [cells EXCEPT ![k] = Invalidated(cells[k], client[c].token)]
  <2>1. CASE Ask(c) \/ Done(c) \/ Apply(c)
    BY <2>1 DEF Ask, Done, Apply, cellVars
  <2>2. CASE \/ Renew(c) \/ TakeRefusal(c) \/ TakeFailure(c) \/ Unauthorized(c)
    <3>1. k \in Cells
      BY <2>2, ClientHas DEF Renew, TakeRefusal, TakeFailure, Unauthorized
    <3>2. \/ cells' = cells
          \/ \E h : cells' = [cells EXCEPT ![k] = [cells[k] EXCEPT !.holder = h]]
          \/ cells' = [cells EXCEPT ![k] = Invalidated(cells[k], client[c].token)]
      BY <2>2 DEF Renew, TakeRefusal, TakeFailure, Unauthorized
    <3> QED BY <3>1, <3>2
  <2> QED BY <2>1, <2>2
<1>5. \A j \in Cells : cells'[j].refresh = cells[j].refresh /\ cells'[j].watched = cells[j].watched
  <2>1. CASE cells' = cells
    BY <2>1
  <2>2. ASSUME NEW r, k \in Cells, cells' = [cells EXCEPT ![k] = r],
               r.refresh = cells[k].refresh, r.watched = cells[k].watched
        PROVE  \A j \in Cells : /\ cells'[j].refresh = cells[j].refresh
                                /\ cells'[j].watched = cells[j].watched
    BY <2>2 DEF Typed, CellsTyped
  <2>3. ASSUME k \in Cells
        PROVE  /\ Invalidated(cells[k], client[c].token).refresh = cells[k].refresh
               /\ Invalidated(cells[k], client[c].token).watched = cells[k].watched
               /\ \A h : /\ [cells[k] EXCEPT !.holder = h].refresh = cells[k].refresh
                         /\ [cells[k] EXCEPT !.holder = h].watched = cells[k].watched
    <3>1. cells[k] \in Cell
      BY <2>3 DEF Typed, CellsTyped
    <3> QED BY <3>1 DEF Cell, Invalidated
  <2>4. CASE k \in Cells /\ \E h : cells' = [cells EXCEPT ![k] = [cells[k] EXCEPT !.holder = h]]
    <3>1. PICK h : cells' = [cells EXCEPT ![k] = [cells[k] EXCEPT !.holder = h]]
      BY <2>4
    <3> HIDE DEF k
    <3> QED BY <2>2, <2>3, <2>4, <3>1
  <2>5. CASE k \in Cells /\ cells' = [cells EXCEPT ![k] = Invalidated(cells[k], client[c].token)]
    BY <2>2, <2>3, <2>5
  <2> QED BY <1>4, <2>1, <2>4, <2>5
<1>6. \A d \in Clients : HasGrant(d) \/ HasGrant(d)' => client'[d] = client[d]
  BY <1>1, <1>2, <1>3 DEF HasGrant
<1>7. \A d \in Clients : client'[d].pc = "refused" => client[d].pc = "refused"
  BY <1>2, <1>3
<1> QED BY <1>0, <1>5, <1>6, <1>7, QuietKeeps

\* An answer is kept: its token is in no other place, and it is announced
\* when the cell is one whose tokens are saved.
LEMMA TakeGrantLineage ==
  ASSUME Typed, Watching, Lineage, NEW c \in Clients, TakeGrant(c)
  PROVE  Watching' /\ Lineage'
<1> DEFINE k == client[c].cell
           g == client[c].token
<1>0. /\ UNCHANGED <<used, grants, ended, lastCell, account, credLocked, keeping, saving, item,
                     excuses>>
      /\ client[c].pc = "granted"
  BY DEF TakeGrant, ClientRest, serverVars, ringVars, accountVars, historyVars
<1>1. /\ k \in Cells /\ k \in Out /\ cells[k] \in Cell /\ g # 0 /\ g \in Known /\ HasGrant(c)
      /\ client[c] \in ClientRecord
  BY <1>0, ClientHas DEF Watching, HasGrant
<1>2. /\ client' = [client EXCEPT ![c] = [client[c] EXCEPT !.pc = "send"]]
      /\ cells' = [cells EXCEPT ![k] = [Granted(cells[k], g) EXCEPT !.holder = "nobody"]]
      /\ sent' = sent \o Announced(cells[k], g)
  BY DEF TakeGrant
<1>3. /\ \A j \in Cells : /\ cells'[j].refresh = IF j = k THEN g ELSE cells[j].refresh
                          /\ cells'[j].watched = cells[j].watched
  BY <1>1, <1>2 DEF Typed, CellsTyped, Cell, Granted
<1>4. \A d \in Clients : IF d = c THEN ~HasGrant(d)' ELSE client'[d] = client[d]
  BY <1>1, <1>2 DEF Typed, ClientsTyped, HasGrant, ClientRecord
<1>5. \/ cells[k].watched /\ sent' = Append(sent, g)
      \/ ~cells[k].watched /\ sent' = sent
  <2>1. sent \in Seq(Known)
    BY DEF Typed, SavingTyped
  <2>2. sent \o <<g>> = Append(sent, g) /\ sent \o <<>> = sent
    BY <1>1, <2>1
  <2> QED BY <1>2, <2>2 DEF Announced
<1>6. sent \in Seq(Known) /\ Len(sent) \in Nat /\ DOMAIN sent = 1 .. Len(sent)
  BY DEF Typed, SavingTyped
<1> HIDE DEF k, g
<1>7. Watching'
  <2>1. \A i \in DOMAIN sent' : sent'[i] # 0
    BY <1>1, <1>5, <1>6 DEF Watching
  <2>2. credLocked => sent' = <<>>
    BY <1>1, <1>5 DEF Watching
  <2>3. account.cell # 0 => account.cell \in Cells
    BY OutIsCell DEF Typed, AccountTyped
  <2>4. \A j \in Cells : j > lastCell => cells'[j].refresh = 0
    BY <1>1, <1>3, Numbers DEF Watching, Out, Cells
  <2>5. \A d \in Clients : HasGrant(d)' => client'[d].token # 0
    BY <1>4 DEF Watching, HasGrant
  <2> QED BY <1>0, <1>3, <2>1, <2>2, <2>3, <2>4, <2>5 DEF Watching
<1>8. Lineage'
  <2> SUFFICES ASSUME excuses = {} PROVE Lineage'
    BY <1>0 DEF Lineage
  <2>1. /\ g \notin used \cup Stored /\ \A j \in Cells : cells[j].refresh # g
        /\ \A d \in Clients : HasGrant(d) /\ d # c => g # client[d].token
    BY <1>1 DEF Lineage, g
  <2>2. /\ Stored' \subseteq Stored \cup {g}
        /\ g \in Stored' => cells[k].watched
    <3>1. {sent'[i] : i \in DOMAIN sent'} \subseteq {sent[i] : i \in DOMAIN sent} \cup {g}
      BY <1>5, <1>6, <1>1
    <3>2. Stored' \subseteq Stored \cup {g}
      BY <1>0, <3>1 DEF Stored
    <3>3. ~cells[k].watched => Stored' = Stored
      BY <1>0, <1>5 DEF Stored
    <3> QED BY <2>1, <3>2, <3>3
  <2>3. Newest' = IF cells[k].watched THEN g ELSE Newest
    <3>1. CASE cells[k].watched
      <4>1. sent' # <<>> /\ sent'[Len(sent')] = g
        BY <1>1, <1>5, <1>6, <3>1
      <4> QED BY <3>1, <4>1 DEF Newest
    <3>2. CASE ~cells[k].watched
      BY <1>0, <1>5, <3>2 DEF Newest
    <3> QED BY <3>1, <3>2
  <2>4. Newest \in Stored
    <3>1. sent # <<>> => Len(sent) \in DOMAIN sent
      BY <1>6
    <3> QED BY <3>1 DEF Newest, Stored
  <2>5. \A i, j \in Cells : cells'[i].refresh # 0 /\ i # j => cells'[i].refresh # cells'[j].refresh
    BY <1>3, <2>1 DEF Lineage
  <2>6. ASSUME NEW j \in Cells, cells'[j].refresh \in used
        PROVE  \E d \in Clients : HasGrant(d)' /\ client'[d].cell = j
    <3>1. j # k /\ cells[j].refresh \in used
      BY <1>3, <2>1, <2>6
    <3>2. PICK d \in Clients : HasGrant(d) /\ client[d].cell = j
      BY <3>1 DEF Lineage
    <3>3. d # c
      BY <3>1, <3>2 DEF k
    <3> QED BY <1>4, <3>2, <3>3 DEF HasGrant
  <2>7. \A j \in Cells : cells'[j].refresh # 0 /\ cells'[j].refresh \in Stored'
                            => cells'[j].watched
    BY <1>3, <2>1, <2>2 DEF Lineage
  <2>8. ASSUME NEW d \in Clients, HasGrant(d)'
        PROVE  /\ client'[d].token \notin used \cup Stored'
               /\ \A j \in Cells : cells'[j].refresh # client'[d].token
               /\ \A e \in Clients : HasGrant(e)' /\ e # d => client'[d].token # client'[e].token
    <3>1. d # c /\ HasGrant(d) /\ client'[d] = client[d]
      BY <1>4, <2>8 DEF HasGrant
    <3>2. \A e \in Clients : HasGrant(e)' => HasGrant(e) /\ client'[e] = client[e]
      BY <1>4 DEF HasGrant
    <3>3. client[d].token # g
      BY <2>1, <3>1
    <3> QED BY <1>3, <2>2, <3>1, <3>2, <3>3 DEF Lineage
  <2>9. Newest' \in used => \E j \in Cells : cells'[j].refresh = Newest'
    <3>1. CASE cells[k].watched
      BY <1>1, <1>3, <2>3, <3>1
    <3>2. CASE ~cells[k].watched /\ Newest \in used
      <4>1. PICK j \in Cells : cells[j].refresh = Newest
        BY <3>2 DEF Lineage
      <4>2. Newest # 0
        BY <3>2, Numbers DEF Watching
      <4>3. j # k
        BY <1>1, <2>4, <3>2, <4>1, <4>2 DEF Lineage
      <4> QED BY <1>3, <2>3, <3>2, <4>1, <4>3
    <3> QED BY <2>3, <3>1, <3>2
  <2>10. \A d \in Clients : client'[d].pc # "refused"
    <3>1. client'[c].pc = "send"
      BY <1>1, <1>2 DEF Typed, ClientsTyped, ClientRecord
    <3> QED BY <1>4, <3>1 DEF Lineage
  <2>11. ended' = {} /\ used' = used
    BY <1>0 DEF Lineage
  <2> QED BY <2>5, <2>6, <2>7, <2>8, <2>9, <2>10, <2>11 DEF Lineage
<1> QED BY <1>7, <1>8

\* An answer: the new token is nowhere yet, and the one it costs is the one of
\* the cell that waits for it.
LEMMA AnswerLineage ==
  ASSUME Typed, LockHeld, Watching, Lineage, NEW c \in Clients, AnswerGrant(c)
  PROVE  Watching' /\ Lineage'
<1> DEFINE k == client[c].cell
           t == client[c].token
           g == Len(grants) + 1
<1>0. /\ UNCHANGED <<ended, cells, lastCell, account, credLocked, keeping, sent, saving, item,
                     excuses>>
      /\ client[c].pc = "renew"
  BY DEF AnswerGrant, ServerRest, cellVars, ringVars, accountVars, historyVars
<1>1. /\ k \in Cells /\ cells[k] \in Cell /\ t \in 1 .. Len(grants) /\ t # 0 /\ Len(grants) \in Nat
      /\ client[c] \in ClientRecord /\ t = cells[k].refresh
  BY <1>0, ClientHas, Numbers DEF LockHeld
<1>2. /\ grants' = Append(grants, grants[t]) /\ Len(grants') = g
      /\ used' = used \cup {t}
      /\ client' = [client EXCEPT ![c] = [client[c] EXCEPT !.pc = "granted", !.token = g]]
  <2>1. grants[t] \in Nat /\ grants \in Seq(Nat)
    BY <1>0, ClientHas DEF Typed, GrantsTyped
  <2>2. Len(Append(grants, grants[t])) = g
    BY <2>1
  <2>3. /\ grants' = Append(grants, grants[t]) /\ used' = used \cup {t}
        /\ client' = [client EXCEPT ![c] = [client[c] EXCEPT !.pc = "granted",
                                                            !.token = Len(grants')]]
    BY DEF AnswerGrant
  <2> QED BY <2>2, <2>3
<1>3. /\ client'[c].pc = "granted" /\ client'[c].token = g /\ client'[c].cell = k
      /\ \A d \in Clients : d # c => client'[d] = client[d]
  BY <1>1, <1>2 DEF Typed, ClientsTyped, ClientRecord
<1>4. g \notin Known /\ g # 0 /\ used \subseteq 1 .. Len(grants)
  BY <1>1 DEF Known, Watching
<1> HIDE DEF k, t, g
<1>5. Watching'
  <2>1. used' \subseteq 1 .. Len(grants')
    BY <1>1, <1>2, <1>4 DEF g
  <2>2. \A d \in Clients : HasGrant(d)' => client'[d].token # 0
    BY <1>3, <1>4 DEF Watching, HasGrant
  <2> QED BY <1>0, <2>1, <2>2 DEF Watching
<1>6. Lineage'
  <2> SUFFICES ASSUME excuses = {} PROVE Lineage'
    BY <1>0 DEF Lineage
  <2>0. Stored' = Stored /\ Newest' = Newest /\ g \notin Stored
    <3>1. Stored' = Stored /\ Newest' = Newest
      BY <1>0 DEF Stored, Newest
    <3>2. Stored \subseteq Known
      BY DEF Stored, Typed, SavingTyped, AccountTyped, Secrets
    <3> QED BY <1>4, <3>1, <3>2
  <2>1. g \notin used' /\ \A j \in Cells : cells[j].refresh # g
    <3>1. \A j \in Cells : cells[j].refresh \in Known
      BY DEF Typed, CellsTyped, Cell
    <3>2. g \notin 1 .. Len(grants) /\ g # t
      BY <1>1 DEF g
    <3> QED BY <1>2, <1>4, <3>1, <3>2
  <2>2. \A i, j \in Cells : cells'[i].refresh # 0 /\ i # j => cells'[i].refresh # cells'[j].refresh
    BY <1>0 DEF Lineage
  <2>3. ASSUME NEW j \in Cells, cells'[j].refresh \in used'
        PROVE  \E d \in Clients : HasGrant(d)' /\ client'[d].cell = j
    <3>1. CASE cells[j].refresh \in used
      <4>1. PICK d \in Clients : HasGrant(d) /\ client[d].cell = j
        BY <3>1 DEF Lineage
      <4>2. d # c
        BY <1>0, <4>1 DEF HasGrant
      <4> QED BY <1>3, <4>1, <4>2 DEF HasGrant
    <3>2. CASE cells[j].refresh = t
      <4>1. j = k
        BY <1>1, <3>2 DEF Lineage
      <4> QED BY <1>3, <4>1 DEF HasGrant
    <3> QED BY <1>0, <1>2, <2>3, <3>1, <3>2
  <2>4. \A j \in Cells : cells'[j].refresh # 0 /\ cells'[j].refresh \in Stored'
                            => cells'[j].watched
    BY <1>0, <2>0 DEF Lineage
  <2>5. ASSUME NEW d \in Clients, HasGrant(d)'
        PROVE  /\ client'[d].token \notin used' \cup Stored'
               /\ \A j \in Cells : cells'[j].refresh # client'[d].token
               /\ \A e \in Clients : HasGrant(e)' /\ e # d => client'[d].token # client'[e].token
    <3>1. \A e \in Clients : e # c /\ HasGrant(e)' =>
            HasGrant(e) /\ client'[e] = client[e] /\ client[e].token # g /\ client[e].token # t
      <4>1. \A e \in Clients : client[e].token # g
        BY <1>4, ClientHas
      <4>2. \A e \in Clients : HasGrant(e) => client[e].token # t
        BY <1>1 DEF Lineage
      <4> QED BY <1>3, <4>1, <4>2 DEF HasGrant
    <3>2. CASE d = c
      BY <1>0, <1>3, <2>0, <2>1, <3>1, <3>2
    <3>3. CASE d # c
      BY <1>0, <1>2, <1>3, <2>0, <2>5, <3>1, <3>3 DEF Lineage
    <3> QED BY <3>2, <3>3
  <2>6. Newest' \in used' => \E j \in Cells : cells'[j].refresh = Newest'
    BY <1>0, <1>1, <1>2, <2>0 DEF Lineage
  <2>7. ended' = {} /\ \A d \in Clients : client'[d].pc # "refused"
    BY <1>0, <1>3 DEF Lineage
  <2> QED BY <2>2, <2>3, <2>4, <2>5, <2>6, <2>7 DEF Lineage
<1> QED BY <1>5, <1>6

\* A refusal has an excuse: the lock's owner renews with the token of its own
\* cell, which nobody redeemed as long as nothing went wrong.
LEMMA RefusalLineage ==
  ASSUME Typed, LockHeld, Watching, Lineage, NEW c \in Clients, AnswerRefusal(c)
  PROVE  Watching' /\ Lineage'
<1> DEFINE k == client[c].cell
           t == client[c].token
<1>0. /\ UNCHANGED <<used, grants, cells, lastCell, account, credLocked, keeping, sent, saving, item,
                     excuses>>
      /\ client[c].pc = "renew" /\ (t \in used \/ grants[t] \in ended)
      /\ client' = [client EXCEPT ![c] = [client[c] EXCEPT !.pc = "refused"]]
  BY DEF AnswerRefusal, ServerRest, cellVars, ringVars, accountVars, historyVars
<1>1. \A d \in Clients : HasGrant(d)' => client'[d] = client[d]
  <2>1. client'[c].pc = "refused"
    BY <1>0, ClientHas DEF Typed, ClientsTyped, ClientRecord
  <2> QED BY <1>0, <2>1 DEF Typed, ClientsTyped, HasGrant
<1>2. Watching'
  BY <1>0, <1>1, WatchingStays DEF Watching
<1>3. ASSUME excuses = {} PROVE FALSE
  <2>1. k \in Cells /\ t = cells[k].refresh /\ Holds(c, k)
    BY <1>0, ClientHas DEF LockHeld, Renewing
  <2>2. t \in used
    BY <1>0, <1>3 DEF Lineage
  <2>3. PICK d \in Clients : HasGrant(d) /\ client[d].cell = k
    BY <1>3, <2>1, <2>2 DEF Lineage
  <2>4. Holds(d, k)
    BY <2>3 DEF LockHeld, Renewing, HasGrant
  <2>5. d = c
    BY <2>1, <2>4 DEF Holds
  <2> QED BY <1>0, <2>3, <2>5 DEF HasGrant
<1>4. Lineage'
  BY <1>0, <1>3 DEF Lineage
<1> QED BY <1>2, <1>4

\* No answer: one that was on its way is lost, which is an excuse.
LEMMA NoAnswerLineage ==
  ASSUME Typed, Watching, Lineage, NEW c \in Clients, NoAnswer(c)
  PROVE  Watching' /\ Lineage'
<1>0. /\ UNCHANGED <<used, grants, ended, cells, lastCell, account, credLocked, keeping, sent, saving,
                     item>>
      /\ client' = [client EXCEPT ![c] = [client[c] EXCEPT !.pc = "failed"]]
      /\ \/ client[c].pc = "renew" /\ excuses' = excuses
         \/ excuses' = excuses \cup {"lost"}
  BY DEF NoAnswer, Trouble, ServerRest, cellVars, ringVars, accountVars, historyVars
<1>1. client'[c].pc = "failed" /\ \A d \in Clients : d # c => client'[d] = client[d]
  BY <1>0, ClientHas DEF Typed, ClientsTyped, ClientRecord
<1>2. \A d \in Clients : HasGrant(d)' => client'[d] = client[d]
  BY <1>1 DEF HasGrant
<1>3. Watching'
  BY <1>0, <1>2, WatchingStays DEF Watching
<1>4. CASE client[c].pc = "renew" /\ excuses' = excuses
  <2>1. \A d \in Clients : HasGrant(d) \/ HasGrant(d)' => client'[d] = client[d]
    BY <1>1, <1>4 DEF HasGrant
  <2>2. \A d \in Clients : client'[d].pc = "refused" => client[d].pc = "refused"
    BY <1>1
  <2> QED BY <1>0, <1>4, <2>1, <2>2, QuietKeeps
<1>5. CASE excuses' = excuses \cup {"lost"}
  BY <1>3, <1>5 DEF Lineage
<1> QED BY <1>0, <1>4, <1>5

\* The worker: cells keep their tokens, and nothing is saved yet.
LEMMA WorkerLineage ==
  ASSUME Typed, Watching, Lineage,
         \/ Ring \/ SignIn \/ (\E c \in Clients : Expire(c)) \/ SignOut \/ DeviceRevoked
         \/ SwitchTo \/ FinishBlock \/ PurgeQueue \/ (\E k \in Cells : Age(k)) \/ UNCHANGED vars
  PROVE  Watching' /\ Lineage'
<1>1. CASE \/ Ring \/ SignIn \/ (\E c \in Clients : Expire(c)) \/ FinishBlock \/ PurgeQueue
           \/ UNCHANGED vars
  <2>1. /\ UNCHANGED <<used, grants, ended, cells, lastCell, client, account, credLocked, keeping,
                       sent, saving, item>>
        /\ excuses \subseteq excuses'
    BY <1>1 DEF Ring, SignIn, Expire, FinishBlock, PurgeQueue, Trouble, vars, serverVars, cellVars,
       ringVars, accountVars, historyVars
  <2> QED BY <2>1, QuietKeeps
<1>2. CASE SignOut \/ DeviceRevoked \/ SwitchTo
  <2>1. /\ UNCHANGED <<used, grants, ended, cells, lastCell, client, sent, saving>>
        /\ account' \in {account, NoAccount} /\ (credLocked' => credLocked)
        /\ item' \in {item, NoItem} /\ excuses \subseteq excuses'
        /\ keeping'.refresh \in {keeping.refresh, 0}
    BY <1>2 DEF SignOut, DeviceRevoked, SwitchTo, Keep, Trouble, ClearItem, serverVars, cellVars,
       ringVars, historyVars
  <2> QED BY <2>1, QuietKeeps
<1>3. ASSUME NEW k \in Cells, Age(k) PROVE Watching' /\ Lineage'
  <2>1. /\ UNCHANGED <<used, grants, ended, lastCell, client, account, credLocked, keeping, sent,
                       saving, item, excuses>>
        /\ \E a : cells' = [cells EXCEPT ![k] = [cells[k] EXCEPT !.age = a]]
    BY <1>3 DEF Age, serverVars, ringVars, accountVars, historyVars
  <2>2. cells[k] \in Cell
    BY DEF Typed, CellsTyped
  <2>3. \A j \in Cells : cells'[j].refresh = cells[j].refresh /\ cells'[j].watched = cells[j].watched
    BY <2>1, <2>2 DEF Typed, CellsTyped, Cell
  <2> QED BY <2>1, <2>3, QuietKeeps
<1> QED BY <1>1, <1>2, <1>3

\* save_secrets reads the token of a cell whose rotations are saved.
LEMMA ReadLineage ==
  ASSUME Typed, Watching, Lineage, ReadToken
  PROVE  Watching' /\ Lineage'
<1> DEFINE k == account.cell
<1>0. /\ UNCHANGED <<used, grants, ended, cells, lastCell, client, account, credLocked, sent, saving,
                     item, excuses>>
      /\ keeping' = [keeping EXCEPT !.at = "write", !.refresh = cells[k].refresh]
      /\ keeping.at = "read"
  BY DEF ReadToken, serverVars, cellVars, ringVars, historyVars
<1>1. k \in Cells /\ cells[k].watched
  BY <1>0, OutIsCell DEF Typed, AccountTyped, Watching
<1>2. Watching'
  BY <1>0, WatchingStays DEF Watching
<1>3. keeping'.refresh = cells[k].refresh
  BY <1>0 DEF Typed, AccountTyped
<1>4. Stored' \subseteq Stored \cup {cells[k].refresh} /\ Newest' = Newest
  BY <1>0, <1>3 DEF Stored, Newest
<1> HIDE DEF k, Stored, Newest
<1>5. \A x \in Stored' : x # 0 /\ x \notin Stored =>
        \E j \in Cells : cells[j].refresh = x /\ cells'[j].watched
  BY <1>0, <1>1, <1>4
<1>6. Lineage'
  BY <1>0, <1>4, <1>5, Rearranged
<1> QED BY <1>2, <1>6

\* What save_secrets writes is the token its cell still has, or the persister
\* has a newer one to write over it; anything else is an excuse.
LEMMA SaveLineage ==
  ASSUME Typed, Watching, Lineage, SaveItem
  PROVE  Watching' /\ Lineage'
<1> DEFINE k == account.cell
<1>0. /\ UNCHANGED <<used, grants, ended, cells, lastCell, client, account, credLocked, sent,
                     saving>>
      /\ keeping' = NotKeeping /\ keeping.at = "write"
      /\ item' = IF locked THEN item ELSE [refresh |-> keeping.refresh, key |-> account.key]
      /\ excuses' = excuses \cup IF locked THEN {"unsaved"} ELSE IF Outdated THEN {"stale"} ELSE {}
  BY DEF SaveItem, Excused, serverVars, cellVars
<1>1. k \in Cells
  BY <1>0, OutIsCell DEF Typed, AccountTyped
<1>2. Watching'
  BY <1>0, WatchingStays DEF Watching
<1>3. excuses' = {} => /\ excuses = {} /\ item'.refresh = keeping.refresh
                       /\ keeping.refresh = cells[k].refresh \/ sent # <<>> \/ saving # NoItem
  BY <1>0 DEF Outdated
<1>4. excuses' = {} => \A x \in Stored' : x # 0 => x \in Stored
  BY <1>0, <1>3 DEF Stored, NotKeeping
<1>5. excuses' = {} => Newest' \in {Newest, 0} \/ \E j \in Cells : cells[j].refresh = Newest'
  <2>1. excuses' = {} => Newest' = Newest \/ Newest' = cells[k].refresh
    BY <1>0, <1>3 DEF Newest
  <2> QED BY <1>1, <2>1
<1> HIDE DEF k, Stored, Newest
<1>6. Lineage'
  BY <1>0, <1>3, <1>4, <1>5, Rearranged
<1> QED BY <1>2, <1>6

\* The farewell drops a request, and an answer on its way to it is lost; a
\* sign-in that the server ends is an excuse as well.
LEMMA DroppedLineage ==
  ASSUME Typed, Watching, Lineage, SayFarewell \/ LetGo \/ Deny
  PROVE  Watching' /\ Lineage'
<1>1. CASE SayFarewell
  <2> DEFINE k == client["control"].cell
  <2>0. /\ UNCHANGED <<used, grants, ended, lastCell, account, credLocked, keeping, sent, saving,
                       item>>
        /\ cells' = Released("control")
        /\ \/ client' = [client EXCEPT !["control"] = Idle(k)]
           \/ client' = [client EXCEPT !["control"] = Ensured("control", cells[k], 1)]
        /\ excuses' = excuses \cup IF client["control"].pc = "granted" THEN {"lost"} ELSE {}
    BY <1>1 DEF SayFarewell, Excused, serverVars, ringVars, accountVars
  <2>1. \A j \in Cells : cells'[j].refresh = cells[j].refresh /\ cells'[j].watched = cells[j].watched
    BY <2>0 DEF Released, Typed, CellsTyped, Cell
  <2>2. /\ "control" \in Clients /\ client'["control"].pc \in {"idle", "send", "queue"}
        /\ \A d \in Clients : d # "control" => client'[d] = client[d]
    <3>1. Idle(k).pc = "idle" /\ Ensured("control", cells[k], 1).pc \in {"send", "queue"}
      BY ClientHas DEF Idle, Ensured, ClientRecord, Clients
    <3> QED BY <2>0, <3>1 DEF Typed, ClientsTyped, Clients
  <2>3. \A d \in Clients : HasGrant(d)' => client'[d] = client[d]
    BY <2>2 DEF HasGrant
  <2>4. Watching'
    BY <2>0, <2>1, <2>3, WatchingStays DEF Watching
  <2>5. CASE client["control"].pc = "granted"
    BY <2>0, <2>4, <2>5 DEF Lineage
  <2>6. CASE client["control"].pc # "granted"
    <3>1. \A d \in Clients : HasGrant(d) \/ HasGrant(d)' => client'[d] = client[d]
      BY <2>2, <2>6 DEF HasGrant
    <3>2. \A d \in Clients : client'[d].pc = "refused" => client[d].pc = "refused"
      BY <2>2
    <3> QED BY <2>0, <2>1, <2>6, <3>1, <3>2, QuietKeeps
  <2> QED BY <2>5, <2>6
<1>2. CASE Deny
  <2>0. /\ UNCHANGED <<used, grants, cells, lastCell, client, account, credLocked, keeping, sent, saving,
                       item>>
        /\ \/ ended' = ended /\ excuses \subseteq excuses'
           \/ excuses' = excuses \cup {"ended"}
    BY <1>2 DEF Deny, Trouble, cellVars, ringVars, accountVars
  <2>1. Watching'
    BY <2>0, WatchingStays DEF Watching
  <2>2. CASE ended' = ended /\ excuses \subseteq excuses'
    BY <2>0, <2>2, QuietKeeps
  <2>3. CASE excuses' = excuses \cup {"ended"}
    BY <2>1, <2>3 DEF Lineage
  <2> QED BY <2>0, <2>2, <2>3
<1>3. CASE LetGo
  <2>0. /\ UNCHANGED <<used, grants, ended, cells, lastCell, account, credLocked, keeping, sent,
                       saving, item, excuses>>
        /\ client["control"].pc = "idle" /\ client' = [client EXCEPT !["control"] = Idle(0)]
    BY <1>3 DEF LetGo, CommandRest, cellVars, ringVars, accountVars, historyVars
  <2>1. /\ client'["control"].pc = "idle"
        /\ \A d \in Clients : d # "control" => client'[d] = client[d]
    BY <2>0 DEF Typed, ClientsTyped, Idle, Clients
  <2>2. \A d \in Clients : HasGrant(d) \/ HasGrant(d)' => client'[d] = client[d]
    BY <2>0, <2>1 DEF HasGrant
  <2>3. \A d \in Clients : client'[d].pc = "refused" => client[d].pc = "refused"
    BY <2>1
  <2> QED BY <2>0, <2>2, <2>3, QuietKeeps
<1> QED BY <1>1, <1>2, <1>3

\* The persister carries tokens from the channel to the item, oldest first.
LEMMA PersisterLineage ==
  ASSUME Typed, Watching, Lineage, PersisterLoads \/ PersisterSaves
  PROVE  Watching' /\ Lineage'
<1>0. /\ UNCHANGED <<used, grants, ended, cells, lastCell, client, account, credLocked, keeping>>
      /\ excuses' = excuses \cup IF locked THEN {"unsaved"} ELSE {}
  BY DEF PersisterLoads, PersisterSaves, PersisterRest, Excused, serverVars, cellVars, accountVars
<1>1. sent \in Seq(Known) /\ Len(sent) \in Nat /\ DOMAIN sent = 1 .. Len(sent)
  BY DEF Typed, SavingTyped
<1>2. CASE PersisterLoads
  <2>0. /\ sent # <<>> /\ saving = NoItem /\ sent' = Tail(sent) /\ item' = item
        /\ saving' = IF locked \/ item = NoItem THEN NoItem ELSE [item EXCEPT !.refresh = Head(sent)]
    BY <1>2 DEF PersisterLoads
  <2>1. /\ Head(sent) = sent[1] /\ 1 \in DOMAIN sent /\ Head(sent) # 0
        /\ \A i \in DOMAIN sent' : i + 1 \in DOMAIN sent /\ sent'[i] = sent[i + 1]
        /\ sent' # <<>> => Len(sent') \in DOMAIN sent' /\ Len(sent') + 1 = Len(sent)
        /\ sent' = <<>> => Len(sent) = 1
    <3>1. 1 \in DOMAIN sent /\ Head(sent) = sent[1]
      BY <1>1, <2>0
    <3>2. Tail(sent) \in Seq(Known) /\ Len(Tail(sent)) = Len(sent) - 1
          /\ \A i \in 1 .. Len(sent) - 1 : Tail(sent)[i] = sent[i + 1]
      BY <1>1, <2>0
    <3> QED BY <1>1, <2>0, <3>1, <3>2 DEF Watching
  <2>2. \A i \in DOMAIN sent' : sent'[i] # 0
    BY <2>1 DEF Watching
  <2>3. item \in Secrets
    BY DEF Typed, SavingTyped
  <2>4. saving'.refresh \in {0, Head(sent)} /\ (saving' # NoItem => saving'.refresh = Head(sent))
    BY <2>0, <2>3 DEF Secrets, NoItem
  <2>5. Watching'
    BY <1>0, <2>0, <2>1, <2>2, <2>4, WatchingStays DEF Watching
  <2>6. \A x \in Stored' : x # 0 => x \in Stored
    <3>1. Head(sent) \in {sent[i] : i \in DOMAIN sent}
      BY <2>1
    <3>2. {sent'[i] : i \in DOMAIN sent'} \subseteq {sent[i] : i \in DOMAIN sent}
      BY <2>1
    <3> QED BY <1>0, <2>0, <2>4, <3>1, <3>2 DEF Stored
  <2>7. ~locked => Newest' \in {Newest, 0}
    <3>1. CASE sent' # <<>>
      BY <2>0, <2>1, <3>1 DEF Newest
    <3>2. CASE sent' = <<>> /\ saving' # NoItem
      BY <2>0, <2>1, <2>4, <3>2 DEF Newest
    <3>3. CASE sent' = <<>> /\ saving' = NoItem /\ ~locked
      <4>1. item = NoItem
        <5>1. item # NoItem => saving'.refresh = Head(sent)
          BY <2>0, <2>3, <3>3 DEF Secrets
        <5> QED BY <2>1, <3>3, <5>1 DEF NoItem
      <4> QED BY <2>0, <3>3, <4>1 DEF Newest, NoItem
    <3> QED BY <3>1, <3>2, <3>3
  <2>8. Lineage'
    BY <1>0, <2>6, <2>7, Rearranged
  <2> QED BY <2>5, <2>8
<1>3. CASE PersisterSaves
  <2>0. /\ saving # NoItem /\ saving' = NoItem /\ sent' = sent
        /\ item' = IF locked THEN item ELSE saving
    BY <1>3 DEF PersisterSaves
  <2>1. Watching'
    BY <1>0, <2>0, WatchingStays DEF Watching
  <2>2. \A x \in Stored' : x # 0 => x \in Stored
    BY <1>0, <2>0 DEF Stored, NoItem
  <2>3. ~locked => Newest' = Newest
    BY <2>0 DEF Newest
  <2>4. Lineage'
    BY <1>0, <2>2, <2>3, Rearranged
  <2> QED BY <2>1, <2>4
<1> QED BY <1>2, <1>3

\* A sign-in is a cell of its own, with a token that is new.
LEMMA CheckLineage ==
  ASSUME Typed, Watching, Lineage, CheckSignIn
  PROVE  Watching' /\ Lineage'
<1> DEFINE n == lastCell + 1
           g == Len(grants) + 1
<1>0. /\ UNCHANGED <<used, ended, account, credLocked, keeping, sent, saving, item, excuses>>
      /\ "control" \in Clients /\ client["control"].pc = "idle"
  BY DEF CheckSignIn, CommandRest, ringVars, historyVars, Clients
<1>1. CASE UNCHANGED <<grants, cellVars, client>>
  <2>1. UNCHANGED <<cells, lastCell>>
    BY <1>1 DEF cellVars
  <2> QED BY <1>0, <1>1, <2>1, QuietKeeps
<1>2. CASE /\ lastCell < MaxCells
           /\ grants' = Append(grants, Len(grants) + 1) /\ lastCell' = lastCell + 1
           /\ cells' = [cells EXCEPT ![lastCell'] = Granted(NoCell, Len(grants'))]
           /\ client' = [client EXCEPT !["control"] = Idle(lastCell')]
  <2>1. /\ n \in Cells /\ n \notin Out /\ Len(grants) \in Nat /\ Len(grants') = g
        /\ g \notin Known /\ g # 0 /\ lastCell' = n /\ used \subseteq 1 .. Len(grants)
        /\ lastCell \in Nat
    BY <1>2, Numbers DEF Typed, GrantsTyped, Cells, Out, Known, Watching
  <2>2. \A j \in Cells : IF j = n THEN cells'[j].refresh = g /\ ~cells'[j].watched
                                  ELSE cells'[j] = cells[j]
    BY <1>2, <2>1 DEF Typed, CellsTyped, Granted, NoCell
  <2>3. /\ client'["control"].pc = "idle"
        /\ \A d \in Clients : d # "control" => client'[d] = client[d]
    BY <1>0, <1>2 DEF Typed, ClientsTyped, Idle
  <2>4. \A d \in Clients : HasGrant(d) \/ HasGrant(d)' => client'[d] = client[d]
    BY <1>0, <2>3 DEF HasGrant
  <2> HIDE DEF n, g
  <2>5. cells[n].refresh = 0
    BY <2>1 DEF Watching, n
  <2>6. Watching'
    <3>1. used' \subseteq 1 .. Len(grants')
      BY <1>0, <2>1 DEF g
    <3>2. account.cell # 0 => account.cell \in Cells /\ account.cell # n
      BY <2>1, OutIsCell DEF Typed, AccountTyped
    <3>3. \A j \in Cells : j > lastCell' => cells'[j].refresh = 0
      BY <2>1, <2>2 DEF Watching, Cells, n
    <3>4. \A d \in Clients : HasGrant(d)' => client'[d].token # 0
      BY <2>4 DEF Watching, HasGrant
    <3> QED BY <1>0, <2>2, <3>1, <3>2, <3>3, <3>4 DEF Watching
  <2>7. Lineage'
    <3> SUFFICES ASSUME excuses = {} PROVE Lineage'
      BY <1>0 DEF Lineage
    <3>1. Stored' = Stored /\ Newest' = Newest /\ g \notin Stored /\ g \notin used
      <4>1. Stored' = Stored /\ Newest' = Newest
        BY <1>0 DEF Stored, Newest
      <4>2. Stored \subseteq Known
        BY DEF Stored, Typed, SavingTyped, AccountTyped, Secrets
      <4>3. used \subseteq Known
        BY <2>1 DEF Known
      <4> QED BY <2>1, <4>1, <4>2, <4>3
    <3>2. \A j \in Cells : cells[j].refresh # g
      BY <2>1 DEF Typed, CellsTyped, Cell
    <3>3. \A d \in Clients : client[d].token # g
      BY <2>1, ClientHas
    <3>4. \A i, j \in Cells : cells'[i].refresh # 0 /\ i # j
                                => cells'[i].refresh # cells'[j].refresh
      BY <2>2, <3>2 DEF Lineage
    <3>5. \A j \in Cells : cells'[j].refresh \in used =>
            \E d \in Clients : HasGrant(d)' /\ client'[d].cell = j
      BY <2>2, <2>4, <3>1 DEF Lineage, HasGrant
    <3>6. \A j \in Cells : cells'[j].refresh # 0 /\ cells'[j].refresh \in Stored'
                              => cells'[j].watched
      BY <2>2, <3>1 DEF Lineage
    <3>7. ASSUME NEW d \in Clients, HasGrant(d)'
          PROVE  /\ client'[d].token \notin used \cup Stored
                 /\ \A j \in Cells : cells'[j].refresh # client'[d].token
                 /\ \A e \in Clients : HasGrant(e)' /\ e # d => client'[d].token # client'[e].token
      <4>1. \A e \in Clients : HasGrant(e)' => HasGrant(e) /\ client'[e] = client[e]
        BY <2>4 DEF HasGrant
      <4> QED BY <2>2, <3>3, <3>7, <4>1 DEF Lineage
    <3>8. Newest \in used => \E j \in Cells : cells'[j].refresh = Newest
      <4>1. 0 \notin used
        BY <2>1
      <4> QED BY <2>2, <2>5, <4>1 DEF Lineage
    <3>9. ended' = {} /\ \A d \in Clients : client'[d].pc # "refused"
      BY <1>0, <2>3 DEF Lineage
    <3> QED BY <1>0, <3>1, <3>4, <3>5, <3>6, <3>7, <3>8, <3>9 DEF Lineage
  <2> QED BY <2>6, <2>7
<1> QED BY <1>1, <1>2 DEF CheckSignIn

\* The cell that was signed in with is watched from then on, before its token
\* is saved.
LEMMA SignedInLineage ==
  ASSUME Typed, Watching, Lineage, SignedIn
  PROVE  Watching' /\ Lineage'
<1> DEFINE k == Head(events["control"]).cell
<1>0. /\ UNCHANGED <<used, grants, ended, lastCell, client, sent, saving, item>>
      /\ cells' = [cells EXCEPT ![k] = [cells[k] EXCEPT !.watched = TRUE]]
      /\ account'.cell = k /\ credLocked' = FALSE
      /\ keeping'.refresh = 0 /\ excuses \subseteq excuses'
  BY DEF SignedIn, Keep, Excused, serverVars, ringVars
<1>1. k \in Cells /\ cells[k] \in Cell
  <2>1. "control" \in Clients /\ events["control"] # <<>>
    BY DEF SignedIn, Clients
  <2>2. k \in Out \ {0}
    BY <2>1, Taken DEF Event
  <2> QED BY <2>2, OutIsCell
<1> HIDE DEF k
<1>2. \A j \in Cells : /\ cells'[j].refresh = cells[j].refresh
                       /\ cells'[j].watched = IF j = k THEN TRUE ELSE cells[j].watched
  BY <1>0, <1>1 DEF Typed, CellsTyped, Cell
<1>3. Watching'
  BY <1>0, <1>1, <1>2 DEF Watching, HasGrant
<1>4. \A x \in Stored' : x # 0 => x \in Stored
  BY <1>0 DEF Stored
<1>5. Newest' = Newest
  BY <1>0 DEF Newest
<1>6. \A j \in Cells : cells'[j].refresh = cells[j].refresh /\ (cells[j].watched => cells'[j].watched)
  BY <1>2
<1> HIDE DEF Stored, Newest
<1>7. Lineage'
  BY <1>0, <1>4, <1>5, <1>6, Rearranged
<1> QED BY <1>3, <1>7

\* The keyring can be read: no cell was watched so far and nothing is on its
\* way to the item, so that its token is in no cell and was not redeemed.
LEMMA ReloadLineage ==
  ASSUME Typed, Watching, Lineage, ReloadCredentials
  PROVE  Watching' /\ Lineage'
<1> DEFINE n == lastCell + 1
<1>0. /\ UNCHANGED <<used, grants, ended, client, keeping, sent, saving, item, excuses>>
      /\ credLocked
      /\ LoadSecrets(cells, lastCell, todo, unsigned, expired, credLocked)
  BY DEF ReloadCredentials, serverVars, ringVars, historyVars
<1>1. CASE account' = NoAccount /\ cells' = cells /\ lastCell' = lastCell
  BY <1>0, <1>1, QuietKeeps
<1>2. CASE /\ lastCell < MaxCells /\ account'.cell = n /\ credLocked' = FALSE /\ lastCell' = n
           /\ cells' = [cells EXCEPT ![n] = [WithRefreshToken(item.refresh) EXCEPT !.watched = TRUE]]
  <2>1. n \in Cells /\ n \notin Out /\ lastCell \in Nat
    BY <1>2, Numbers DEF Cells, Out
  <2>2. \A j \in Cells : IF j = n THEN cells'[j].refresh = item.refresh /\ cells'[j].watched
                                  ELSE cells'[j] = cells[j]
    BY <1>2, <2>1 DEF Typed, CellsTyped, WithRefreshToken, NoCell
  <2>3. cells[n].refresh = 0
    BY <2>1 DEF Watching
  <2>4. /\ sent = <<>> /\ saving = NoItem /\ \A j \in Cells : ~cells[j].watched
        /\ 0 \notin used
    BY <1>0, Numbers DEF Watching
  <2>5. Stored' = Stored /\ item.refresh \in Stored /\ Newest' = Newest /\ Newest = item.refresh
    BY <1>0, <2>4 DEF Stored, Newest
  <2>6. Watching'
    <3>1. \A j \in Cells : j > lastCell' => cells'[j].refresh = 0
      BY <1>2, <2>1, <2>2 DEF Watching, Cells
    <3> HIDE DEF n
    <3>2. account'.cell # 0 => cells'[account'.cell].watched
      BY <1>2, <2>1, <2>2
    <3> QED BY <1>0, <1>2, <3>1, <3>2 DEF Watching, HasGrant
  <2> HIDE DEF n, Stored, Newest
  <2>7. Lineage'
    <3> SUFFICES ASSUME excuses = {} PROVE Lineage'
      BY <1>0 DEF Lineage
    <3>1. item.refresh # 0 => \A j \in Cells : cells[j].refresh # item.refresh
      BY <2>4, <2>5 DEF Lineage
    <3>2. item.refresh \notin used
      BY <2>4, <2>5, <3>1 DEF Lineage
    <3>3. \A i, j \in Cells : cells'[i].refresh # 0 /\ i # j
                                => cells'[i].refresh # cells'[j].refresh
      BY <2>2, <3>1 DEF Lineage
    <3>4. \A j \in Cells : cells'[j].refresh \in used =>
            \E d \in Clients : HasGrant(d)' /\ client'[d].cell = j
      BY <1>0, <2>2, <3>2 DEF Lineage, HasGrant
    <3>5. \A j \in Cells : cells'[j].refresh # 0 /\ cells'[j].refresh \in Stored'
                              => cells'[j].watched
      BY <2>2, <2>5 DEF Lineage
    <3>6. ASSUME NEW d \in Clients, HasGrant(d)'
          PROVE  /\ client'[d].token \notin used \cup Stored
                 /\ \A j \in Cells : cells'[j].refresh # client'[d].token
                 /\ \A e \in Clients : HasGrant(e)' /\ e # d => client'[d].token # client'[e].token
      BY <1>0, <2>2, <2>5, <3>6 DEF Lineage, HasGrant
    <3>7. Newest' \notin used
      BY <2>5, <3>2
    <3>8. ended' = {} /\ \A d \in Clients : client'[d].pc # "refused"
      BY <1>0 DEF Lineage
    <3> QED BY <1>0, <2>5, <3>3, <3>4, <3>5, <3>6, <3>7, <3>8 DEF Lineage
  <2> QED BY <2>6, <2>7
<1>3. \/ account' = NoAccount /\ cells' = cells /\ lastCell' = lastCell
      \/ /\ lastCell < MaxCells /\ account'.cell = n /\ credLocked' = FALSE /\ lastCell' = n
         /\ cells' = [cells EXCEPT ![n] = [WithRefreshToken(item.refresh) EXCEPT !.watched = TRUE]]
  <2>1. \/ account' = NoAccount /\ cells' = cells /\ lastCell' = lastCell
        \/ /\ lastCell < MaxCells /\ account' = [cell |-> n, key |-> item.key]
           /\ credLocked' = FALSE /\ lastCell' = n
           /\ cells' = [cells EXCEPT ![n] = [WithRefreshToken(item.refresh) EXCEPT !.watched = TRUE]]
    <3> DEFINE m == lastCell
    <3>1. LoadSecrets(cells, m, todo, unsigned, expired, credLocked)
      BY <1>0
    <3> HIDE DEF m
    <3>2. \/ account' = NoAccount /\ cells' = cells /\ lastCell' = m
          \/ /\ m < MaxCells /\ account' = [cell |-> m + 1, key |-> item.key]
             /\ credLocked' = FALSE /\ lastCell' = m + 1
             /\ cells' = [cells EXCEPT ![m + 1] =
                            [WithRefreshToken(item.refresh) EXCEPT !.watched = TRUE]]
      BY <3>1 DEF LoadSecrets
    <3> QED BY <3>2 DEF m
  <2> QED BY <2>1
<1> QED BY <1>1, <1>2, <1>3

\* The process starts again: nothing was on its way, or that is an excuse, so
\* that the token of the item was not redeemed.
LEMMA RestartLineage ==
  ASSUME Typed, Watching, Lineage, Restart
  PROVE  Watching' /\ Lineage'
<1> DEFINE none == [k \in Cells |-> NoCell]
           why == (IF sent # <<>> \/ saving # NoItem THEN {"unsaved"} ELSE {})
                  \cup (IF \E c \in Clients : client[c].pc = "granted" THEN {"lost"} ELSE {})
<1>0. /\ UNCHANGED <<used, grants, ended, item>>
      /\ client' = Everyone(Idle(0)) /\ sent' = <<>> /\ saving' = NoItem
      /\ excuses' = excuses \cup why
      /\ \/ LoadSecrets(none, 0, Everyone(Nothing), <<>>, FALSE, FALSE)
         \/ cells' = none /\ lastCell' = 0 /\ account' = NoAccount
  BY DEF Restart, Trouble, serverVars, ringVars
<1>1. \/ account'.cell = 0 /\ cells' = none /\ lastCell' = 0
      \/ /\ account'.cell = 1 /\ ~credLocked' /\ lastCell' = 1
         /\ cells' = [none EXCEPT ![1] = [WithRefreshToken(item.refresh) EXCEPT !.watched = TRUE]]
  <2>1. CASE LoadSecrets(none, 0, Everyone(Nothing), <<>>, FALSE, FALSE)
    <3> HIDE DEF none
    <3> QED BY <2>1 DEF LoadSecrets, NoAccount
  <2>2. CASE cells' = none /\ lastCell' = 0 /\ account' = NoAccount
    BY <2>2 DEF NoAccount
  <2> QED BY <1>0, <2>1, <2>2
<1>2. 1 \in Cells /\ "idle" # "granted" /\ \A j \in Cells : j > 0 /\ j # 0
  BY TokensAssumption DEF Cells
<1>3. \/ /\ account'.cell = 0 /\ lastCell' = 0
         /\ \A j \in Cells : cells'[j].refresh = 0 /\ ~cells'[j].watched
      \/ /\ account'.cell = 1 /\ ~credLocked' /\ lastCell' = 1
         /\ \A j \in Cells : IF j = 1 THEN cells'[j].refresh = item.refresh /\ cells'[j].watched
                                      ELSE cells'[j].refresh = 0 /\ ~cells'[j].watched
  <2>1. CASE account'.cell = 0 /\ cells' = none /\ lastCell' = 0
    BY <2>1 DEF NoCell
  <2>2. CASE /\ account'.cell = 1 /\ ~credLocked' /\ lastCell' = 1
             /\ cells' = [none EXCEPT ![1] =
                            [WithRefreshToken(item.refresh) EXCEPT !.watched = TRUE]]
    <3> DEFINE r == [WithRefreshToken(item.refresh) EXCEPT !.watched = TRUE]
    <3>1. r.refresh = item.refresh /\ r.watched = TRUE
      BY DEF NoCell, WithRefreshToken
    <3>2. NoCell.refresh = 0 /\ NoCell.watched = FALSE
      BY DEF NoCell
    <3> HIDE DEF r
    <3>3. \A j \in Cells : cells'[j] = IF j = 1 THEN r ELSE NoCell
      BY <1>2, <2>2 DEF r
    <3> QED BY <2>2, <3>1, <3>2, <3>3
  <2> QED BY <1>1, <2>1, <2>2
<1>4. \A d \in Clients : ~HasGrant(d)' /\ client'[d].pc # "refused"
  BY <1>0 DEF Everyone, Idle, HasGrant
<1>5. Watching'
  <2>1. \A j \in Cells : j > lastCell' => cells'[j].refresh = 0
    BY <1>3 DEF Cells
  <2>2. account'.cell # 0 => cells'[account'.cell].watched
    BY <1>2, <1>3
  <2>3. credLocked' => \A j \in Cells : ~cells'[j].watched
    BY <1>3
  <2>4. \A i \in DOMAIN sent' : sent'[i] # 0
    BY <1>0
  <2> QED BY <1>0, <1>4, <2>1, <2>2, <2>3, <2>4 DEF Watching
<1>6. Lineage'
  <2> SUFFICES ASSUME excuses' = {} PROVE Lineage'
    BY DEF Lineage
  <2>1. /\ excuses = {} /\ sent = <<>> /\ saving = NoItem
        /\ \A c \in Clients : ~HasGrant(c)
    BY <1>0 DEF HasGrant
  <2>2. item.refresh \notin used /\ 0 \notin used
    <3>1. Newest = item.refresh
      BY <2>1 DEF Newest
    <3>2. Newest \notin used
      BY <2>1 DEF Lineage
    <3> QED BY <3>1, <3>2, Numbers DEF Watching
  <2>3. Newest' = item.refresh
    BY <1>0 DEF Newest
  <2>4. \A i, j \in Cells : cells'[i].refresh # 0 /\ i # j => cells'[i].refresh # cells'[j].refresh
    BY <1>3
  <2>5. \A j \in Cells : cells'[j].refresh \notin used
    BY <1>3, <2>2
  <2>6. \A j \in Cells : cells'[j].refresh # 0 => cells'[j].watched
    BY <1>3
  <2>7. ended' = {} /\ used' = used
    BY <1>0, <2>1 DEF Lineage
  <2> HIDE DEF none, why
  <2> QED BY <1>4, <2>2, <2>3, <2>4, <2>5, <2>6, <2>7 DEF Lineage
<1> QED BY <1>5, <1>6

\* Every step keeps both.
LEMMA LineageStep ==
  ASSUME Typed, LockHeld, Watching, Lineage, [Next]_vars
  PROVE  Watching' /\ Lineage'
<1>1. ASSUME NEW c \in Clients, ClientStep(c) PROVE Watching' /\ Lineage'
  BY <1>1, ClientLineage, TakeGrantLineage DEF ClientStep
<1>2. ASSUME NEW c \in Clients, ServerStep(c) PROVE Watching' /\ Lineage'
  BY <1>2, AnswerLineage, RefusalLineage, NoAnswerLineage DEF ServerStep
<1>3. "control" \in Clients /\ "uploader" \in Clients
  BY DEF Clients
<1> QED BY <1>1, <1>2, <1>3, WorkerLineage, ReadLineage, SaveLineage, DroppedLineage,
           PersisterLineage, CheckLineage, SignedInLineage, ReloadLineage, RestartLineage
        DEF Next, WorkerStep

-------------------------------------------------------------------------------
(* Signing keys *)

\* Secrets have a key, and while all could be saved the item, what is about
\* to replace it and the account have the same.
Keyed ==
  /\ item # NoItem => item.key # 0
  /\ saving # NoItem => saving.key # 0
  /\ account.cell # 0 => account.key # 0
  /\ "unsaved" \notin excuses =>
       /\ saving # NoItem => item # NoItem /\ saving.key = item.key
       /\ account.key # 0 /\ item # NoItem => item.key = account.key

\* No write of the persister is under way, nor the keyring locked, when the
\* account signs out or its device is revoked.
Punctual == \A p \in Plans : "overtaken" \notin p.faults

\* Keys agree as long as nobody touches the item.
LEMMA KeyedStays ==
  ASSUME Keyed, item' = item, saving' = saving, account' \in {account, NoAccount},
         excuses \subseteq excuses'
  PROVE  Keyed'
  BY DEF Keyed, NoAccount

\* What the clients and the server do touches no key.
LEMMA KeyedApart ==
  ASSUME Keyed,
         \/ \E c \in Clients : ClientStep(c) \/ ServerStep(c) \/ Expire(c)
         \/ \E k \in Cells : Age(k)
         \/ CheckSignIn \/ SayFarewell \/ LetGo \/ Deny \/ Ring \/ SignIn \/ SwitchTo
         \/ ReadToken \/ FinishBlock \/ PurgeQueue \/ UNCHANGED vars
  PROVE  Keyed'
<1>1. item' = item /\ saving' = saving /\ account' = account /\ excuses \subseteq excuses'
  <2>1. ASSUME NEW c \in Clients, ClientStep(c) \/ ServerStep(c) \/ Expire(c)
        PROVE  item' = item /\ saving' = saving /\ account' = account /\ excuses \subseteq excuses'
    BY <2>1 DEF ClientStep, ServerStep, Ask, Renew, TakeGrant, TakeRefusal, TakeFailure, Done,
       Unauthorized, Apply, AnswerGrant, AnswerRefusal, NoAnswer, Expire, ClientRest, CommandRest,
       ServerRest, Trouble, ringVars, accountVars, historyVars
  <2>2. ASSUME \/ \E k \in Cells : Age(k)
               \/ CheckSignIn \/ SayFarewell \/ LetGo \/ Deny \/ Ring \/ SignIn \/ SwitchTo
               \/ ReadToken \/ FinishBlock \/ PurgeQueue \/ UNCHANGED vars
        PROVE  item' = item /\ saving' = saving /\ account' = account /\ excuses \subseteq excuses'
    BY <2>2 DEF Age, CheckSignIn, SayFarewell, LetGo, Deny, Ring, SignIn, SwitchTo, ReadToken,
       FinishBlock, PurgeQueue, Excused, Trouble, CommandRest, ringVars, accountVars, historyVars, vars
  <2> QED BY <2>1, <2>2
<1> QED BY <1>1, KeyedStays

\* The persister writes back the key it has read.
LEMMA KeyedPersister ==
  ASSUME Typed, Keyed, PersisterLoads \/ PersisterSaves
  PROVE  Keyed'
<1>0. account' = account /\ excuses' = excuses \cup IF locked THEN {"unsaved"} ELSE {}
  BY DEF PersisterLoads, PersisterSaves, PersisterRest, Excused, accountVars
<1>1. CASE PersisterLoads
  <2>1. /\ saving = NoItem /\ item' = item
        /\ \/ saving' = NoItem
           \/ item # NoItem /\ saving' = [item EXCEPT !.refresh = Head(sent)]
    BY <1>1 DEF PersisterLoads
  <2>2. [item EXCEPT !.refresh = Head(sent)].key = item.key
    BY DEF Typed, SavingTyped, Secrets
  <2> QED BY <1>0, <2>1, <2>2 DEF Keyed
<1>2. CASE PersisterSaves
  <2>1. saving # NoItem /\ saving' = NoItem /\ item' = IF locked THEN item ELSE saving
    BY <1>2 DEF PersisterSaves
  <2> QED BY <1>0, <2>1 DEF Keyed
<1> QED BY <1>1, <1>2

\* The worker saves the key it has, which is the item's when there is one, and
\* forgets the item only when no write is under way.
LEMMA KeyedWorker ==
  ASSUME Typed, Keyed, Punctual,
         SignOut \/ DeviceRevoked \/ SaveItem \/ SignedIn \/ ReloadCredentials \/ Restart
  PROVE  Keyed'
<1>0. "overtaken" \notin plan.faults /\ lastKey \in Nat
  BY TokensAssumption DEF Typed, PlanTyped, Punctual, AccountTyped
<1>1. CASE SignOut \/ DeviceRevoked
  <2>1. /\ saving = NoItem /\ saving' = NoItem /\ item' = NoItem
        /\ account' \in {account, NoAccount}
    BY <1>0, <1>1 DEF SignOut, DeviceRevoked, ClearItem
  <2> QED BY <2>1 DEF Keyed, NoAccount
<1>2. CASE SaveItem
  <2>1. /\ saving' = saving /\ account' = account /\ excuses \subseteq excuses'
        /\ item' = IF locked THEN item ELSE [refresh |-> keeping.refresh, key |-> account.key]
    BY <1>2 DEF SaveItem, Excused
  <2>2. account.key # 0
    BY <1>2 DEF SaveItem, Keyed, Typed, AccountTyped
  <2>3. CASE ~locked
    <3>1. item' # NoItem /\ item'.key = account.key
      BY <2>1, <2>2, <2>3 DEF NoItem
    <3> QED BY <2>1, <2>2, <3>1 DEF Keyed
  <2>4. CASE locked
    BY <2>1, <2>4, KeyedStays
  <2> QED BY <2>3, <2>4
<1>3. CASE SignedIn
  <2> DEFINE k == Head(events["control"]).cell
             key == KeyOf(IF locked THEN NoItem ELSE item)
  <2>1. /\ item' = item /\ saving' = saving /\ account' = [cell |-> k, key |-> key]
        /\ excuses \subseteq excuses' /\ (locked => "unsaved" \in excuses')
    BY <1>3 DEF SignedIn, Excused, ringVars
  <2>2. key # 0 /\ (~locked /\ item # NoItem => key = item.key)
    BY <1>0 DEF KeyOf, Keyed
  <2> HIDE DEF k, key
  <2> QED BY <2>1, <2>2 DEF Keyed
<1>4. ASSUME item' = item, saving' = NoItem,
             \/ account' = NoAccount
             \/ item # NoItem /\ account'.key = item.key,
             excuses \subseteq excuses'
      PROVE  Keyed'
  BY <1>4 DEF Keyed, NoAccount
<1>5. CASE Restart
  <2>1. /\ item' = item /\ saving' = NoItem /\ excuses \subseteq excuses'
        /\ \/ account' = NoAccount
           \/ item # NoItem /\ account'.key = item.key
    BY <1>5 DEF Restart, LoadSecrets, Trouble, ringVars
  <2> QED BY <1>4, <2>1
<1>6. CASE ReloadCredentials
  <2>1. /\ item' = item /\ saving' = saving /\ excuses' = excuses
        /\ \/ account' = NoAccount
           \/ item # NoItem /\ account'.key = item.key
    <3> DEFINE n == lastCell
    <3>1. /\ item' = item /\ saving' = saving /\ excuses' = excuses
          /\ LoadSecrets(cells, n, todo, unsigned, expired, credLocked)
      BY <1>6 DEF ReloadCredentials, ringVars, historyVars
    <3> HIDE DEF n
    <3>2. \/ account' = NoAccount
          \/ item # NoItem /\ account' = [cell |-> n + 1, key |-> item.key]
      BY <3>1 DEF LoadSecrets
    <3> QED BY <3>1, <3>2
  <2> QED BY <2>1 DEF Keyed, NoAccount
<1> QED BY <1>1, <1>2, <1>3, <1>5, <1>6

-------------------------------------------------------------------------------
(* The theorems *)

\* The invariant of the proofs.
IInv == Typed /\ LockHeld /\ Ordered

\* The invariant holds in every initial state.
LEMMA InitIInv ==
  ASSUME Init
  PROVE  IInv
<1>1. /\ MaxCells \in Nat /\ MaxKeys \in Nat /\ plan.blocks \in Nat /\ plan.trouble \in Nat
      /\ Len(grants) = 0 /\ lastCell = 0
  BY TokensAssumption DEF Init
<1>2. 0 \in Known /\ 0 \in Out /\ "nobody" \notin Clients
  BY <1>1 DEF Known, Out, Clients
<1>3. NoCell \in Cell /\ Idle(0) \in Client /\ Nothing \in Command /\ NoItem \in Secrets
  BY <1>2 DEF NoCell, Cell, Idle, Client, ClientRecord, Steps, Nothing, Told, Command, NoItem,
     Secrets
<1>4. GrantsTyped /\ CellsTyped /\ ClientsTyped /\ TodoTyped
  BY <1>1, <1>3 DEF Init, GrantsTyped, CellsTyped, ClientsTyped, TodoTyped, Everyone
<1>5. EventsTyped /\ SavingTyped
  BY <1>3 DEF Init, EventsTyped, SavingTyped, Everyone
<1>6. AccountTyped
  BY <1>1, <1>2 DEF Init, AccountTyped, NoAccount, NotKeeping
<1>7. FlagsTyped /\ PlanTyped /\ BlocksTyped
  <2>1. FlagsTyped
    BY DEF Init, FlagsTyped
  <2>2. PlanTyped
    BY <1>1 DEF Init, PlanTyped
  <2>3. BlocksTyped
    BY <1>1 DEF Init, BlocksTyped
  <2> QED BY <2>1, <2>2, <2>3
<1>8. LockHeld
  BY <1>2 DEF Init, LockHeld, Holds, Renewing, Everyone, Idle, NoCell
<1>9. Ordered
  BY DEF Init, Ordered, QueuedInOrder
<1> QED BY <1>4, <1>5, <1>6, <1>7, <1>8, <1>9 DEF IInv, Typed

\* The invariant holds in every state of every behaviour.
LEMMA SpecIInv == Spec => []IInv
<1>1. IInv /\ [Next]_vars => IInv'
  BY TypedStep, LockStep, OrderStep DEF IInv
<1> QED BY <1>1, InitIInv, PTL DEF Spec

(* Types, whatever the clients, the server, the persister and the worker do.  *)
(* The invariant says more (Typed): every token a client, a cell, the         *)
(* persister or the keyring has was granted, every cell named was given out.  *)
THEOREM TokensTypes == Spec => []TypeOK
<1>1. IInv => TypeOK
  <2> SUFFICES ASSUME IInv PROVE TypeOK
    OBVIOUS
  <2>0. Typed /\ Known \subseteq Nat /\ Out \subseteq 0 .. MaxCells /\ Out \ {0} \subseteq Cells
    BY Numbers DEF IInv, Known, Out, Cells
  <2>1. cells \in [Cells -> CellType]
    <3>1. Cell \subseteq CellType
      BY <2>0 DEF Cell, CellType
    <3> QED BY <2>0, <3>1 DEF Typed, CellsTyped
  <2>2. client \in [Clients -> [cell : 0 .. MaxCells, pc : Steps, token : Nat, attempt : 1 .. 2]]
    <3>1. Client \subseteq [cell : 0 .. MaxCells, pc : Steps, token : Nat, attempt : 1 .. 2]
      BY <2>0 DEF Client, ClientRecord
    <3> QED BY <2>0, <3>1 DEF Typed, ClientsTyped
  <2>3. todo \in [Clients -> [op : {"none", "use", "drop", "signIn"}, cell : 0 .. MaxCells]]
    <3>1. Command \subseteq [op : {"none", "use", "drop", "signIn"}, cell : 0 .. MaxCells]
      BY <2>0 DEF Command
    <3> QED BY <2>0, <3>1 DEF Typed, TodoTyped
  <2>4. events \in [Clients -> Seq([op : {"expired", "signedIn"}, cell : Cells])]
    <3> DEFINE E == [op : {"expired", "signedIn"}, cell : Cells]
    <3>1. Event \subseteq E
      BY <2>0 DEF Event
    <3> HIDE DEF E
    <3>2. events \in [Clients -> Seq(E)]
      BY <2>0, <3>1 DEF Typed, EventsTyped
    <3> QED BY <3>2 DEF E
  <2>5. sent \in Seq(Nat) /\ saving \in [refresh : Nat, key : Nat]
        /\ item \in [refresh : Nat, key : Nat]
    <3>1. sent \in Seq(Nat)
      <4>1. sent \in Seq(Known)
        BY <2>0 DEF Typed, SavingTyped
      <4>2. Known \subseteq Nat
        BY <2>0
      <4> QED BY <4>1, <4>2, SeqMonotonic
    <3>2. Secrets \subseteq [refresh : Nat, key : Nat]
      BY <2>0 DEF Secrets
    <3> QED BY <2>0, <3>1, <3>2 DEF Typed, SavingTyped
  <2>6. /\ account \in [cell : 0 .. MaxCells, key : Nat] /\ lastKey \in 0 .. MaxKeys
        /\ keeping \in [at : {"no", "read", "write"}, refresh : Nat, connects : BOOLEAN]
    BY <2>0 DEF Typed, AccountTyped
  <2>7. unsigned \in Seq(Nat) /\ rows \in Seq([block : Nat, key : Nat])
        /\ lastBlock \in 0 .. plan.blocks
    BY <2>0 DEF Typed, BlocksTyped, Row
  <2> QED BY <2>0, <2>1, <2>2, <2>3, <2>4, <2>5, <2>6, <2>7
          DEF Typed, GrantsTyped, CellsTyped, FlagsTyped, PlanTyped, TypeOK
<1> QED BY <1>1, SpecIInv, PTL

(* TokenCell.renewing: two clients of one sign-in never renew at once, and    *)
(* who renews does so with the refresh token that its cell holds then.        *)
THEOREM RenewalsAreOne == Spec => []OneRenewal
<1>1. IInv => OneRenewal
  BY DEF IInv, LockHeld, Holds, OneRenewal
<1> QED BY <1>1, SpecIInv, PTL

(* TokenCell.renewing, Control::run: a lock that is taken has a client that   *)
(* is at work on the renewal of that very cell; none is left by a request     *)
(* that was dropped, a cell that was replaced or a process that ended.        *)
THEOREM LocksComeBack == Spec => []LockComesBack
<1>1. IInv => LockComesBack
  <2> SUFFICES ASSUME IInv, NEW k \in Cells, cells[k].holder # "nobody"
               PROVE  \E c \in Clients : /\ cells[k].holder = c /\ client[c].cell = k
                                         /\ Renewing(c)
    BY DEF LockComesBack
  <2>1. cells[k].holder \in Clients
    BY DEF IInv, Typed, CellsTyped, Cell
  <2> QED BY <2>1 DEF IInv, LockHeld, Holds
<1> QED BY <1>1, SpecIInv, PTL

(* FinishBlock, FlushUnsigned: the blocks of the queue are in the order they  *)
(* were recorded, and a block that waits for the key, as long as it may, is   *)
(* never overtaken by a later one that was signed at once.                    *)
THEOREM BlocksStayInOrder == Spec => []QueuedInOrder
<1>1. IInv => QueuedInOrder
  BY DEF IInv, Ordered
<1> QED BY <1>1, SpecIInv, PTL

(* ensure_token, TokenPersister, save_secrets: the server refuses a refresh   *)
(* only after it ended the sign-in, an answer was lost, a rotated token could *)
(* not be saved, or save_secrets wrote a token that was rotated since it read *)
(* it.  Neither two clients that renew one after the other, nor a restart,    *)
(* nor a keyring read again redeems a token twice for any other reason.       *)
THEOREM RefusedOnlyWithReason == Spec => []StaysSignedIn
<1>1. Init => Watching /\ Lineage
  <2> SUFFICES ASSUME Init PROVE Watching /\ Lineage
    OBVIOUS
  <2>1. /\ used = {} /\ ended = {} /\ sent = <<>> /\ saving = NoItem /\ item = NoItem
        /\ account.cell = 0 /\ ~credLocked
        /\ \A k \in Cells : cells[k].refresh = 0
        /\ \A c \in Clients : client[c].pc = "idle"
    BY DEF Init, NoCell, NoAccount, Everyone, Idle
  <2> QED BY <2>1 DEF Watching, Lineage, HasGrant
<1>2. IInv /\ Watching /\ Lineage /\ [Next]_vars => (Watching /\ Lineage)'
  BY LineageStep DEF IInv
<1>3. Watching /\ Lineage => StaysSignedIn
  BY DEF Lineage, StaysSignedIn
<1> QED BY <1>1, <1>2, <1>3, SpecIInv, PTL DEF Spec

(* save_secrets, TokenPersister, load_secrets: whatever is saved by whom, the *)
(* item has the key that the blocks of this process are signed with, provided *)
(* that no write of the persister is overtaken by signing out or by a revoked *)
(* device (Punctual): one that is would bring the old key back.               *)
THEOREM ItemHasTheKey == Punctual => (Spec => []KeyAgrees)
<1> SUFFICES ASSUME Punctual PROVE Spec => []KeyAgrees
  OBVIOUS
<1>1. Init => Keyed
  BY DEF Init, Keyed, NoAccount
<1>2. IInv /\ Keyed /\ [Next]_vars => Keyed'
  <2>1. "control" \in Clients /\ "uploader" \in Clients
    BY DEF Clients
  <2> QED BY <2>1, KeyedApart, KeyedPersister, KeyedWorker DEF IInv, Next, WorkerStep
<1>3. Keyed => KeyAgrees
  BY DEF Keyed, KeyAgrees
<1> QED BY <1>1, <1>2, <1>3, SpecIInv, PTL DEF Spec
================================================================================
