----------------------------- MODULE MatrixOutbox -----------------------------
(***************************************************************************)
(* The Matrix outbox: how a plan's state reaches the room.  Every plan has *)
(* a card, a message that is edited on each change and pinned while the    *)
(* plan is open.  Threads of the gateway enqueue notifications in several  *)
(* transactions; one bot per sender polls them, writes them to the room    *)
(* and acknowledges them, and any of its calls may fail or lose its reply. *)
(*                                                                         *)
(* Matrix itself is external: a write repeated under the same transaction  *)
(* id is not a new event.                                                  *)
(***************************************************************************)
EXTENDS Naturals, Sequences, SequencesExt, FiniteSets

CONSTANTS
  Plans,        \* the plans
  States,       \* plan states, which stand for the text of the card
  Writers,      \* threads of the gateway that may change plans at the same time
  Limit,        \* notifications per poll (20)
  MaxEvents     \* bound: changes of plan states and restarts of the bot

Done == "completed"

ASSUME OutboxAssumption ==
  /\ Done \in States
  /\ Limit \in Nat \ {0} /\ MaxEvents \in Nat

\* Notifications are named by plan, kind and, for an edit, the text's digest.
Notification == [plan : Plans, kind : {"card", "pin", "unpin"}, text : {"-"}]
                  \union [plan : Plans, kind : {"edit"}, text : States]
Card(p)    == [plan |-> p, kind |-> "card", text |-> "-"]
Pin(p)     == [plan |-> p, kind |-> "pin", text |-> "-"]
Unpin(p)   == [plan |-> p, kind |-> "unpin", text |-> "-"]
Edit(p, s) == [plan |-> p, kind |-> "edit", text |-> s]

VARIABLES
  state,        \* plans.state
  events,       \* changes of plan states and restarts of the bot so far
  writer,       \* each gateway thread: its program counter, plan, state set and card text
  outbox,       \* matrix_outbox in its order, created_at and then notification_id
  second,       \* how many of its last rows are of the current second
  sent,         \* the rows with state 'sent' and a sent_event_id
  batch,        \* the bot: what it polled and has not dealt with
  acking,       \* ... whether the first of the batch is written and not acknowledged
  room,         \* external: the events of the room
  pinned        \* external: the plans whose card is pinned

gatewayVars == <<state, writer>>
rowVars     == <<outbox, second>>
botVars     == <<batch, acking>>
roomVars    == <<room, pinned>>
vars == <<gatewayVars, events, rowVars, sent, botVars, roomVars>>

NoCall == [pc |-> "idle", plan |-> "-", set |-> "-", text |-> "-"]
Idle(t) == writer[t] = NoCall

TypeOK ==
  /\ state \in [Plans -> States]
  /\ events \in 0..MaxEvents
  /\ writer \in [Writers -> {NoCall} \union
       [pc : {"reading", "looking", "card", "pin", "edit", "unpin"},
        plan : Plans, set : States, text : States \union {"-"}]]
  /\ outbox \in Seq(Notification) /\ IsInjective(outbox)
  /\ second \in 0..Len(outbox)
  /\ sent \subseteq ToSet(outbox)
  /\ batch \in Seq(Notification) /\ Len(batch) <= Limit
  /\ acking \in BOOLEAN
  /\ room \in Seq(Notification)
  /\ pinned \subseteq Plans

\* Plans that exist and have not been announced.
Init ==
  /\ state \in [Plans -> States \ {Done}]
  /\ events = 0
  /\ writer = [t \in Writers |-> NoCall]
  /\ outbox = <<>> /\ second = 0 /\ sent = {}
  /\ batch = <<>> /\ acking = FALSE
  /\ room = <<>> /\ pinned = {}

-----------------------------------------------------------------------------
(* The gateway. *)

Goto(t, pc) == writer' = [writer EXCEPT ![t].pc = pc]
Return(t) == writer' = [writer EXCEPT ![t] = NoCall]

\* Ids of one plan sort by kind; the order of two plans or of two edits is that of
\* names and digests, which are left open.
Rank == [card |-> 1, edit |-> 2, pin |-> 3, unpin |-> 4]
Sorts(m, n) == m.plan = n.plan => Rank[m.kind] <= Rank[n.kind]

\* Where a new row comes in created_at, notification_id order.
Place(n) ==
  LET now == (Len(outbox) - second + 1)..Len(outbox)
  IN  {i \in now \union {Len(outbox) + 1} :
         \A j \in now : IF j < i THEN Sorts(outbox[j], n) ELSE Sorts(n, outbox[j])}

\* enqueue_matrix: an id enters once.
Enqueue(n) ==
  IF n \in ToSet(outbox)
  THEN UNCHANGED rowVars
  ELSE /\ \E i \in Place(n) : outbox' = InsertAt(outbox, i, n)
       /\ second' = second + 1

\* set_plan_state, pause_plan, finish_merge, ...: the transaction.
Change(t, p, s) ==
  /\ Idle(t)
  /\ events < MaxEvents /\ events' = events + 1
  /\ state' = [state EXCEPT ![p] = s]
  /\ writer' = [writer EXCEPT ![t] = [pc |-> "reading", plan |-> p, set |-> s, text |-> "-"]]
  /\ UNCHANGED <<rowVars, sent, botVars, roomVars>>

\* enqueue_plan_card: the plan row is read, ...
ReadPlan(t) ==
  /\ writer[t].pc = "reading"
  /\ writer' = [writer EXCEPT ![t].pc = "looking", ![t].text = state[writer[t].plan]]
  /\ UNCHANGED <<state, events, rowVars, sent, botVars, roomVars>>

\* ... the card is looked for, ...
LookUp(t) ==
  /\ writer[t].pc = "looking"
  /\ writer' = [writer EXCEPT ![t] =
       IF Card(@.plan) \in ToSet(outbox)
       THEN [@ EXCEPT !.pc = "edit"]
       ELSE [@ EXCEPT !.pc = "card", !.text = "-"]]
  /\ UNCHANGED <<state, events, rowVars, sent, botVars, roomVars>>

\* ... and it is posted and pinned, ...
PostCard(t) ==
  /\ writer[t].pc = "card"
  /\ Enqueue(Card(writer[t].plan))
  /\ Goto(t, "pin")
  /\ UNCHANGED <<state, events, sent, botVars, roomVars>>

\* A resolved plan is unpinned last.
AfterCard(t) ==
  IF writer[t].set = Done
  THEN writer' = [writer EXCEPT ![t].pc = "unpin", ![t].text = "-"]
  ELSE Return(t)

PostPin(t) ==
  /\ writer[t].pc = "pin"
  /\ Enqueue(Pin(writer[t].plan))
  /\ AfterCard(t)
  /\ UNCHANGED <<state, events, sent, botVars, roomVars>>

\* ... or edited.
PostEdit(t) ==
  /\ writer[t].pc = "edit"
  /\ Enqueue(Edit(writer[t].plan, writer[t].text))
  /\ AfterCard(t)
  /\ UNCHANGED <<state, events, sent, botVars, roomVars>>

\* enqueue_unpin.
PostUnpin(t) ==
  /\ writer[t].pc = "unpin"
  /\ IF Pin(writer[t].plan) \in ToSet(outbox)
     THEN Enqueue(Unpin(writer[t].plan))
     ELSE UNCHANGED rowVars
  /\ Return(t)
  /\ UNCHANGED <<state, events, sent, botVars, roomVars>>

\* The clock reaches the next second.
Tick ==
  /\ second > 0
  /\ second' = 0
  /\ UNCHANGED <<gatewayVars, events, outbox, sent, botVars, roomVars>>

\* The gateway dies and restarts.
GatewayCrash ==
  /\ \E t \in Writers : ~Idle(t)
  /\ writer' = [t \in Writers |-> NoCall]
  /\ UNCHANGED <<state, events, rowVars, sent, botVars, roomVars>>

-----------------------------------------------------------------------------
(* The bot. *)

\* pending_matrix: unsent, and the card it is about is sent.
Deliverable(n) ==
  /\ n \notin sent
  /\ n.kind = "card" \/ Card(n.plan) \in sent

\* The rows that are due, and the n-th of them.
Due == {i \in DOMAIN outbox : Deliverable(outbox[i])}
NthDue(n) == CHOOSE i \in Due : Cardinality({j \in Due : j <= i}) = n

Poll ==
  /\ batch = <<>> /\ Due # {}
  /\ batch' = [n \in {n \in 1..Limit : n <= Cardinality(Due)} |-> outbox[NthDue(n)]]
  /\ acking' = FALSE
  /\ UNCHANGED <<gatewayVars, events, rowVars, sent, roomVars>>

\* The cycle is given up.
Abandon == batch' = <<>> /\ acking' = FALSE

IsMessage(n) == n.kind \in {"card", "edit"}

\* Mutant: a new transaction id for each attempt.
WriteAnew(n) == room' = Append(room, n)

\* A write to the room, under the notification's id.
Write(n) == room' = IF n \in ToSet(room) THEN room ELSE Append(room, n)

Send ==
  /\ batch # <<>> /\ ~acking
  /\ IsMessage(Head(batch))
  /\ Write(Head(batch))
  /\ acking' = TRUE
  /\ UNCHANGED <<gatewayVars, events, rowVars, sent, batch, pinned>>

\* The write fails, or is done and its reply is lost.
SendFails ==
  /\ batch # <<>> /\ ~acking
  /\ IsMessage(Head(batch))
  /\ \/ Write(Head(batch))
     \/ UNCHANGED room
  /\ Abandon
  /\ UNCHANGED <<gatewayVars, events, rowVars, sent, pinned>>

\* The room's list of pinned events is read and written back.
Pins(n) == IF n.kind = "pin" THEN pinned \union {n.plan} ELSE pinned \ {n.plan}

SetPinned ==
  /\ batch # <<>> /\ ~acking
  /\ ~IsMessage(Head(batch))
  /\ pinned' = Pins(Head(batch))
  /\ acking' = TRUE
  /\ UNCHANGED <<gatewayVars, events, rowVars, sent, batch, room>>

\* Mutant: a pin that fails is like any write that fails.
PinAborts ==
  /\ batch # <<>> /\ ~acking
  /\ ~IsMessage(Head(batch))
  /\ Abandon
  /\ UNCHANGED <<gatewayVars, events, rowVars, sent, roomVars>>

\* A pin that fails, or whose reply is lost, is left pending and the bot moves on.
PinFails ==
  /\ batch # <<>> /\ ~acking
  /\ ~IsMessage(Head(batch))
  /\ pinned' \in {pinned, Pins(Head(batch))}
  /\ batch' = Tail(batch)
  /\ UNCHANGED <<gatewayVars, events, rowVars, sent, acking, room>>

\* complete_matrix.
Ack ==
  /\ acking
  /\ sent' = sent \union {Head(batch)}
  /\ batch' = Tail(batch)
  /\ acking' = FALSE
  /\ UNCHANGED <<gatewayVars, events, rowVars, roomVars>>

\* The acknowledgement is lost on its way, or its reply is.
AckFails ==
  /\ acking
  /\ \/ sent' = sent \union {Head(batch)}
     \/ UNCHANGED sent
  /\ Abandon
  /\ UNCHANGED <<gatewayVars, events, rowVars, roomVars>>

\* The bot restarts and forgets what it polled.
Restart ==
  /\ batch # <<>>
  /\ events < MaxEvents /\ events' = events + 1
  /\ Abandon
  /\ UNCHANGED <<gatewayVars, rowVars, sent, roomVars>>

-----------------------------------------------------------------------------
Gateway ==
  \/ \E t \in Writers :
       \/ \E p \in Plans, s \in States : Change(t, p, s)
       \/ ReadPlan(t) \/ LookUp(t) \/ PostCard(t) \/ PostPin(t) \/ PostEdit(t) \/ PostUnpin(t)
  \/ Tick \/ GatewayCrash

Bot == Poll \/ Send \/ SendFails \/ SetPinned \/ PinFails \/ Ack \/ AckFails

Next == Gateway \/ Bot \/ Restart

Spec == Init /\ [][Next]_vars

\* The bot polls for ever, and neither a message nor an acknowledgement fails for
\* ever.  A pin may: the bot does not always have the power level for it.
Fairness == WF_vars(Bot) /\ SF_vars(Send) /\ SF_vars(Ack)

FairSpec == Spec /\ Fairness

-----------------------------------------------------------------------------
(* Properties. *)

\* The room says what the gateway recorded, whatever is lost or repeated on the
\* way: a notification is one event of it, an edit comes after the card it edits,
\* what the gateway holds for sent is there, and what is pinned is a card of it.
RoomIsFaithful ==
  /\ IsInjective(room)
  /\ \A i \in DOMAIN room : room[i].kind = "edit" => \E j \in 1..i : room[j] = Card(room[i].plan)
  /\ \A n \in sent : IsMessage(n) => n \in ToSet(room)
  /\ \A p \in pinned : Card(p) \in ToSet(room)

Messages == {n \in Notification : IsMessage(n)}

\* The rows that a poll would take are pins and unpins, which may all fail.
PinsFillPoll ==
  /\ Limit <= Cardinality(Due)
  /\ \A n \in 1..Limit : ~IsMessage(outbox[NthDue(n)])

\* A message that is enqueued is shown in the end, although pins may fail for ever,
\* unless from some time on the pins that fail fill every poll.
MessagesFlow ==
  []<>(~PinsFillPoll) => \A n \in Messages : n \in ToSet(outbox) ~> n \in ToSet(room)

\* What the bot says of pins (cogito_bot.py, 122-124): they never stall the messages
\* queued behind them.
PinsNeverStall == \A n \in Messages : n \in ToSet(outbox) ~> n \in ToSet(room)
=============================================================================
