-------------------------- MODULE Channels_proofs ---------------------------
(***************************************************************************)
(* Proofs about what is repeated until it succeeds: what the rooms show,   *)
(* the fans that a controller drives and leaves behind, the events that    *)
(* the hosts publish, what the plugin knows of its endpoints, and the      *)
(* issues of a plan that ended.  Each is about its own specification, for  *)
(* every value of its constants.  That something gets through in the end   *)
(* is for model checking; what is proved here is what that rests on:       *)
(* nothing is lost, made up or shut out on the way.                        *)
(***************************************************************************)
EXTENDS MatrixOutbox, FanControl, Notify, Caps, Closing, FiniteSetTheorems, WellFoundedInduction, TLAPS

-----------------------------------------------------------------------------
(***************************************************************************)
(* MatrixOutbox. The room is faithful whatever the bot loses or repeats.   *)
(* What has to be carried is what the bot has polled: each row is a card,  *)
(* or its card is held for sent. That a row the bot polls is one of the    *)
(* rows that are due needs that the n-th of them exists, for which a least *)
(* number is taken.                                                        *)
(***************************************************************************)

\* Every set of numbers has a least one.
LEMMA LeastNumber ==
  ASSUME NEW S, S \subseteq Nat, S # {}
  PROVE  \E n \in S : \A m \in S : n <= m
<1> DEFINE Less == {pair \in Nat \X Nat : pair[1] < pair[2]}
<1>1. IsWellFoundedOn(Less, Nat)
  BY NatLessThanWellFounded DEF OpToRel
<1>2. \A m, n \in Nat : <<m, n>> \in Less <=> m < n
  OBVIOUS
<1> HIDE DEF Less
<1>3. \E n \in S : \A m \in S : ~(<<m, n>> \in Less)
  BY <1>1, WFMin
<1>4. PICK n \in S : \A m \in S : ~(m < n)
  BY <1>2, <1>3
<1>5. \A m \in S : n <= m
  BY <1>4
<1> QED
  BY <1>5

\* The elements of S up to n: finitely many, and one more when n is an element.
UpTo(S, n) == {j \in S : j <= n}

\* One number further, the set has one element more or as many.
LEMMA UpToStep ==
  ASSUME NEW S, S \subseteq Nat \ {0}, IsFiniteSet(S), NEW n \in Nat
  PROVE  /\ Cardinality(UpTo(S, n)) \in Nat
         /\ n = 0 => Cardinality(UpTo(S, n)) = 0
         /\ n # 0 => Cardinality(UpTo(S, n)) = Cardinality(UpTo(S, n - 1)) + IF n \in S THEN 1 ELSE 0
<1>1. \A m : IsFiniteSet(UpTo(S, m))
  BY FS_Subset DEF UpTo
<1>2. \A m : Cardinality(UpTo(S, m)) \in Nat
  BY <1>1, FS_CardinalityType
<1>3. ASSUME n = 0 PROVE Cardinality(UpTo(S, n)) = 0
  <2>1. \A j \in S : ~(j <= 0)
    OBVIOUS
  <2>2. UpTo(S, n) = {}
    BY <1>3, <2>1 DEF UpTo
  <2> QED
    BY <2>2, FS_EmptySet
<1>4. ASSUME n # 0, n \notin S PROVE Cardinality(UpTo(S, n)) = Cardinality(UpTo(S, n - 1))
  <2>1. \A j \in S : j \in Nat /\ j # n
    BY <1>4
  <2>2. \A j \in S : j <= n <=> j <= n - 1
    BY <1>4, <2>1
  <2>3. UpTo(S, n) = UpTo(S, n - 1)
    BY <2>2 DEF UpTo
  <2> QED
    BY <2>3
<1>5. ASSUME n # 0, n \in S PROVE Cardinality(UpTo(S, n)) = Cardinality(UpTo(S, n - 1)) + 1
  <2>1. \A j \in S : j \in Nat
    OBVIOUS
  <2>2. \A j \in S : j <= n <=> j <= n - 1 \/ j = n
    BY <1>5, <2>1
  <2>3. UpTo(S, n) = UpTo(S, n - 1) \union {n}
    BY <1>5, <2>2 DEF UpTo
  <2>4. n \notin UpTo(S, n - 1)
    <3>1. ~(n <= n - 1)
      OBVIOUS
    <3> QED
      BY <3>1 DEF UpTo
  <2> QED
    BY <1>1, <2>3, <2>4, FS_AddElement
<1> QED
  BY <1>2, <1>3, <1>4, <1>5

\* The n-th of finitely many numbers exists.
LEMMA NthExists ==
  ASSUME NEW S, S \subseteq Nat \ {0}, IsFiniteSet(S), NEW max \in Nat, \A j \in S : j <= max,
         NEW n \in Nat \ {0}, n <= Cardinality(S)
  PROVE  \E i \in S : Cardinality({j \in S : j <= i}) = n
<1> DEFINE R == {m \in Nat : n <= Cardinality(UpTo(S, m))}
<1>1. UpTo(S, max) = S
  BY DEF UpTo
<1>2. max \in R
  BY <1>1
<1>3. PICK m \in R : \A k \in R : m <= k
  BY <1>2, LeastNumber
<1>4. m \in Nat /\ n <= Cardinality(UpTo(S, m)) /\ \A k \in Nat : n <= Cardinality(UpTo(S, k)) => m <= k
  BY <1>3
<1>5. /\ Cardinality(UpTo(S, m)) \in Nat
      /\ m = 0 => Cardinality(UpTo(S, m)) = 0
      /\ m # 0 => Cardinality(UpTo(S, m)) = Cardinality(UpTo(S, m - 1)) + IF m \in S THEN 1 ELSE 0
  BY <1>4, UpToStep
<1>6. m # 0
  BY <1>4, <1>5
<1>7. m - 1 \in Nat /\ ~(n <= Cardinality(UpTo(S, m - 1))) /\ Cardinality(UpTo(S, m - 1)) \in Nat
  <2>1. m - 1 \in Nat /\ ~(m <= m - 1)
    BY <1>4, <1>6
  <2> QED
    BY <1>4, <2>1, UpToStep
<1>8. m \in S /\ Cardinality(UpTo(S, m)) = n
  BY <1>4, <1>5, <1>6, <1>7
<1> QED
  BY <1>8 DEF UpTo

Note == [plan : Plans \union {"-"}, kind : {"card", "pin", "unpin", "edit"}, text : States \union {"-"}]
WriterSteps == {"reading", "looking", "card", "pin", "edit", "unpin"}
ActiveCall == [pc : WriterSteps, plan : Plans, set : States, text : States \union {"-"}]
WriterCall == {NoCall} \union ActiveCall

OutboxTyped ==
  /\ state \in [Plans -> States]
  /\ writer \in [Writers -> WriterCall]
  /\ outbox \in Seq(Note) /\ second \in 0..Len(outbox)
  /\ batch \in Seq(Note) /\ room \in Seq(Note)

\* What the bot has polled goes after its card.
BatchIsDue == \A i \in DOMAIN batch : batch[i].kind = "card" \/ Card(batch[i].plan) \in sent

\* What the bot is about to acknowledge is written.
AckedIsWritten == acking => batch # <<>> /\ (IsMessage(Head(batch)) => Head(batch) \in ToSet(room))

BotInv == BatchIsDue /\ AckedIsWritten /\ RoomIsFaithful

\* A plan's notifications are rows of the outbox.
LEMMA NoteKinds ==
  ASSUME NEW p \in Plans \union {"-"}, NEW s \in States \union {"-"}
  PROVE  Card(p) \in Note /\ Pin(p) \in Note /\ Unpin(p) \in Note /\ Edit(p, s) \in Note
         /\ Card(p).kind = "card" /\ Card(p).plan = p
BY DEF Card, Pin, Unpin, Edit, Note

\* A thread that is not idle has a plan and a text.
LEMMA WriterIsActive ==
  ASSUME OutboxTyped, NEW t \in Writers, writer[t].pc # "idle"
  PROVE  writer[t] \in ActiveCall /\ writer[t].plan \in Plans /\ writer[t].text \in States \union {"-"}
<1>1. writer[t] \in WriterCall /\ NoCall.pc = "idle"
  BY DEF OutboxTyped, NoCall
<1>2. writer[t] \in ActiveCall
  BY <1>1 DEF WriterCall
<1> QED
  BY <1>2 DEF ActiveCall

\* A call of one thread replaces its own.
LEMMA WriterMoves ==
  ASSUME OutboxTyped, NEW t \in Writers, NEW c \in WriterCall
  PROVE  [writer EXCEPT ![t] = c] \in [Writers -> WriterCall]
BY DEF OutboxTyped

\* A writer goes on, with the text it had or another one.
Goes(t, step, s) ==
  /\ [writer EXCEPT ![t].pc = step] \in [Writers -> WriterCall]
  /\ [writer EXCEPT ![t].pc = step, ![t].text = s] \in [Writers -> WriterCall]
  /\ [writer EXCEPT ![t] = [writer[t] EXCEPT !.pc = step, !.text = s]] \in [Writers -> WriterCall]

\* A thread that is not idle may go on to any step of the call.
LEMMA WriterGoes ==
  ASSUME OutboxTyped, NEW t \in Writers, writer[t].pc # "idle",
         NEW pc \in WriterSteps, NEW s \in States \union {"-"}
  PROVE  Goes(t, pc, s)
<1> DEFINE c == [writer[t] EXCEPT !.pc = pc]
           d == [c EXCEPT !.text = s]
           w == [writer EXCEPT ![t] = c]
<1>1. c \in ActiveCall
  BY WriterIsActive DEF ActiveCall
<1>2. d \in ActiveCall
  <2> HIDE DEF c
  <2> QED
    BY <1>1 DEF ActiveCall
<1>3. w \in [Writers -> WriterCall] /\ w[t] = c
  BY <1>1, WriterMoves DEF OutboxTyped, WriterCall
<1>4. [w EXCEPT ![t] = d] \in [Writers -> WriterCall]
  <2> HIDE DEF c, d, w
  <2> QED
    BY <1>2, <1>3 DEF WriterCall
<1>5. [writer EXCEPT ![t].pc = pc, ![t].text = s] = [w EXCEPT ![t] = [w[t] EXCEPT !.text = s]]
  OBVIOUS
<1>6. [writer[t] EXCEPT !.pc = pc, !.text = s] = d
  OBVIOUS
<1>7. [writer EXCEPT ![t] = d] \in [Writers -> WriterCall]
  <2> HIDE DEF d
  <2> QED
    BY <1>2, WriterMoves DEF WriterCall
<1> QED
  BY <1>3, <1>4, <1>5, <1>6, <1>7 DEF Goes

\* A row that enters leaves a list of rows.
LEMMA EnqueueTyped ==
  ASSUME OutboxTyped, NEW n \in Note, Enqueue(n)
  PROVE  outbox' \in Seq(Note) /\ second' \in 0..Len(outbox')
<1>1. CASE n \in ToSet(outbox)
  BY <1>1 DEF Enqueue, rowVars, OutboxTyped
<1>2. CASE n \notin ToSet(outbox)
  <2>1. PICK i \in Place(n) : outbox' = InsertAt(outbox, i, n)
    BY <1>2 DEF Enqueue
  <2>2. outbox \in Seq(Note) /\ Len(outbox) \in Nat /\ second \in 0..Len(outbox) /\ second' = second + 1
    BY <1>2 DEF OutboxTyped, Enqueue
  <2>3. i \in 1..(Len(outbox) + 1)
    BY <2>1, <2>2 DEF Place
  <2> DEFINE before == SubSeq(outbox, 1, i - 1)
             after == SubSeq(outbox, i, Len(outbox))
  <2>4. before \in Seq(Note) /\ Len(before) = i - 1
    BY <2>2, <2>3
  <2>5. after \in Seq(Note) /\ Len(after) = Len(outbox) - i + 1
    BY <2>2, <2>3
  <2>6. <<n>> \in Seq(Note) /\ Len(<<n>>) = 1
    OBVIOUS
  <2>7. outbox' = before \o <<n>> \o after
    BY <2>1 DEF InsertAt
  <2> HIDE DEF before, after
  <2>8. outbox' \in Seq(Note) /\ Len(outbox') = Len(before) + 1 + Len(after)
    BY <2>4, <2>5, <2>6, <2>7
  <2> QED
    BY <2>2, <2>3, <2>4, <2>5, <2>8
<1> QED
  BY <1>1, <1>2

\* What the bot polls is due, and no more than a poll may have.
LEMMA PollStep ==
  ASSUME OutboxTyped, Poll
  PROVE  /\ batch' \in Seq(Note) /\ BatchIsDue'
         /\ ToSet(batch') \subseteq ToSet(outbox) /\ Len(batch') <= Limit
<1> DEFINE k == IF Cardinality(Due) <= Limit THEN Cardinality(Due) ELSE Limit
<1>1. outbox \in Seq(Note) /\ Len(outbox) \in Nat
  BY DEF OutboxTyped
<1>2. Due \subseteq 1..Len(outbox) /\ IsFiniteSet(1..Len(outbox))
  <2>1. DOMAIN outbox = 1..Len(outbox)
    BY <1>1
  <2>2. IsFiniteSet(1..Len(outbox))
    BY <1>1, FS_Interval
  <2> QED
    BY <2>1, <2>2 DEF Due
<1>3. IsFiniteSet(Due) /\ Cardinality(Due) \in Nat
  BY <1>2, FS_Subset, FS_CardinalityType
<1>4. \A n \in 1..Cardinality(Due) : NthDue(n) \in Due
  <2> SUFFICES ASSUME NEW n \in 1..Cardinality(Due) PROVE NthDue(n) \in Due
    OBVIOUS
  <2>1. Due \subseteq Nat \ {0} /\ (\A j \in Due : j <= Len(outbox)) /\ n \in Nat \ {0} /\ n <= Cardinality(Due)
    BY <1>1, <1>2, <1>3
  <2>2. \E i \in Due : Cardinality({j \in Due : j <= i}) = n
    BY <1>1, <1>3, <2>1, NthExists
  <2> QED
    BY <2>2 DEF NthDue
<1>5. k \in Nat /\ {n \in 1..Limit : n <= Cardinality(Due)} = 1..k /\ 1..k \subseteq 1..Cardinality(Due)
  BY <1>3, OutboxAssumption
<1>6. batch' = [n \in 1..k |-> outbox[NthDue(n)]]
  BY <1>5 DEF Poll
<1>7. \A n \in 1..k : outbox[NthDue(n)] \in Note /\ Deliverable(outbox[NthDue(n)])
  BY <1>1, <1>4, <1>5 DEF Due
<1> HIDE DEF k
<1>8. batch' \in Seq(Note) /\ DOMAIN batch' = 1..k /\ \A n \in 1..k : batch'[n] = outbox[NthDue(n)]
  BY <1>5, <1>6, <1>7
<1>9. BatchIsDue'
  BY <1>7, <1>8 DEF BatchIsDue, Deliverable, Poll
<1>10. ToSet(batch') \subseteq ToSet(outbox)
  <2>1. \A n \in 1..k : outbox[NthDue(n)] \in ToSet(outbox)
    BY <1>4, <1>5 DEF Due, ToSet
  <2> QED
    BY <1>8, <2>1 DEF ToSet
<1>11. Len(batch') <= Limit
  <2>1. k <= Limit
    BY <1>3, OutboxAssumption DEF k
  <2> QED
    BY <1>5, <1>8, <2>1
<1> QED
  BY <1>8, <1>9, <1>10, <1>11

\* A message is written to the room, when it is due.
LEMMA WriteStep ==
  ASSUME OutboxTyped, BotInv, batch # <<>>, IsMessage(Head(batch)), Write(Head(batch)), UNCHANGED <<sent, pinned>>
  PROVE  room' \in Seq(Note) /\ RoomIsFaithful' /\ Head(batch) \in ToSet(room')
         /\ ToSet(room) \subseteq ToSet(room')
<1> DEFINE n == Head(batch)
<1>1. n \in Note /\ n = batch[1] /\ 1 \in DOMAIN batch
  BY DEF OutboxTyped
<1>2. n.kind # "card" => Card(n.plan) \in ToSet(room)
  <2>1. n.kind # "card" => Card(n.plan) \in sent
    BY <1>1 DEF BotInv, BatchIsDue
  <2>2. IsMessage(Card(n.plan))
    BY DEF Card, IsMessage
  <2> QED
    BY <2>1, <2>2 DEF BotInv, RoomIsFaithful
<1>3. CASE n \in ToSet(room)
  <2>1. room' = room
    BY <1>3 DEF Write
  <2> QED
    BY <1>3, <2>1 DEF OutboxTyped, BotInv, RoomIsFaithful, IsInjective, ToSet
<1>4. CASE n \notin ToSet(room)
  <2>1. room \in Seq(Note) /\ room' = Append(room, n)
    BY <1>4 DEF Write, OutboxTyped
  <2>2. /\ room' \in Seq(Note) /\ Len(room) \in Nat
        /\ DOMAIN room = 1..Len(room) /\ DOMAIN room' = 1..(Len(room) + 1)
        /\ room'[Len(room) + 1] = n /\ \A i \in 1..Len(room) : room'[i] = room[i]
    BY <1>1, <2>1
  <2>3. n \in ToSet(room') /\ ToSet(room) \subseteq ToSet(room')
    BY <2>2 DEF ToSet
  <2>4. IsInjective(room')
    BY <1>4, <2>2 DEF BotInv, RoomIsFaithful, IsInjective, ToSet
  <2>5. \A i \in DOMAIN room' : room'[i].kind = "edit" => \E j \in 1..i : room'[j] = Card(room'[i].plan)
    <3> SUFFICES ASSUME NEW i \in DOMAIN room', room'[i].kind = "edit"
                 PROVE  \E j \in 1..i : room'[j] = Card(room'[i].plan)
      OBVIOUS
    <3>1. CASE i \in 1..Len(room)
      BY <2>2, <3>1 DEF BotInv, RoomIsFaithful
    <3>2. CASE i = Len(room) + 1
      BY <1>2, <2>2, <3>2 DEF ToSet
    <3> QED
      BY <2>2, <3>1, <3>2
  <2>6. RoomIsFaithful'
    BY <2>3, <2>4, <2>5 DEF BotInv, RoomIsFaithful, IsMessage
  <2> QED
    BY <2>2, <2>3, <2>6
<1> QED
  BY <1>3, <1>4

\* The bot goes on to the rest of its batch, or gives it up.
LEMMA BatchGoes ==
  ASSUME OutboxTyped, BotInv, (batch' = Tail(batch) /\ batch # <<>>) \/ batch' = <<>> \/ batch' = batch,
         sent \subseteq sent'
  PROVE  batch' \in Seq(Note) /\ BatchIsDue'
<1>1. batch \in Seq(Note) /\ BatchIsDue
  BY DEF OutboxTyped, BotInv
<1>2. CASE batch' = Tail(batch) /\ batch # <<>>
  <2>1. batch' \in Seq(Note) /\ \A i \in DOMAIN batch' : i + 1 \in DOMAIN batch /\ batch'[i] = batch[i + 1]
    BY <1>1, <1>2
  <2> QED
    BY <1>1, <2>1 DEF BatchIsDue
<1>3. CASE batch' = <<>>
  BY <1>3 DEF BatchIsDue
<1>4. CASE batch' = batch
  BY <1>1, <1>4 DEF BatchIsDue
<1> QED
  BY <1>2, <1>3, <1>4

\* What a writer does.
LEMMA WriterStep ==
  ASSUME OutboxTyped, NEW t \in Writers,
         ReadPlan(t) \/ LookUp(t) \/ PostCard(t) \/ PostPin(t) \/ PostEdit(t) \/ PostUnpin(t)
  PROVE  /\ writer' \in [Writers -> WriterCall] /\ state' = state
         /\ (outbox' \in Seq(Note) /\ second' \in 0..Len(outbox')) \/ UNCHANGED rowVars
<1>1. writer[t].pc # "idle" /\ state' = state
  BY DEF ReadPlan, LookUp, PostCard, PostPin, PostEdit, PostUnpin
<1>2. writer[t].plan \in Plans /\ writer[t].text \in States \union {"-"} /\ state \in [Plans -> States]
  BY <1>1, WriterIsActive DEF OutboxTyped
<1>3. NoCall \in WriterCall
  BY DEF WriterCall
<1>13. \A step \in WriterSteps, s \in States \union {"-"} : Goes(t, step, s)
  BY <1>1, WriterGoes
<1>4. AfterCard(t) => writer' \in [Writers -> WriterCall]
  <2>1. [writer EXCEPT ![t].pc = "unpin", ![t].text = "-"] \in [Writers -> WriterCall]
    <3>1. "unpin" \in WriterSteps /\ "-" \in States \union {"-"}
      BY DEF WriterSteps
    <3>2. Goes(t, "unpin", "-")
      BY <1>13, <3>1
    <3> QED
      BY <3>2 DEF Goes
  <2>2. [writer EXCEPT ![t] = NoCall] \in [Writers -> WriterCall]
    BY <1>3, WriterMoves
  <2> QED
    BY <2>1, <2>2 DEF AfterCard, Return
<1>5. \A n \in Note : Enqueue(n) => outbox' \in Seq(Note) /\ second' \in 0..Len(outbox')
  BY EnqueueTyped
<1>6. \A s \in States \union {"-"} :
        /\ Card(writer[t].plan) \in Note /\ Pin(writer[t].plan) \in Note /\ Unpin(writer[t].plan) \in Note
        /\ Edit(writer[t].plan, s) \in Note
  BY <1>2, NoteKinds
<1>7. CASE ReadPlan(t)
  <2>1. state[writer[t].plan] \in States \union {"-"} /\ "looking" \in WriterSteps
    BY <1>2 DEF WriterSteps
  <2>2. [writer EXCEPT ![t].pc = "looking", ![t].text = state[writer[t].plan]] \in [Writers -> WriterCall]
    <3>1. Goes(t, "looking", state[writer[t].plan])
      BY <1>13, <2>1
    <3> QED
      BY <3>1 DEF Goes
  <2> QED
    BY <1>1, <1>7, <2>2 DEF ReadPlan
<1>8. CASE LookUp(t)
  <2>1. \/ writer' = [writer EXCEPT ![t] = [writer[t] EXCEPT !.pc = "edit"]]
        \/ writer' = [writer EXCEPT ![t] = [writer[t] EXCEPT !.pc = "card", !.text = "-"]]
    BY <1>8 DEF LookUp
  <2>2. [writer EXCEPT ![t].pc = "edit"] \in [Writers -> WriterCall]
        /\ [writer EXCEPT ![t] = [writer[t] EXCEPT !.pc = "card", !.text = "-"]] \in [Writers -> WriterCall]
    <3>1. "edit" \in WriterSteps /\ "card" \in WriterSteps /\ "-" \in States \union {"-"}
      BY DEF WriterSteps
    <3>2. Goes(t, "edit", "-") /\ Goes(t, "card", "-")
      BY <1>13, <3>1
    <3> QED
      BY <3>2 DEF Goes
  <2>3. [writer EXCEPT ![t] = [writer[t] EXCEPT !.pc = "edit"]] = [writer EXCEPT ![t].pc = "edit"]
    OBVIOUS
  <2> QED
    BY <1>1, <1>8, <2>1, <2>2, <2>3 DEF LookUp
<1>9. CASE PostCard(t)
  <2>1. "pin" \in WriterSteps /\ "-" \in States \union {"-"}
    BY DEF WriterSteps
  <2>2. [writer EXCEPT ![t].pc = "pin"] \in [Writers -> WriterCall]
    <3>1. Goes(t, "pin", "-")
      BY <1>13, <2>1
    <3> QED
      BY <3>1 DEF Goes
  <2> QED
    BY <1>1, <1>2, <1>5, <1>6, <1>9, <2>2 DEF PostCard, Goto
<1>10. CASE PostPin(t)
  BY <1>1, <1>4, <1>5, <1>6, <1>10 DEF PostPin
<1>11. CASE PostEdit(t)
  BY <1>1, <1>2, <1>4, <1>5, <1>6, <1>11 DEF PostEdit
<1>12. CASE PostUnpin(t)
  BY <1>1, <1>3, <1>5, <1>6, <1>12, WriterMoves DEF PostUnpin, Return
<1> QED
  BY <1>7, <1>8, <1>9, <1>10, <1>11, <1>12

\* What the gateway does leaves the bot's batch and the room as they are.
LEMMA GatewayStep ==
  ASSUME OutboxTyped, BotInv, Gateway
  PROVE  OutboxTyped' /\ BotInv'
<1>1. UNCHANGED <<sent, batch, acking, room, pinned>>
  <2>1. Tick \/ GatewayCrash => UNCHANGED <<sent, batch, acking, room, pinned>>
    BY DEF Tick, GatewayCrash, botVars, roomVars
  <2>2. \A t \in Writers : \A p \in Plans, s \in States :
          Change(t, p, s) => UNCHANGED <<sent, batch, acking, room, pinned>>
    BY DEF Change, botVars, roomVars
  <2>3. \A t \in Writers :
          ReadPlan(t) \/ LookUp(t) \/ PostCard(t) \/ PostPin(t) \/ PostEdit(t) \/ PostUnpin(t)
          => UNCHANGED <<sent, batch, acking, room, pinned>>
    BY DEF ReadPlan, LookUp, PostCard, PostPin, PostEdit, PostUnpin, botVars, roomVars
  <2> QED
    BY <2>1, <2>2, <2>3 DEF Gateway
<1>2. BotInv'
  BY <1>1 DEF BotInv, BatchIsDue, AckedIsWritten, RoomIsFaithful
<1>3. ASSUME (outbox' \in Seq(Note) /\ second' \in 0..Len(outbox')) \/ UNCHANGED rowVars,
             writer' \in [Writers -> WriterCall], state' \in [Plans -> States]
      PROVE  OutboxTyped'
  BY <1>1, <1>3 DEF OutboxTyped, rowVars
<1>4. NoCall \in WriterCall
  BY DEF WriterCall
<1>5. state \in [Plans -> States] /\ writer \in [Writers -> WriterCall]
  BY DEF OutboxTyped
<1>6. ASSUME NEW t \in Writers, NEW p \in Plans, NEW s \in States, Change(t, p, s) PROVE OutboxTyped'
  <2>1. [pc |-> "reading", plan |-> p, set |-> s, text |-> "-"] \in WriterCall
    BY DEF WriterCall, ActiveCall, WriterSteps
  <2>2. writer' \in [Writers -> WriterCall]
    BY <1>6, <2>1, WriterMoves DEF Change
  <2> QED
    BY <1>3, <1>5, <1>6, <2>2 DEF Change
<1>7. ASSUME NEW t \in Writers,
             ReadPlan(t) \/ LookUp(t) \/ PostCard(t) \/ PostPin(t) \/ PostEdit(t) \/ PostUnpin(t)
      PROVE  OutboxTyped'
  <2>1. /\ writer' \in [Writers -> WriterCall] /\ state' = state
        /\ (outbox' \in Seq(Note) /\ second' \in 0..Len(outbox')) \/ UNCHANGED rowVars
    BY <1>7, WriterStep
  <2> QED
    BY <1>3, <1>5, <2>1
<1>8. CASE Tick
  <2>1. outbox' = outbox /\ second' = 0 /\ state' = state /\ writer' = writer
    BY <1>8 DEF Tick, gatewayVars
  <2>2. outbox' \in Seq(Note) /\ second' \in 0..Len(outbox')
    <3>1. outbox \in Seq(Note) /\ Len(outbox) \in Nat
      BY DEF OutboxTyped
    <3> QED
      BY <2>1, <3>1
  <2>3. writer' \in [Writers -> WriterCall] /\ state' \in [Plans -> States]
    BY <1>5, <2>1
  <2> QED
    BY <1>2, <1>3, <2>2, <2>3, Zenon
<1>9. CASE GatewayCrash
  <2>1. writer' = [t \in Writers |-> NoCall] /\ state' = state /\ UNCHANGED rowVars
    BY <1>9 DEF GatewayCrash
  <2>2. writer' \in [Writers -> WriterCall] /\ state' \in [Plans -> States]
    BY <1>4, <1>5, <2>1
  <2> QED
    BY <1>2, <1>3, <2>1, <2>2, Zenon
<1> QED
  BY <1>6, <1>2, <1>7, <1>8, <1>9 DEF Gateway

\* A step of the bot leaves the gateway's part unchanged.
LEMMA BotTyped ==
  ASSUME OutboxTyped, UNCHANGED <<gatewayVars, rowVars>>, batch' \in Seq(Note), room' \in Seq(Note)
  PROVE  OutboxTyped'
BY DEF OutboxTyped, gatewayVars, rowVars

\* What the bot does, one case for each of its calls and how they fail.
LEMMA BotStep ==
  ASSUME OutboxTyped, BotInv, Bot \/ Restart
  PROVE  OutboxTyped' /\ BotInv'
<1>1. UNCHANGED <<gatewayVars, rowVars>> /\ room \in Seq(Note) /\ batch \in Seq(Note)
  BY DEF OutboxTyped, Bot, Restart, Poll, Send, SendFails, SetPinned, PinFails, Ack, AckFails
<1>2. BatchIsDue /\ AckedIsWritten /\ RoomIsFaithful
  BY DEF BotInv
<1>3. ASSUME UNCHANGED <<room, sent, pinned>> PROVE RoomIsFaithful'
  BY <1>2, <1>3 DEF RoomIsFaithful
<1>4. CASE Poll
  <2>1. batch' \in Seq(Note) /\ BatchIsDue'
    BY <1>4, PollStep
  <2>2. acking' = FALSE /\ UNCHANGED <<room, sent, pinned>>
    BY <1>4 DEF Poll, roomVars
  <2>3. AckedIsWritten'
    BY <2>2 DEF AckedIsWritten
  <2> QED
    BY <1>1, <1>3, <2>1, <2>2, <2>3, BotTyped DEF BotInv
<1>5. CASE Send
  <2>1. /\ room' \in Seq(Note) /\ RoomIsFaithful' /\ Head(batch) \in ToSet(room')
        /\ batch' = batch /\ sent' = sent
    BY <1>5, WriteStep DEF Send
  <2>2. batch' \in Seq(Note) /\ BatchIsDue'
    BY <2>1, BatchGoes
  <2>3. AckedIsWritten'
    BY <1>5, <2>1 DEF AckedIsWritten, Send
  <2> QED
    BY <1>1, <2>1, <2>2, <2>3, BotTyped DEF BotInv
<1>6. CASE SendFails
  <2>1. room' \in Seq(Note) /\ RoomIsFaithful'
    <3>1. CASE Write(Head(batch))
      BY <1>6, <3>1, WriteStep DEF SendFails
    <3>2. CASE UNCHANGED room
      BY <1>1, <1>3, <1>6, <3>2 DEF SendFails
    <3> QED
      BY <1>6, <3>1, <3>2 DEF SendFails
  <2>2. batch' = <<>> /\ acking' = FALSE /\ sent' = sent
    BY <1>6 DEF SendFails, Abandon
  <2>3. batch' \in Seq(Note) /\ BatchIsDue'
    BY <2>2, BatchGoes
  <2>4. AckedIsWritten'
    BY <2>2 DEF AckedIsWritten
  <2> QED
    BY <1>1, <2>1, <2>3, <2>4, BotTyped DEF BotInv
<1>7. ASSUME SetPinned \/ PinFails PROVE RoomIsFaithful'
  <2> DEFINE n == Head(batch)
  <2>1. /\ batch # <<>> /\ n.kind \notin {"card", "edit"} /\ UNCHANGED <<room, sent>>
        /\ pinned' = Pins(n) \/ pinned' = pinned
    BY <1>7 DEF SetPinned, PinFails, IsMessage
  <2>2. n = batch[1] /\ 1 \in DOMAIN batch
    BY <1>1, <2>1
  <2>3. Card(n.plan) \in sent
    BY <1>2, <2>1, <2>2 DEF BatchIsDue
  <2>4. Card(n.plan) \in ToSet(room)
    <3>1. IsMessage(Card(n.plan))
      BY DEF Card, IsMessage
    <3> QED
      BY <1>2, <2>3, <3>1 DEF RoomIsFaithful
  <2>5. pinned' \subseteq pinned \union {n.plan}
    BY <2>1 DEF Pins
  <2> QED
    BY <1>2, <2>1, <2>4, <2>5 DEF RoomIsFaithful
<1>8. CASE SetPinned
  <2>1. batch # <<>> /\ ~IsMessage(Head(batch)) /\ batch' = batch /\ sent' = sent /\ room' = room
    BY <1>8 DEF SetPinned
  <2>2. batch' \in Seq(Note) /\ BatchIsDue'
    BY <2>1, BatchGoes
  <2>3. AckedIsWritten'
    BY <2>1 DEF AckedIsWritten, IsMessage
  <2> QED
    BY <1>1, <1>7, <1>8, <2>1, <2>2, <2>3, BotTyped DEF BotInv
<1>9. CASE PinFails
  <2>1. batch # <<>> /\ ~acking /\ acking' = acking /\ batch' = Tail(batch) /\ sent' = sent /\ room' = room
    BY <1>9 DEF PinFails
  <2>2. batch' \in Seq(Note) /\ BatchIsDue'
    BY <2>1, BatchGoes
  <2>3. AckedIsWritten'
    BY <2>1 DEF AckedIsWritten
  <2> QED
    BY <1>1, <1>7, <1>9, <2>1, <2>2, <2>3, BotTyped DEF BotInv
<1>10. ASSUME acking, sent' = sent \union {Head(batch)} \/ sent' = sent, UNCHANGED <<room, pinned>>
       PROVE  RoomIsFaithful' /\ sent \subseteq sent' /\ batch # <<>>
  <2>1. batch # <<>> /\ (IsMessage(Head(batch)) => Head(batch) \in ToSet(room))
    BY <1>2, <1>10 DEF AckedIsWritten
  <2> QED
    BY <1>2, <1>10, <2>1 DEF RoomIsFaithful
<1>11. CASE Ack
  <2>1. batch' = Tail(batch) /\ acking' = FALSE /\ UNCHANGED <<room, pinned>>
    BY <1>11 DEF Ack, roomVars
  <2>2. RoomIsFaithful' /\ sent \subseteq sent' /\ batch # <<>>
    BY <1>10, <1>11, <2>1 DEF Ack
  <2>3. batch' \in Seq(Note) /\ BatchIsDue'
    BY <2>1, <2>2, BatchGoes
  <2>4. AckedIsWritten'
    BY <2>1 DEF AckedIsWritten
  <2> QED
    BY <1>1, <2>1, <2>2, <2>3, <2>4, BotTyped DEF BotInv
<1>12. CASE AckFails
  <2>1. batch' = <<>> /\ acking' = FALSE /\ UNCHANGED <<room, pinned>>
    BY <1>12 DEF AckFails, Abandon, roomVars
  <2>2. RoomIsFaithful' /\ sent \subseteq sent'
    BY <1>10, <1>12, <2>1 DEF AckFails
  <2>3. batch' \in Seq(Note) /\ BatchIsDue'
    BY <2>1, <2>2, BatchGoes
  <2>4. AckedIsWritten'
    BY <2>1 DEF AckedIsWritten
  <2> QED
    BY <1>1, <2>1, <2>2, <2>3, <2>4, BotTyped DEF BotInv
<1>13. CASE Restart
  <2>1. batch' = <<>> /\ acking' = FALSE /\ UNCHANGED <<room, pinned, sent>>
    BY <1>13 DEF Restart, Abandon, roomVars
  <2>2. batch' \in Seq(Note) /\ BatchIsDue'
    BY <2>1, BatchGoes
  <2>3. AckedIsWritten'
    BY <2>1 DEF AckedIsWritten
  <2> QED
    BY <1>1, <1>3, <2>1, <2>2, <2>3, BotTyped DEF BotInv
<1> QED
  BY <1>4, <1>5, <1>6, <1>8, <1>9, <1>11, <1>12, <1>13 DEF Bot

\* Every step keeps the invariant.
LEMMA OutboxInvariance == Spec => [](OutboxTyped /\ BotInv)
<1>1. Init => OutboxTyped /\ BotInv
  <2> SUFFICES ASSUME Init PROVE OutboxTyped /\ BotInv
    OBVIOUS
  <2>1. state \in [Plans -> States] /\ writer \in [Writers -> WriterCall]
    BY DEF Init, WriterCall
  <2>2. OutboxTyped
    BY <2>1 DEF Init, OutboxTyped
  <2>3. BotInv
    BY DEF Init, BotInv, BatchIsDue, AckedIsWritten, RoomIsFaithful, IsInjective
  <2> QED
    BY <2>2, <2>3
<1>2. OutboxTyped /\ BotInv /\ [Next]_vars => OutboxTyped' /\ BotInv'
  <2> SUFFICES ASSUME OutboxTyped, BotInv, [Next]_vars PROVE OutboxTyped' /\ BotInv'
    OBVIOUS
  <2>1. CASE UNCHANGED vars
    <3>1. UNCHANGED <<gatewayVars, rowVars, room, batch, acking, sent, pinned>>
      BY <2>1 DEF vars, botVars, roomVars
    <3> QED
      BY <3>1 DEF gatewayVars, rowVars, OutboxTyped, BotInv, BatchIsDue, AckedIsWritten, RoomIsFaithful
  <2> QED
    BY <2>1, GatewayStep, BotStep DEF Next
<1> QED
  BY <1>1, <1>2, PTL DEF Spec

\* The room says what the gateway recorded, whatever the bot loses or repeats and
\* whoever restarts (the gateway's outbox and the bot's transaction ids).
THEOREM RoomIsFaithfulHolds == Spec => []RoomIsFaithful
<1>1. BotInv => RoomIsFaithful
  BY DEF BotInv
<1> QED
  BY <1>1, OutboxInvariance, PTL

-----------------------------------------------------------------------------
(* The rows.  Whatever the bot holds, writes or acknowledges is a row that *)
(* a thread of the gateway wrote, and a row is never taken away.           *)

\* The room shows, and the bot holds, nothing that the gateway has not recorded.
NothingUnrecorded ==
  /\ sent \subseteq ToSet(outbox) /\ ToSet(batch) \subseteq ToSet(outbox) /\ ToSet(room) \subseteq ToSet(outbox)
  /\ \A p \in pinned : Pin(p) \in ToSet(outbox)

\* The rows are there once, and are notifications.
RowsOnce == IsInjective(outbox) /\ ToSet(outbox) \subseteq Notification

\* What a thread writes on the card is the text of a state.
TextIsState == \A t \in Writers : writer[t].pc \in {"looking", "edit"} => writer[t].text \in States

OutboxBounds == events \in 0..MaxEvents /\ acking \in BOOLEAN /\ Len(batch) <= Limit

RowInv == RowsOnce /\ NothingUnrecorded /\ TextIsState /\ OutboxBounds

\* A plan's notifications are of the kinds that there are.
LEMMA NotificationKinds ==
  ASSUME NEW p \in Plans, NEW s \in States
  PROVE  /\ Card(p) \in Notification /\ Pin(p) \in Notification /\ Unpin(p) \in Notification
         /\ Edit(p, s) \in Notification
BY DEF Card, Pin, Unpin, Edit, Notification

\* A notification to pin is the one of its plan.
LEMMA PinIsThePlans ==
  ASSUME NEW n \in Notification, n.kind = "pin"
  PROVE  n = Pin(n.plan) /\ n.plan \in Plans
<1>1. n \in [plan : Plans, kind : {"card", "pin", "unpin"}, text : {"-"}]
  BY DEF Notification
<1> QED
  BY <1>1 DEF Pin

\* A list of rows is a list of what is in it.
LEMMA ListOf ==
  ASSUME NEW S, NEW s \in Seq(S), NEW T, ToSet(s) \subseteq T
  PROVE  s \in Seq(T)
<1>1. Len(s) \in Nat /\ \A i \in 1..Len(s) : s[i] \in T
  BY DEF ToSet
<1> QED
  BY <1>1

\* A row that enters is added to the others, wherever it comes.
LEMMA InsertAdds ==
  ASSUME NEW S, NEW s \in Seq(S), NEW n \in S, NEW i \in 1..(Len(s) + 1)
  PROVE  /\ ToSet(InsertAt(s, i, n)) = ToSet(s) \union {n}
         /\ IsInjective(s) /\ n \notin ToSet(s) => IsInjective(InsertAt(s, i, n))
<1> DEFINE before == SubSeq(s, 1, i - 1)
           after == SubSeq(s, i, Len(s))
           r == InsertAt(s, i, n)
<1>1. Len(s) \in Nat /\ DOMAIN s = 1..Len(s)
  OBVIOUS
<1>2. before \in Seq(S) /\ Len(before) = i - 1 /\ \A k \in 1..(i - 1) : before[k] = s[k]
  BY <1>1
<1>3. after \in Seq(S) /\ Len(after) = Len(s) - i + 1 /\ \A k \in 1..(Len(s) - i + 1) : after[k] = s[i + k - 1]
  BY <1>1
<1>4. r = before \o <<n>> \o after
  BY DEF InsertAt
<1> HIDE DEF before, after, r
<1>5. before \o <<n>> \in Seq(S) /\ Len(before \o <<n>>) = i
      /\ (\A k \in 1..(i - 1) : (before \o <<n>>)[k] = s[k]) /\ (before \o <<n>>)[i] = n
  BY <1>1, <1>2
<1> DEFINE front == before \o <<n>>
<1> HIDE DEF front
<1>6. Len(r) = Len(s) + 1 /\ DOMAIN r = 1..(Len(s) + 1) /\ r \in Seq(S)
  <2>1. front \in Seq(S) /\ Len(front) = i /\ r = front \o after
    BY <1>4, <1>5 DEF front
  <2>2. after \in Seq(S)
    BY <1>3
  <2>3. front \in Seq(S)
    BY <2>1
  <2>4. front \o after \in Seq(S) /\ Len(front \o after) = Len(front) + Len(after)
    BY <2>2, <2>3
  <2>5. r \in Seq(S) /\ Len(r) = Len(front) + Len(after)
    BY <2>1, <2>4
  <2> QED
    BY <1>1, <1>3, <2>1, <2>5
<1>7. \A k \in 1..(i - 1) : r[k] = s[k]
  BY <1>1, <1>3, <1>4, <1>5 DEF front
<1>8. r[i] = n
  BY <1>1, <1>3, <1>4, <1>5 DEF front
<1>9. \A k \in (i + 1)..(Len(s) + 1) : r[k] = s[k - 1]
  <2> SUFFICES ASSUME NEW k \in (i + 1)..(Len(s) + 1) PROVE r[k] = s[k - 1]
    OBVIOUS
  <2>1. front \in Seq(S) /\ Len(front) = i /\ r = front \o after
    BY <1>4, <1>5 DEF front
  <2>2. k - i \in 1..Len(after) /\ k > Len(front) /\ k \in 1..(Len(front) + Len(after))
    BY <1>1, <1>3, <2>1
  <2>3. r[k] = after[k - Len(front)]
    BY <1>3, <2>1, <2>2
  <2>4. after[k - i] = s[i + (k - i) - 1] /\ i + (k - i) - 1 = k - 1
    BY <1>1, <1>3, <2>2
  <2> QED
    BY <2>1, <2>3, <2>4
<1>10. ToSet(r) = ToSet(s) \union {n}
  <2>1. ToSet(r) \subseteq ToSet(s) \union {n}
    <3> SUFFICES ASSUME NEW k \in 1..(Len(s) + 1) PROVE r[k] \in ToSet(s) \union {n}
      BY <1>6 DEF ToSet
    <3>1. CASE k < i
      BY <1>1, <1>7, <3>1 DEF ToSet
    <3>2. CASE k = i
      BY <1>8, <3>2
    <3>3. CASE k > i
      <4>1. k - 1 \in 1..Len(s) /\ r[k] = s[k - 1]
        BY <1>1, <1>9, <3>3
      <4> QED
        BY <1>1, <4>1 DEF ToSet
    <3> QED
      BY <1>1, <3>1, <3>2, <3>3
  <2>2. n \in ToSet(r)
    BY <1>1, <1>6, <1>8 DEF ToSet
  <2>3. ToSet(s) \subseteq ToSet(r)
    <3> SUFFICES ASSUME NEW k \in 1..Len(s) PROVE s[k] \in ToSet(r)
      BY <1>1 DEF ToSet
    <3>1. CASE k < i
      <4>1. k \in 1..(i - 1) /\ k \in 1..(Len(s) + 1)
        BY <1>1, <3>1
      <4> QED
        BY <1>6, <1>7, <4>1 DEF ToSet
    <3>2. CASE k >= i
      <4>1. k + 1 \in (i + 1)..(Len(s) + 1) /\ k + 1 \in 1..(Len(s) + 1) /\ (k + 1) - 1 = k
        BY <1>1, <3>2
      <4> QED
        BY <1>6, <1>9, <4>1 DEF ToSet
    <3> QED
      BY <1>1, <3>1, <3>2
  <2> QED
    BY <2>1, <2>2, <2>3
<1>11. ASSUME IsInjective(s), n \notin ToSet(s) PROVE IsInjective(r)
  <2> DEFINE at(k) == IF k < i THEN k ELSE k - 1
  <2>1. \A k \in 1..(Len(s) + 1) : k # i => at(k) \in 1..Len(s) /\ r[k] = s[at(k)] /\ r[k] # n
    <3> SUFFICES ASSUME NEW k \in 1..(Len(s) + 1), k # i PROVE at(k) \in 1..Len(s) /\ r[k] = s[at(k)] /\ r[k] # n
      OBVIOUS
    <3>1. at(k) \in 1..Len(s)
      BY <1>1
    <3>2. r[k] = s[at(k)]
      <4>1. CASE k < i
        <5>1. k \in 1..(i - 1)
          BY <1>1, <4>1
        <5> QED
          BY <1>7, <4>1, <5>1
      <4>2. CASE k > i
        <5>1. k \in (i + 1)..(Len(s) + 1) /\ ~(k < i)
          BY <1>1, <4>2
        <5> QED
          BY <1>9, <5>1
      <4> QED
        BY <1>1, <4>1, <4>2
    <3>3. s[at(k)] \in ToSet(s)
      BY <1>1, <3>1 DEF ToSet
    <3> QED
      BY <1>11, <3>1, <3>2, <3>3
  <2>2. \A k, m \in 1..(Len(s) + 1) : k # i /\ m # i /\ at(k) = at(m) => k = m
    BY <1>1
  <2> HIDE DEF at
  <2>3. \A k, m \in 1..(Len(s) + 1) : r[k] = r[m] => k = m
    <3> SUFFICES ASSUME NEW k \in 1..(Len(s) + 1), NEW m \in 1..(Len(s) + 1), r[k] = r[m] PROVE k = m
      OBVIOUS
    <3>1. CASE k = i \/ m = i
      BY <1>8, <2>1, <3>1
    <3>2. CASE k # i /\ m # i
      <4>1. s[at(k)] = s[at(m)] /\ at(k) \in 1..Len(s) /\ at(m) \in 1..Len(s)
        BY <2>1, <3>2
      <4>2. at(k) = at(m)
        BY <1>1, <1>11, <4>1 DEF IsInjective
      <4> QED
        BY <2>2, <3>2, <4>2
    <3> QED
      BY <3>1, <3>2
  <2> QED
    BY <1>6, <2>3 DEF IsInjective
<1> QED
  BY <1>10, <1>11 DEF r

\* A row that enters leaves the others, each once.
LEMMA EnqueueAdds ==
  ASSUME OutboxTyped, RowsOnce, NEW n \in Notification, n \in Note, Enqueue(n)
  PROVE  RowsOnce' /\ ToSet(outbox) \subseteq ToSet(outbox')
<1>1. CASE n \in ToSet(outbox)
  BY <1>1 DEF Enqueue, rowVars, RowsOnce
<1>2. CASE n \notin ToSet(outbox)
  <2>1. PICK i \in Place(n) : outbox' = InsertAt(outbox, i, n)
    BY <1>2 DEF Enqueue
  <2>2. outbox \in Seq(Note) /\ Len(outbox) \in Nat /\ second \in 0..Len(outbox)
    BY DEF OutboxTyped
  <2>3. i \in 1..(Len(outbox) + 1)
    BY <2>1, <2>2 DEF Place
  <2>4. /\ ToSet(InsertAt(outbox, i, n)) = ToSet(outbox) \union {n}
        /\ IsInjective(outbox) /\ n \notin ToSet(outbox) => IsInjective(InsertAt(outbox, i, n))
    BY <2>2, <2>3, InsertAdds
  <2> QED
    BY <1>2, <2>1, <2>4 DEF RowsOnce
<1> QED
  BY <1>1, <1>2

\* The outbox grows, and the bot's part stays as it is.
LEMMA GatewayKeepsRows ==
  ASSUME RowInv, RowsOnce', ToSet(outbox) \subseteq ToSet(outbox'), TextIsState', events' \in 0..MaxEvents,
         UNCHANGED <<sent, batch, acking, room, pinned>>
  PROVE  RowInv'
BY DEF RowInv, NothingUnrecorded, OutboxBounds

\* A thread that goes on takes along the text that it has, which is a state's
\* when it is to be written.
LEMMA TextGoes ==
  ASSUME OutboxTyped, TextIsState, NEW t \in Writers, NEW c,
         writer' = [writer EXCEPT ![t] = c], c.pc \in {"looking", "edit"} => c.text \in States
  PROVE  TextIsState'
<1>1. writer'[t] = c /\ \A u \in Writers : u # t => writer'[u] = writer[u]
  BY DEF OutboxTyped
<1> QED
  BY <1>1 DEF TextIsState

\* A thread that enqueues comes to neither of the steps that have a text.
LEMMA WriterKeepsRows ==
  ASSUME OutboxTyped, RowInv, NEW t \in Writers,
         ReadPlan(t) \/ LookUp(t) \/ PostCard(t) \/ PostPin(t) \/ PostEdit(t) \/ PostUnpin(t)
  PROVE  RowInv'
<1>1. /\ RowsOnce /\ TextIsState /\ events \in 0..MaxEvents /\ state \in [Plans -> States]
      /\ writer \in [Writers -> WriterCall]
  BY DEF RowInv, OutboxBounds, OutboxTyped
<1>2. writer[t].pc # "idle" /\ UNCHANGED <<events, sent, batch, acking, room, pinned>>
  BY DEF ReadPlan, LookUp, PostCard, PostPin, PostEdit, PostUnpin, botVars, roomVars
<1>3. writer[t] \in ActiveCall /\ writer[t].plan \in Plans /\ writer[t].text \in States \union {"-"}
  BY <1>2, WriterIsActive
<1>4. ASSUME RowsOnce', ToSet(outbox) \subseteq ToSet(outbox'), TextIsState' PROVE RowInv'
  BY <1>1, <1>2, <1>4, GatewayKeepsRows
<1>5. ASSUME UNCHANGED rowVars, TextIsState' PROVE RowInv'
  BY <1>1, <1>4, <1>5 DEF rowVars, RowsOnce
<1>6. \A n \in Notification : n \in Note /\ Enqueue(n) => RowsOnce' /\ ToSet(outbox) \subseteq ToSet(outbox')
  BY <1>1, EnqueueAdds
<1>7. ASSUME NEW pc, pc \notin {"looking", "edit"}, Goto(t, pc) PROVE TextIsState'
  <2> DEFINE c == [writer[t] EXCEPT !.pc = pc]
  <2>1. c.pc = pc /\ writer' = [writer EXCEPT ![t] = c]
    BY <1>3, <1>7 DEF Goto, ActiveCall
  <2> HIDE DEF c
  <2> QED
    BY <1>1, <1>7, <2>1, TextGoes
<1>8. ASSUME Return(t) PROVE TextIsState'
  <2>1. writer' = [writer EXCEPT ![t] = NoCall] /\ NoCall.pc = "idle"
    BY <1>8 DEF Return, NoCall
  <2> QED
    BY <1>1, <2>1, TextGoes
<1>9. ASSUME AfterCard(t) PROVE TextIsState'
  <2>1. CASE writer' = [writer EXCEPT ![t].pc = "unpin", ![t].text = "-"]
    <3> DEFINE c == [writer[t] EXCEPT !.pc = "unpin", !.text = "-"]
    <3>1. c.pc = "unpin"
      BY <1>3 DEF ActiveCall
    <3>2. writer' = [writer EXCEPT ![t] = c]
      BY <1>1, <2>1
    <3> HIDE DEF c
    <3> QED
      BY <1>1, <3>1, <3>2, TextGoes
  <2> QED
    BY <1>8, <1>9, <2>1 DEF AfterCard
<1>10. CASE ReadPlan(t)
  <2> DEFINE c == [writer[t] EXCEPT !.pc = "looking", !.text = state[writer[t].plan]]
  <2>1. c.text \in States
    BY <1>1, <1>3 DEF ActiveCall
  <2>2. writer' = [writer EXCEPT ![t] = c]
    BY <1>1, <1>10 DEF ReadPlan
  <2> HIDE DEF c
  <2>3. TextIsState'
    BY <1>1, <2>1, <2>2, TextGoes
  <2> QED
    BY <1>5, <1>10, <2>3 DEF ReadPlan
<1>11. CASE LookUp(t)
  <2>1. writer[t].text \in States
    BY <1>1, <1>11 DEF LookUp, TextIsState
  <2>2. PICK c : writer' = [writer EXCEPT ![t] = c] /\ (c = [writer[t] EXCEPT !.pc = "edit"]
                                                   \/ c = [writer[t] EXCEPT !.pc = "card", !.text = "-"])
    BY <1>11 DEF LookUp
  <2>3. c.pc \in {"looking", "edit"} => c.text \in States
    BY <1>3, <2>1, <2>2 DEF ActiveCall
  <2>4. TextIsState'
    BY <1>1, <2>2, <2>3, TextGoes
  <2> QED
    BY <1>5, <1>11, <2>4 DEF LookUp
<1>12. CASE PostCard(t)
  <2>1. Card(writer[t].plan) \in Notification /\ Card(writer[t].plan) \in Note
    BY <1>3, NotificationKinds, NoteKinds DEF Card, Notification, Note
  <2> QED
    BY <1>4, <1>6, <1>7, <1>12, <2>1 DEF PostCard
<1>13. CASE PostPin(t)
  <2>1. Pin(writer[t].plan) \in Notification /\ Pin(writer[t].plan) \in Note
    BY <1>3 DEF Pin, Notification, Note
  <2> QED
    BY <1>4, <1>6, <1>9, <1>13, <2>1 DEF PostPin
<1>14. CASE PostEdit(t)
  <2>1. writer[t].text \in States
    BY <1>1, <1>14 DEF PostEdit, TextIsState
  <2>2. Edit(writer[t].plan, writer[t].text) \in Notification /\ Edit(writer[t].plan, writer[t].text) \in Note
    BY <1>3, <2>1 DEF Edit, Notification, Note
  <2> QED
    BY <1>4, <1>6, <1>9, <1>14, <2>2 DEF PostEdit
<1>15. CASE PostUnpin(t)
  <2>1. Unpin(writer[t].plan) \in Notification /\ Unpin(writer[t].plan) \in Note
    BY <1>3 DEF Unpin, Notification, Note
  <2>2. TextIsState'
    BY <1>8, <1>15 DEF PostUnpin
  <2>3. CASE Enqueue(Unpin(writer[t].plan))
    BY <1>4, <1>6, <2>1, <2>2, <2>3
  <2>4. CASE UNCHANGED rowVars
    BY <1>5, <2>2, <2>4
  <2> QED
    BY <1>15, <2>3, <2>4 DEF PostUnpin
<1> QED
  BY <1>10, <1>11, <1>12, <1>13, <1>14, <1>15

\* What the gateway does only adds rows.
LEMMA GatewayRows ==
  ASSUME OutboxTyped, RowInv, Gateway
  PROVE  RowInv'
<1>1. RowsOnce /\ TextIsState /\ events \in 0..MaxEvents /\ writer \in [Writers -> WriterCall]
  BY DEF RowInv, OutboxBounds, OutboxTyped
<1>2. ASSUME NEW t \in Writers, NEW p \in Plans, NEW s \in States, Change(t, p, s) PROVE RowInv'
  <2> DEFINE c == [pc |-> "reading", plan |-> p, set |-> s, text |-> "-"]
  <2>1. writer' = [writer EXCEPT ![t] = c] /\ c.pc = "reading"
    BY <1>2 DEF Change
  <2> HIDE DEF c
  <2>2. TextIsState'
    BY <1>1, <2>1, TextGoes
  <2>3. events' \in 0..MaxEvents
    BY <1>1, <1>2, OutboxAssumption DEF Change
  <2>4. UNCHANGED <<outbox, sent, batch, acking, room, pinned>>
    BY <1>2 DEF Change, rowVars, botVars, roomVars
  <2> QED
    BY <1>1, <2>2, <2>3, <2>4, GatewayKeepsRows DEF RowsOnce
<1>3. CASE Tick
  <2>1. UNCHANGED <<outbox, writer, events, sent, batch, acking, room, pinned>>
    BY <1>3 DEF Tick, gatewayVars, botVars, roomVars
  <2> QED
    BY <1>1, <2>1, GatewayKeepsRows DEF RowsOnce, TextIsState
<1>4. CASE GatewayCrash
  <2>1. /\ writer' = [t \in Writers |-> NoCall]
        /\ UNCHANGED <<outbox, events, sent, batch, acking, room, pinned>>
    BY <1>4 DEF GatewayCrash, rowVars, botVars, roomVars
  <2>2. TextIsState'
    BY <2>1 DEF TextIsState, NoCall
  <2> QED
    BY <1>1, <2>1, <2>2, GatewayKeepsRows DEF RowsOnce
<1> QED
  BY <1>2, <1>3, <1>4, WriterKeepsRows DEF Gateway

\* A write to the room, or one that is lost, shows a row or nothing new.
LEMMA WriteRows ==
  ASSUME OutboxTyped, batch # <<>>, ToSet(batch) \subseteq ToSet(outbox), ToSet(room) \subseteq ToSet(outbox),
         Write(Head(batch)) \/ UNCHANGED room
  PROVE  ToSet(room') \subseteq ToSet(outbox)
<1>1. Head(batch) \in ToSet(outbox) /\ Head(batch) \in Note
  <2>1. batch \in Seq(Note)
    BY DEF OutboxTyped
  <2>2. Head(batch) = batch[1] /\ 1 \in DOMAIN batch /\ Head(batch) \in Note
    BY <2>1
  <2> QED
    BY <2>2 DEF ToSet
<1>2. CASE room' = Append(room, Head(batch))
  <2>1. room \in Seq(Note)
    BY DEF OutboxTyped
  <2>2. /\ Len(room) \in Nat /\ DOMAIN room = 1..Len(room) /\ DOMAIN room' = 1..(Len(room) + 1)
        /\ room'[Len(room) + 1] = Head(batch) /\ \A i \in 1..Len(room) : room'[i] = room[i]
    BY <1>1, <1>2, <2>1
  <2>3. ToSet(room') = ToSet(room) \union {Head(batch)}
    <3>1. \A i \in DOMAIN room' : i \in DOMAIN room \/ i = Len(room) + 1
      BY <2>2
    <3>2. \A i \in DOMAIN room : i \in DOMAIN room'
      BY <2>2
    <3>3. Len(room) + 1 \in DOMAIN room'
      BY <2>2
    <3> QED
      BY <2>2, <3>1, <3>2, <3>3 DEF ToSet
  <2> QED
    BY <1>1, <2>3
<1>3. CASE room' = room
  BY <1>3
<1> QED
  BY <1>2, <1>3 DEF Write

\* What is left of a batch is rows of the outbox still, and not more of them.
LEMMA BatchRows ==
  ASSUME OutboxTyped, NEW S, ToSet(batch) \subseteq S, Len(batch) <= Limit,
         (batch' = Tail(batch) /\ batch # <<>>) \/ batch' = <<>> \/ batch' = batch
  PROVE  ToSet(batch') \subseteq S /\ Len(batch') <= Limit
<1>1. batch \in Seq(Note) /\ Len(batch) \in Nat /\ Limit \in Nat
  BY OutboxAssumption DEF OutboxTyped
<1>2. CASE batch' = Tail(batch) /\ batch # <<>>
  <2>1. /\ Len(batch') = Len(batch) - 1 /\ DOMAIN batch' = 1..(Len(batch) - 1)
        /\ \A i \in 1..(Len(batch) - 1) : batch'[i] = batch[i + 1] /\ i + 1 \in DOMAIN batch
    BY <1>1, <1>2
  <2> QED
    BY <1>1, <2>1 DEF ToSet
<1>3. CASE batch' = <<>>
  BY <1>1, <1>3 DEF ToSet
<1>4. CASE batch' = batch
  BY <1>4
<1> QED
  BY <1>2, <1>3, <1>4

\* What the bot does to the room, to its batch and to what is held for sent.
LEMMA BotRows ==
  ASSUME OutboxTyped, AckedIsWritten, RowInv, Bot \/ Restart
  PROVE  RowInv'
<1>1. /\ RowsOnce /\ TextIsState /\ sent \subseteq ToSet(outbox) /\ ToSet(batch) \subseteq ToSet(outbox)
      /\ ToSet(room) \subseteq ToSet(outbox) /\ (\A p \in pinned : Pin(p) \in ToSet(outbox))
      /\ events \in 0..MaxEvents /\ acking \in BOOLEAN /\ Len(batch) <= Limit
  BY DEF RowInv, NothingUnrecorded, OutboxBounds
<1>2. UNCHANGED <<gatewayVars, rowVars>>
  BY DEF Bot, Restart, Poll, Send, SendFails, SetPinned, PinFails, Ack, AckFails
<1>3. ASSUME sent' \subseteq ToSet(outbox), ToSet(batch') \subseteq ToSet(outbox), ToSet(room') \subseteq ToSet(outbox),
             \A p \in pinned' : Pin(p) \in ToSet(outbox),
             events' \in 0..MaxEvents, acking' \in BOOLEAN, Len(batch') <= Limit
      PROVE  RowInv'
  BY <1>1, <1>2, <1>3 DEF gatewayVars, rowVars, RowInv, RowsOnce, NothingUnrecorded, TextIsState, OutboxBounds
<1>4. ASSUME batch # <<>> PROVE Head(batch) \in ToSet(outbox) /\ Head(batch) \in Notification
  <2>1. Head(batch) \in ToSet(batch)
    BY <1>4 DEF OutboxTyped, ToSet
  <2> QED
    BY <1>1, <2>1 DEF RowsOnce
<1>5. CASE Poll
  <2>1. ToSet(batch') \subseteq ToSet(outbox) /\ Len(batch') <= Limit
    BY <1>5, PollStep
  <2> QED
    BY <1>1, <1>3, <1>5, <2>1 DEF Poll, roomVars
<1>6. CASE Send
  BY <1>1, <1>3, <1>6, WriteRows DEF Send
<1>7. CASE SendFails
  <2>1. ToSet(room') \subseteq ToSet(outbox)
    BY <1>1, <1>7, WriteRows DEF SendFails
  <2>2. ToSet(batch') \subseteq ToSet(outbox) /\ Len(batch') <= Limit
    BY <1>1, <1>7, BatchRows DEF SendFails, Abandon
  <2> QED
    BY <1>1, <1>3, <1>7, <2>1, <2>2 DEF SendFails, Abandon
<1>8. ASSUME SetPinned \/ PinFails PROVE \A p \in pinned' : Pin(p) \in ToSet(outbox)
  <2>1. batch # <<>> /\ pinned' \in {pinned, Pins(Head(batch))}
    BY <1>8 DEF SetPinned, PinFails
  <2>2. Head(batch).kind = "pin" => Pin(Head(batch).plan) \in ToSet(outbox)
    BY <1>4, <2>1, PinIsThePlans
  <2> QED
    BY <1>1, <2>1, <2>2 DEF Pins
<1>9. CASE SetPinned
  BY <1>1, <1>3, <1>8, <1>9 DEF SetPinned
<1>10. CASE PinFails
  <2>1. ToSet(batch') \subseteq ToSet(outbox) /\ Len(batch') <= Limit
    BY <1>1, <1>10, BatchRows DEF PinFails
  <2> QED
    BY <1>1, <1>3, <1>8, <1>10, <2>1 DEF PinFails
<1>11. ASSUME Ack \/ AckFails PROVE sent' \subseteq ToSet(outbox) /\ batch # <<>>
  <2>1. batch # <<>>
    BY <1>11 DEF Ack, AckFails, AckedIsWritten
  <2> QED
    BY <1>1, <1>4, <1>11, <2>1 DEF Ack, AckFails
<1>12. CASE Ack
  <2>1. ToSet(batch') \subseteq ToSet(outbox) /\ Len(batch') <= Limit
    BY <1>1, <1>11, <1>12, BatchRows DEF Ack
  <2> QED
    BY <1>1, <1>3, <1>11, <1>12, <2>1 DEF Ack, roomVars
<1>13. CASE AckFails
  <2>1. ToSet(batch') \subseteq ToSet(outbox) /\ Len(batch') <= Limit
    BY <1>1, <1>13, BatchRows DEF AckFails, Abandon
  <2> QED
    BY <1>1, <1>3, <1>11, <1>13, <2>1 DEF AckFails, Abandon, roomVars
<1>14. CASE Restart
  <2>1. ToSet(batch') \subseteq ToSet(outbox) /\ Len(batch') <= Limit
    BY <1>1, <1>14, BatchRows DEF Restart, Abandon
  <2>2. events' \in 0..MaxEvents
    BY <1>1, <1>14, OutboxAssumption DEF Restart
  <2> QED
    BY <1>1, <1>3, <1>14, <2>1, <2>2 DEF Restart, Abandon, roomVars
<1> QED
  BY <1>5, <1>6, <1>7, <1>9, <1>10, <1>12, <1>13, <1>14 DEF Bot

\* The rows are kept by every step.
LEMMA RowInvariance == Spec => []RowInv
<1>1. Init => RowInv
  <2> SUFFICES ASSUME Init PROVE RowInv
    OBVIOUS
  <2>1. Len(<<>>) = 0 /\ DOMAIN <<>> = {}
    OBVIOUS
  <2>2. ToSet(<<>>) = {} /\ IsInjective(<<>>)
    BY <2>1 DEF ToSet, IsInjective
  <2>3. TextIsState
    BY DEF Init, TextIsState, NoCall
  <2>4. OutboxBounds
    <3>1. Len(batch) <= Limit
      BY <2>1, OutboxAssumption DEF Init
    <3>2. events \in 0..MaxEvents
      BY OutboxAssumption DEF Init
    <3>3. acking \in BOOLEAN
      BY DEF Init
    <3> QED
      BY <3>1, <3>2, <3>3 DEF OutboxBounds
  <2> QED
    BY <2>2, <2>3, <2>4 DEF Init, RowInv, RowsOnce, NothingUnrecorded
<1>2. OutboxTyped /\ BotInv /\ RowInv /\ [Next]_vars => RowInv'
  <2> SUFFICES ASSUME OutboxTyped, BotInv, RowInv, [Next]_vars PROVE RowInv'
    OBVIOUS
  <2>1. CASE UNCHANGED vars
    BY <2>1 DEF vars, gatewayVars, rowVars, botVars, roomVars,
                RowInv, RowsOnce, NothingUnrecorded, TextIsState, OutboxBounds
  <2>2. AckedIsWritten
    BY DEF BotInv
  <2> QED
    BY <2>1, <2>2, GatewayRows, BotRows DEF Next
<1> QED
  BY <1>1, <1>2, OutboxInvariance, PTL DEF Spec

\* The room shows, and the bot holds, only what the gateway has recorded: no
\* retry and no restart makes up a message or pins a card of its own.
THEOREM NothingUnrecordedHolds == Spec => []NothingUnrecorded
<1>1. RowInv => NothingUnrecorded
  BY DEF RowInv
<1> QED
  BY <1>1, RowInvariance, PTL

\* The outbox has each notification once, in rows that a thread wrote whole, and
\* the bot has at most a poll's worth of them.
THEOREM OutboxTypeCorrect == Spec => []TypeOK
<1>1. OutboxTyped /\ RowInv => TypeOK
  <2> SUFFICES ASSUME OutboxTyped, RowInv PROVE TypeOK
    OBVIOUS
  <2>1. outbox \in Seq(Notification) /\ batch \in Seq(Notification) /\ room \in Seq(Notification)
    <3>1. outbox \in Seq(Note) /\ batch \in Seq(Note) /\ room \in Seq(Note)
      BY DEF OutboxTyped
    <3>2. ToSet(outbox) \subseteq Notification /\ ToSet(batch) \subseteq Notification /\ ToSet(room) \subseteq Notification
      BY DEF RowInv, RowsOnce, NothingUnrecorded
    <3> QED
      BY <3>1, <3>2, ListOf
  <2>2. pinned \subseteq Plans
    <3> SUFFICES ASSUME NEW p \in pinned PROVE p \in Plans
      OBVIOUS
    <3>1. Pin(p) \in Notification /\ Pin(p).plan = p
      BY DEF RowInv, RowsOnce, NothingUnrecorded, Pin
    <3> QED
      BY <3>1 DEF Notification
  <2>3. /\ state \in [Plans -> States] /\ second \in 0..Len(outbox)
        /\ writer \in [Writers -> {NoCall} \union
             [pc : {"reading", "looking", "card", "pin", "edit", "unpin"},
              plan : Plans, set : States, text : States \union {"-"}]]
    BY DEF OutboxTyped, WriterCall, ActiveCall, WriterSteps
  <2>4. /\ events \in 0..MaxEvents /\ acking \in BOOLEAN /\ Len(batch) <= Limit
        /\ IsInjective(outbox) /\ sent \subseteq ToSet(outbox)
    BY DEF RowInv, RowsOnce, NothingUnrecorded, OutboxBounds
  <2> QED
    BY <2>1, <2>2, <2>3, <2>4 DEF TypeOK
<1> QED
  BY <1>1, OutboxInvariance, RowInvariance, PTL

-----------------------------------------------------------------------------
(***************************************************************************)
(* FanControl. A controller that ended drives no fan, for all temperatures *)
(* and faults. The restoring goes through the fans the controller drives;  *)
(* that those are all the fans it ever wrote to has to be carried along.   *)
(***************************************************************************)

\* The fans that are not this controller's are their firmware's.
OthersAreAuto == \A f \in Fans \ Driven : fan[f] = Firmware

FanInv == OthersAreAuto /\ StoppedIsAuto

\* A step that leaves the fans alone, and does not end the program.
LEMMA FansUnchanged ==
  ASSUME FanInv, UNCHANGED <<card, hasBoard, fan>>,
         fanPc' # "ended" \/ UNCHANGED <<fanPc, unrestored>>
  PROVE  FanInv'
BY DEF FanInv, OthersAreAuto, StoppedIsAuto, Driven

\* A step that writes to the fans the controller drives.
LEMMA DrivenWritten ==
  ASSUME FanInv, UNCHANGED <<card, hasBoard>>, fanPc' # "ended",
         \A f \in Fans \ Driven : fan'[f] = fan[f]
  PROVE  FanInv'
BY DEF FanInv, OthersAreAuto, StoppedIsAuto, Driven

\* Taking over writes only to the fans that are driven.
LEMMA TakeOverKeeps ==
  ASSUME FanInv, NEW failed \in SUBSET Fans, TakeOver(failed)
  PROVE  FanInv'
<1>1. \A f \in Fans \ Driven : fan'[f] = fan[f]
  <2>1. CASE card = "nvidia"
    <3>1. \A f \in Fans : f \notin GpuFans => fan'[f] = fan[f]
      BY <2>1 DEF TakeOver, Writes
    <3> QED
      BY <2>1, <3>1 DEF Driven
  <2>2. CASE card # "nvidia"
    BY <2>2 DEF TakeOver, Writes
  <2> QED
    BY <2>1, <2>2
<1> QED
  BY <1>1, DrivenWritten DEF TakeOver

\* So does setting their speed.
LEMMA SetFansKeeps ==
  ASSUME FanInv, NEW failed \in SUBSET Fans, SetFans(failed)
  PROVE  FanInv'
<1>1. \A f \in Fans \ Driven : fan'[f] = fan[f]
  BY DEF SetFans, Writes
<1> QED
  BY <1>1, DrivenWritten DEF SetFans

\* The finally block reaches the fans that were driven, and the others are auto.
LEMMA RestoreKeeps ==
  ASSUME FanInv, NEW failed \in SUBSET Fans, Restore(failed)
  PROVE  FanInv'
<1>1. /\ \A f \in Driven \ failed : fan'[f] = Firmware
      /\ \A f \in Fans \ Driven : fan'[f] = fan[f]
      /\ unrestored' = failed /\ UNCHANGED <<card, hasBoard>>
  <2>1. fan' = [f \in Fans |-> IF f \in Driven \ failed THEN Firmware ELSE fan[f]]
    BY DEF Restore, Writes
  <2>2. Driven \subseteq Fans
    BY DEF Driven, Fans
  <2>3. unrestored' = failed /\ UNCHANGED <<card, hasBoard>>
    BY DEF Restore
  <2> QED
    BY <2>1, <2>2, <2>3
<1>2. Driven' = Driven
  BY <1>1 DEF Driven
<1>3. \A f \in Fans \ failed : fan'[f] = Firmware
  BY <1>1 DEF FanInv, OthersAreAuto
<1> QED
  BY <1>1, <1>2, <1>3 DEF FanInv, OthersAreAuto, StoppedIsAuto

-----------------------------------------------------------------------------
\* A controller that was asked to stop leaves no fan at a fixed speed but those
\* whose own restoring failed, whatever writes failed before.
THEOREM StoppedIsAutoHolds == FanSpec => []StoppedIsAuto
<1>1. FanInit => FanInv
  BY DEF FanInit, FanInv, OthersAreAuto, StoppedIsAuto
<1>2. FanInv /\ [FanNext]_fanVars => FanInv'
  <2> SUFFICES ASSUME FanInv, [FanNext]_fanVars PROVE FanInv'
    OBVIOUS
  <2>1. CASE \E g \in Cards, t \in FanTemps, s \in {"live", "dead", "asleep", "missing"} :
               CardChanges(g, t, s)
    BY <2>1, FansUnchanged DEF CardChanges
  <2>2. CASE Stop \/ FanDies \/ FanRestart
    BY <2>2, FansUnchanged DEF Stop, FanDies, FanRestart
  <2>3. CASE serve_metrics \/ Decide
    BY <2>3, FansUnchanged DEF serve_metrics, Decide
  <2>4. CASE \E failed \in SUBSET Fans : TakeOver(failed) \/ SetFans(failed)
    BY <2>4, TakeOverKeeps, SetFansKeeps
  <2>5. CASE \E failed \in SUBSET Fans : Restore(failed)
    BY <2>5, RestoreKeeps
  <2>6. CASE UNCHANGED fanVars
    BY <2>6, FansUnchanged DEF fanVars
  <2> QED
    BY <2>1, <2>2, <2>3, <2>4, <2>5, <2>6 DEF FanNext, Loops
<1>3. FanInv => StoppedIsAuto
  BY DEF FanInv
<1> QED
  BY <1>1, <1>2, <1>3, PTL DEF FanSpec

-----------------------------------------------------------------------------
(* The curves. They are arithmetic on whole numbers, which the solver does *)
(* for every temperature.                                                  *)

\* A duty is between the floor and full speed, at any temperature.
LEMMA CurvesInRange ==
  ASSUME NEW t \in Int
  PROVE  NvidiaCurve(t) \in 50..100 /\ AmdCurve(t) \in 70..100
<1>1. NvidiaCurve(t) \in 50..100
  BY SMT DEF NvidiaCurve, RoundHalfEven, T_LO, CEIL
<1>2. AmdCurve(t) \in 70..100
  BY SMT DEF AmdCurve, RoundHalfEven, T_LO, CEIL
<1> QED
  BY <1>1, <1>2

\* A hotter card never gets less, in spite of the rounding.
LEMMA CurvesAscend ==
  ASSUME NEW t \in Int, NEW u \in Int, t <= u
  PROVE  NvidiaCurve(t) <= NvidiaCurve(u) /\ AmdCurve(t) <= AmdCurve(u)
<1>1. NvidiaCurve(t) <= NvidiaCurve(u)
  BY SMT DEF NvidiaCurve, RoundHalfEven, T_LO, CEIL
<1>2. AmdCurve(t) <= AmdCurve(u)
  BY SMT DEF AmdCurve, RoundHalfEven, T_LO, CEIL
<1> QED
  BY <1>1, <1>2

\* What is written for a duty fits in the pwm's byte.
LEMMA RawInRange ==
  ASSUME NEW c, NEW f \in Fans, NEW d \in 50..100
  PROVE  Raw(c, f, d) \in 0..255
BY SMT DEF Raw, RoundHalfEven

\* One of the cards that are read is the hottest.
LEMMA HottestIsRead ==
  ASSUME FanTypeOK, Read # {}
  PROVE  /\ Hottest \in Int
         /\ \A g \in Read : temp[g] \in Int /\ temp[g] <= Hottest
<1> DEFINE temps == {temp[g] : g \in Read}
<1>1. \A g \in Cards : temp[g] \in Int
  BY FanAssumption DEF FanTypeOK
<1>2. Read \subseteq {1, 2} /\ Read \subseteq Cards /\ 1 \in Cards /\ 2 \in Cards
  BY DEF Read, Cards
<1>3. \E t \in temps : \A g \in Read : temp[g] <= t
  <2>1. temp[1] \in Int /\ temp[2] \in Int /\ (temp[1] <= temp[2] \/ temp[2] <= temp[1])
    BY <1>1, <1>2
  <2>2. PICK h \in Read : \A g \in Read : temp[g] <= temp[h]
    <3>1. CASE 1 \in Read /\ 2 \in Read
      BY <1>2, <2>1, <3>1
    <3>2. CASE Read = {1} \/ Read = {2}
      BY <2>1, <3>2
    <3> QED
      BY <1>2, <3>1, <3>2
  <2> QED
    BY <2>2
<1>4. Hottest \in temps /\ \A g \in Read : temp[g] <= Hottest
  BY <1>3 DEF Hottest
<1> QED
  BY <1>1, <1>2, <1>4

\* The curve of this copy.
Curve(t) == IF card = "nvidia" THEN NvidiaCurve(t) ELSE AmdCurve(t)

\* The duty that is decided is enough for each card that was read, and the
\* fans have it when the pass is over.
LEMMA DecideSuffices ==
  ASSUME FanTypeOK, Decide
  PROVE  /\ duty' \in 50..100 /\ fanPc' \in {"read", "write"}
         /\ fanPc' = "write" => \A g \in Read : Curve(temp[g]) <= duty'
<1>1. card \in {"nvidia", "amd"} /\ duty \in 50..100 /\ fanPc = "read"
  BY DEF FanTypeOK, Decide
<1>2. ASSUME Read # {}
      PROVE  /\ NvidiaCurve(Hottest) \in 50..100 /\ AmdCurve(Hottest) \in 70..100
             /\ \A g \in Read : NvidiaCurve(temp[g]) <= NvidiaCurve(Hottest)
             /\ \A g \in Read : AmdCurve(temp[g]) <= AmdCurve(Hottest)
  BY <1>2, HottestIsRead, CurvesInRange, CurvesAscend
<1>3. \A g \in Read : AmdCurve(temp[g]) <= 100
  <2>1. \A g \in Read : temp[g] \in Int
    BY HottestIsRead
  <2>2. \A t \in Int : AmdCurve(t) \in 70..100
    BY CurvesInRange
  <2> QED
    BY <2>1, <2>2
<1>4. CASE card = "nvidia"
  <2>1. CASE Read = {}
    BY <1>1, <1>4, <2>1 DEF Decide
  <2>2. CASE Read # {}
    <3>1. duty' = NvidiaCurve(Hottest) /\ fanPc' = "write"
      BY <1>4, <2>2 DEF Decide
    <3> QED
      BY <1>2, <1>4, <2>2, <3>1 DEF Curve
  <2> QED
    BY <2>1, <2>2
<1>5. CASE card = "amd"
  <2>1. fanPc' = "write" /\ \A g \in Read : Curve(temp[g]) = AmdCurve(temp[g])
    BY <1>5 DEF Decide, Curve
  <2>2. CASE \E g \in Cards : sensor[g] \in {"dead", "missing"}
    <3>1. duty' = 100
      BY <1>5, <2>2 DEF Decide
    <3> QED
      BY <1>3, <2>1, <3>1
  <2>3. CASE Read = {} /\ ~\E g \in Cards : sensor[g] \in {"dead", "missing"}
    <3>1. duty' = 70
      BY <1>5, <2>3 DEF Decide, FLOOR
    <3> QED
      BY <2>1, <2>3, <3>1
  <2>4. CASE Read # {} /\ ~\E g \in Cards : sensor[g] \in {"dead", "missing"}
    <3>1. duty' = AmdCurve(Hottest)
      BY <1>5, <2>4 DEF Decide
    <3> QED
      BY <1>2, <2>1, <2>4, <3>1
  <2> QED
    BY <2>2, <2>3, <2>4
<1> QED
  BY <1>1, <1>4, <1>5

\* A write leaves each fan with what it had or what is written.
LEMMA WritesInRange ==
  ASSUME FanTypeOK, NEW on, NEW failed, NEW raw,
         \A f \in Fans : raw[f] \in 0..257,
         failed # {} => FanFault, failed = {} => UNCHANGED fanFaults,
         fan' = [f \in Fans |-> IF f \in on \ failed THEN raw[f] ELSE fan[f]]
  PROVE  fan' \in [Fans -> 0..257] /\ fanFaults' \in 0..MaxFanFaults
<1>1. fan' \in [Fans -> 0..257]
  BY DEF FanTypeOK
<1>2. fanFaults' \in 0..MaxFanFaults
  BY FanAssumption DEF FanTypeOK, FanFault
<1> QED
  BY <1>1, <1>2

\* The fans are driven by their firmware, at the speed they had, or at a byte
\* that is written to them; the duty is never under what the curve starts with.
THEOREM FanTypeCorrect == FanSpec => []FanTypeOK
<1>1. FanInit => FanTypeOK
  <2> SUFFICES ASSUME FanInit PROVE FanTypeOK
    OBVIOUS
  <2>1. fan \in [Fans -> 0..257] /\ duty \in 50..100
    BY DEF FanInit, Firmware
  <2>2. sensor \in [Cards -> {"live", "dead", "asleep", "missing"}]
    BY DEF FanInit
  <2>3. fanFaults \in 0..MaxFanFaults
    BY FanAssumption DEF FanInit
  <2> QED
    BY <2>1, <2>2, <2>3 DEF FanInit, FanTypeOK
<1>2. FanTypeOK /\ [FanNext]_fanVars => FanTypeOK'
  <2> SUFFICES ASSUME FanTypeOK, [FanNext]_fanVars PROVE FanTypeOK'
    OBVIOUS
  <2>1. ASSUME NEW g \in Cards, NEW t \in FanTemps, NEW s \in {"live", "dead", "asleep", "missing"},
               CardChanges(g, t, s)
        PROVE  FanTypeOK'
    <3>1. temp' \in [Cards -> FanTemps] /\ sensor' \in [Cards -> {"live", "dead", "asleep", "missing"}]
      BY <2>1 DEF CardChanges, FanTypeOK
    <3>2. UNCHANGED <<card, hasBoard, fan, duty, fanPc, stopping, unrestored, fanFaults>>
      BY <2>1 DEF CardChanges
    <3> QED
      BY <3>1, <3>2 DEF FanTypeOK
  <2>2. CASE Stop \/ FanDies \/ FanRestart
    <3>1. CASE Stop
      BY <3>1 DEF Stop, FanTypeOK
    <3>2. CASE FanDies
      <4>1. fanFaults' \in 0..MaxFanFaults
        BY <3>2, FanAssumption DEF FanDies, FanFault, FanTypeOK
      <4> QED
        BY <3>2, <4>1 DEF FanDies, FanTypeOK
    <3>3. CASE FanRestart
      <4>1. duty' \in 50..100 /\ unrestored' \subseteq Fans
        BY <3>3 DEF FanRestart
      <4> QED
        BY <3>3, <4>1 DEF FanRestart, FanTypeOK
    <3> QED
      BY <2>2, <3>1, <3>2, <3>3
  <2>3. CASE serve_metrics
    BY <2>3 DEF serve_metrics, FanTypeOK
  <2>4. CASE Decide
    BY <2>4, DecideSuffices DEF Decide, FanTypeOK
  <2>5. ASSUME NEW failed \in SUBSET Fans, TakeOver(failed) PROVE FanTypeOK'
    <3>1. CASE card = "nvidia"
      <4> DEFINE raw == [f \in Fans |-> IF fan[f] = Firmware THEN Held ELSE fan[f]]
      <4>1. \A f \in Fans : raw[f] \in 0..257
        BY DEF FanTypeOK, Firmware, Held
      <4>2. /\ failed # {} => FanFault
            /\ failed = {} => UNCHANGED fanFaults
            /\ fan' = [f \in Fans |-> IF f \in GpuFans \ failed THEN raw[f] ELSE fan[f]]
        BY <2>5, <3>1 DEF TakeOver, Writes
      <4> HIDE DEF raw
      <4>3. fan' \in [Fans -> 0..257] /\ fanFaults' \in 0..MaxFanFaults
        BY <4>1, <4>2, WritesInRange
      <4> QED
        BY <2>5, <4>3 DEF TakeOver, FanTypeOK
    <3>2. CASE card # "nvidia"
      <4> DEFINE raw == [f \in Fans |-> Raw(card, f, CEIL)]
      <4>1. \A f \in Fans : raw[f] \in 0..257
        <5>1. CEIL \in 50..100
          BY DEF CEIL
        <5>2. \A f \in Fans : Raw(card, f, CEIL) \in 0..255
          BY <5>1, RawInRange
        <5> QED
          BY <5>2
      <4>2. /\ failed # {} => FanFault
            /\ failed = {} => UNCHANGED fanFaults
            /\ fan' = [f \in Fans |-> IF f \in Driven \ failed THEN raw[f] ELSE fan[f]]
        BY <2>5, <3>2 DEF TakeOver, Writes
      <4> HIDE DEF raw
      <4>3. fan' \in [Fans -> 0..257] /\ fanFaults' \in 0..MaxFanFaults
        BY <4>1, <4>2, WritesInRange
      <4> QED
        BY <2>5, <4>3 DEF TakeOver, FanTypeOK
    <3> QED
      BY <3>1, <3>2
  <2>6. ASSUME NEW failed \in SUBSET Fans, SetFans(failed) PROVE FanTypeOK'
    <3> DEFINE raw == [f \in Fans |-> Raw(card, f, duty)]
    <3>1. \A f \in Fans : raw[f] \in 0..257
      <4>1. duty \in 50..100
        BY DEF FanTypeOK
      <4>2. \A f \in Fans : Raw(card, f, duty) \in 0..255
        BY <4>1, RawInRange
      <4> QED
        BY <4>2
    <3>2. /\ failed # {} => FanFault
          /\ failed = {} => UNCHANGED fanFaults
          /\ fan' = [f \in Fans |-> IF f \in Driven \ failed THEN raw[f] ELSE fan[f]]
      BY <2>6 DEF SetFans, Writes
    <3> HIDE DEF raw
    <3>3. fan' \in [Fans -> 0..257] /\ fanFaults' \in 0..MaxFanFaults
      BY <3>1, <3>2, WritesInRange
    <3> QED
      BY <2>6, <3>3 DEF SetFans, FanTypeOK
  <2>7. ASSUME NEW failed \in SUBSET Fans, Restore(failed) PROVE FanTypeOK'
    <3> DEFINE raw == [f \in Fans |-> Firmware]
    <3>1. \A f \in Fans : raw[f] \in 0..257
      BY DEF Firmware
    <3>2. /\ failed # {} => FanFault
          /\ failed = {} => UNCHANGED fanFaults
          /\ fan' = [f \in Fans |-> IF f \in Driven \ failed THEN raw[f] ELSE fan[f]]
      BY <2>7 DEF Restore, Writes
    <3> HIDE DEF raw
    <3>3. fan' \in [Fans -> 0..257] /\ fanFaults' \in 0..MaxFanFaults
      BY <3>1, <3>2, WritesInRange
    <3> QED
      BY <2>7, <3>3 DEF Restore, FanTypeOK
  <2>8. CASE UNCHANGED fanVars
    BY <2>8 DEF fanVars, FanTypeOK
  <2> QED
    BY <2>1, <2>2, <2>3, <2>4, <2>5, <2>6, <2>7, <2>8 DEF FanNext, Loops
<1> QED
  BY <1>1, <1>2, PTL DEF FanSpec

\* No card that was read gets less than its own temperature asks for: a pass
\* decides for the hottest, whichever that is, and the curve ascends.
HottestDecides ==
  [][fanPc = "read" /\ fanPc' = "write" => \A g \in Read : Curve(temp[g]) <= duty']_fanVars

THEOREM HottestDecidesHolds == FanSpec => HottestDecides
<1>1. FanTypeOK /\ [FanNext]_fanVars =>
        [fanPc = "read" /\ fanPc' = "write" => \A g \in Read : Curve(temp[g]) <= duty']_fanVars
  <2> SUFFICES ASSUME FanTypeOK, [FanNext]_fanVars, fanPc = "read", fanPc' = "write"
               PROVE  \A g \in Read : Curve(temp[g]) <= duty'
    OBVIOUS
  <2>1. Decide
    BY DEF fanVars, FanNext, Loops, CardChanges, Stop, FanDies, FanRestart, TakeOver, serve_metrics,
           Decide, SetFans, Restore
  <2> QED
    BY <2>1, DecideSuffices
<1> QED
  BY <1>1, FanTypeCorrect, PTL DEF FanSpec, HottestDecides

-----------------------------------------------------------------------------
(***************************************************************************)
(* Notify. A file is removed only after its event was accepted, although   *)
(* several processes go through one outbox. That a file which is whole was *)
(* written once, by its own publisher, has to be carried along, and that   *)
(* who is about to remove has had the first of its names accepted.         *)
(***************************************************************************)

ProcSteps == {"ready", "writing", "flush", "send", "rm", "gone"}
ProcState == [pc : ProcSteps, todo : SUBSET Events]

\* An event that was written is accepted or still whole in the outbox.
WrittenIsKept == \A e \in written : e \in accepted \/ file[e] = "full"

\* What is removed was accepted, and a publisher has written its event once.
RemovedIsAccepted ==
  /\ \A e \in Events : file[e] = "full" => e \in written
  /\ \A e \in Events : proc[e].pc \in {"ready", "writing"} => e \notin written
  /\ \A p \in Processes : proc[p].pc = "rm" => proc[p].todo # {} /\ FirstOf(p) \in accepted

NotifyInv == NotifyTypeOK /\ RemovedIsAccepted /\ WrittenIsKept

\* The types, with the states of a process by name.
LEMMA NotifyTypes ==
  NotifyTypeOK <=>
    /\ file \in [Events -> {"none", "half", "full"}] /\ proc \in [Processes -> ProcState]
    /\ accepted \subseteq written /\ written \subseteq Events /\ notifyFaults \in 0..MaxNotifyFaults
BY DEF NotifyTypeOK, ProcState, ProcSteps

\* A process has a step and the names it listed.
LEMMA ProcTyped ==
  ASSUME NotifyTypeOK, NEW p \in Processes
  PROVE  proc[p] \in ProcState /\ proc[p].pc \in ProcSteps /\ proc[p].todo \subseteq Events
<1>1. proc[p] \in ProcState
  BY NotifyTypes
<1> QED
  BY <1>1 DEF ProcState

\* It goes on with another step and what is left of them.
LEMMA ProcGoes ==
  ASSUME NotifyTypeOK, NEW p \in Processes, NEW pc \in ProcSteps, NEW left \in SUBSET Events, NotifyGoes(p, pc, left)
  PROVE  /\ proc' \in [Processes -> ProcState]
         /\ proc'[p].pc = pc /\ proc'[p].todo = left
         /\ \A q \in Processes : q # p => proc'[q] = proc[q]
<1> DEFINE c == [pc |-> pc, todo |-> left]
<1>1. c \in ProcState /\ c.pc = pc /\ c.todo = left
  BY DEF ProcState
<1>2. proc \in [Processes -> ProcState] /\ proc' = [proc EXCEPT ![p] = c]
  BY NotifyTypes DEF NotifyGoes
<1> HIDE DEF c
<1> QED
  BY <1>1, <1>2

\* The first of the names is one of them.
LEMMA FirstIsListed ==
  ASSUME NotifyTypeOK, NEW p \in Processes, proc[p].todo # {}
  PROVE  FirstOf(p) \in proc[p].todo /\ FirstOf(p) \in Events
<1>1. proc[p].todo \subseteq Events /\ proc[p].todo \subseteq Nat
  BY ProcTyped, NotifyAssumption
<1>2. \E e \in proc[p].todo : \A d \in proc[p].todo : e <= d
  BY <1>1, LeastNumber
<1> QED
  BY <1>1, <1>2 DEF FirstOf

\* What a step of one process has to show: its types, what its own counter
\* stands for, and that nothing it did takes an event away.
LEMMA ProcStepKeeps ==
  ASSUME NotifyInv, NEW p \in Processes,
         file' \in [Events -> {"none", "half", "full"}], proc' \in [Processes -> ProcState],
         notifyFaults' \in 0..MaxNotifyFaults,
         accepted \subseteq accepted', accepted' \subseteq written', written \subseteq written', written' \subseteq Events,
         \A q \in Processes : q # p => proc'[q] = proc[q],
         \A e \in Events : file'[e] = "full" => e \in written',
         \A e \in Events : e # p /\ e \in written' => e \in written,
         p \in Events /\ proc'[p].pc \in {"ready", "writing"} => p \notin written',
         proc'[p].pc = "rm" => proc'[p].todo # {} /\ FirstOf(p)' \in accepted',
         \A e \in written' : e \in accepted' \/ file'[e] = "full"
  PROVE  NotifyInv'
<1>1. NotifyTypeOK'
  BY DEF NotifyTypeOK, ProcState, ProcSteps
<1>2. \A e \in Events : proc'[e].pc \in {"ready", "writing"} => e \notin written'
  <2>1. Events \subseteq Processes
    BY DEF Processes
  <2> QED
    BY <2>1 DEF NotifyInv, RemovedIsAccepted
<1>3. \A q \in Processes : proc'[q].pc = "rm" => proc'[q].todo # {} /\ FirstOf(q)' \in accepted'
  <2> SUFFICES ASSUME NEW q \in Processes, q # p, proc'[q].pc = "rm"
               PROVE  proc'[q].todo # {} /\ FirstOf(q)' \in accepted'
    OBVIOUS
  <2>1. proc'[q] = proc[q] /\ FirstOf(q)' = FirstOf(q)
    BY DEF FirstOf
  <2> QED
    BY <2>1 DEF NotifyInv, RemovedIsAccepted
<1>4. RemovedIsAccepted'
  BY <1>2, <1>3 DEF RemovedIsAccepted
<1>5. WrittenIsKept'
  BY DEF WrittenIsKept
<1> QED
  BY <1>1, <1>4, <1>5 DEF NotifyInv

\* A flush that ends leaves a publisher gone and the timer ready for the next.
LEMMA FlushEndsGoes ==
  ASSUME NotifyTypeOK, NEW p \in Processes, FlushEnds(p)
  PROVE  /\ proc' \in [Processes -> ProcState] /\ proc'[p].pc \in {"flush", "gone"}
         /\ \A q \in Processes : q # p => proc'[q] = proc[q]
<1> DEFINE pc == IF p = TIMER THEN "flush" ELSE "gone"
<1>1. pc \in ProcSteps /\ {} \in SUBSET Events
  BY DEF ProcSteps
<1>2. NotifyGoes(p, pc, {})
  BY DEF FlushEnds
<1> HIDE DEF pc
<1>3. proc' \in [Processes -> ProcState] /\ proc'[p].pc = pc /\ \A q \in Processes : q # p => proc'[q] = proc[q]
  BY <1>1, <1>2, ProcGoes
<1> QED
  BY <1>3 DEF pc

\* A fault is counted.
LEMMA NotifyFaultCounts ==
  ASSUME NotifyTypeOK, NotifyFault \/ UNCHANGED notifyFaults
  PROVE  notifyFaults' \in 0..MaxNotifyFaults
BY NotifyAssumption DEF NotifyTypeOK, NotifyFault

\* The publisher writes its event, before anyone can send it.
LEMMA PublishesKeeps ==
  ASSUME NotifyInv, NEW p \in Processes, Publishes(p)
  PROVE  NotifyInv'
<1>1. /\ p \in Events /\ accepted' = accepted /\ notifyFaults' = notifyFaults
      /\ file \in [Events -> {"none", "half", "full"}] /\ written \subseteq Events
      /\ accepted \subseteq written /\ notifyFaults \in 0..MaxNotifyFaults
  BY NotifyTypes DEF Publishes, NotifyInv
<1>2. p \notin written
  BY <1>1 DEF Publishes, NotifyInv, RemovedIsAccepted
<1>3. CASE proc[p].pc = "ready"
  <2>1. file' = [file EXCEPT ![p] = "half"] /\ NotifyGoes(p, "writing", {}) /\ written' = written
    BY <1>3 DEF Publishes
  <2>2. "writing" \in ProcSteps /\ {} \in SUBSET Events
    BY DEF ProcSteps
  <2>3. /\ proc' \in [Processes -> ProcState] /\ proc'[p].pc = "writing"
        /\ \A q \in Processes : q # p => proc'[q] = proc[q]
    BY <2>1, <2>2, ProcGoes DEF NotifyInv
  <2>4. file' \in [Events -> {"none", "half", "full"}] /\ file'[p] = "half" /\ \A e \in Events : e # p => file'[e] = file[e]
    BY <1>1, <2>1
  <2>5. \A e \in Events : file'[e] = "full" => e \in written'
    BY <2>1, <2>4 DEF NotifyInv, RemovedIsAccepted
  <2>6. \A e \in written' : e \in accepted' \/ file'[e] = "full"
    BY <1>1, <1>2, <2>1, <2>4 DEF NotifyInv, WrittenIsKept
  <2> QED
    BY <1>1, <1>2, <2>1, <2>3, <2>4, <2>5, <2>6, ProcStepKeeps
<1>4. CASE proc[p].pc # "ready"
  <2>1. file' = [file EXCEPT ![p] = "full"] /\ NotifyGoes(p, "flush", {}) /\ written' = written \union {p}
    BY <1>4 DEF Publishes
  <2>2. "flush" \in ProcSteps /\ {} \in SUBSET Events
    BY DEF ProcSteps
  <2>3. /\ proc' \in [Processes -> ProcState] /\ proc'[p].pc = "flush"
        /\ \A q \in Processes : q # p => proc'[q] = proc[q]
    BY <2>1, <2>2, ProcGoes DEF NotifyInv
  <2>4. file' \in [Events -> {"none", "half", "full"}] /\ file'[p] = "full" /\ \A e \in Events : e # p => file'[e] = file[e]
    BY <1>1, <2>1
  <2>5. \A e \in Events : file'[e] = "full" => e \in written'
    BY <2>1, <2>4 DEF NotifyInv, RemovedIsAccepted
  <2>6. \A e \in written' : e \in accepted' \/ file'[e] = "full"
    BY <1>1, <2>1, <2>4 DEF NotifyInv, WrittenIsKept
  <2>7. /\ written \subseteq written' /\ written' \subseteq Events /\ accepted' \subseteq written'
        /\ \A e \in Events : e # p /\ e \in written' => e \in written
    BY <1>1, <2>1
  <2> QED
    BY <1>1, <2>3, <2>4, <2>5, <2>6, <2>7, ProcStepKeeps
<1> QED
  BY <1>3, <1>4

\* What the other steps share: no event is written, and unless a file is
\* removed the outbox is what it was.
LEMMA OutboxKept ==
  ASSUME NotifyInv, NEW p \in Processes, UNCHANGED <<file, written>>,
         proc' \in [Processes -> ProcState], \A q \in Processes : q # p => proc'[q] = proc[q],
         proc'[p].pc \notin {"ready", "writing"},
         accepted \subseteq accepted', accepted' \subseteq written,
         NotifyFault \/ UNCHANGED notifyFaults,
         proc'[p].pc = "rm" => proc'[p].todo # {} /\ FirstOf(p)' \in accepted'
  PROVE  NotifyInv'
<1>1. /\ file' \in [Events -> {"none", "half", "full"}] /\ written' \subseteq Events
      /\ notifyFaults' \in 0..MaxNotifyFaults
  BY NotifyTypes, NotifyFaultCounts DEF NotifyInv
<1>2. /\ \A e \in Events : file'[e] = "full" => e \in written'
      /\ \A e \in written' : e \in accepted' \/ file'[e] = "full"
  BY DEF NotifyInv, RemovedIsAccepted, WrittenIsKept
<1> QED
  BY <1>1, <1>2, ProcStepKeeps

\* A name is listed, or is sent: an accepted event was a whole one.
LEMMA SendsKeeps ==
  ASSUME NotifyInv, NEW p \in Processes, Sends(p)
  PROVE  NotifyInv'
<1>1. NotifyTypeOK /\ accepted \subseteq written /\ UNCHANGED <<file, written>>
  BY NotifyTypes DEF NotifyInv, Sends
<1>2. ASSUME FlushEnds(p)
      PROVE  /\ proc' \in [Processes -> ProcState] /\ proc'[p].pc \notin {"ready", "writing", "rm"}
             /\ \A q \in Processes : q # p => proc'[q] = proc[q]
  BY <1>1, <1>2, FlushEndsGoes
<1>3. CASE proc[p].todo = {}
  BY <1>1, <1>2, <1>3, OutboxKept DEF Sends
<1>4. CASE proc[p].todo # {}
  <2> DEFINE e == FirstOf(p)
  <2>1. e \in Events
    BY <1>1, <1>4, FirstIsListed
  <2>2. file[e] = "full" => accepted \union {e} \subseteq written
    BY <1>1, <2>1 DEF NotifyInv, RemovedIsAccepted
  <2>3. CASE /\ file[e] = "full" /\ accepted' = accepted \union {e}
             /\ NotifyGoes(p, "rm", proc[p].todo) /\ UNCHANGED notifyFaults
    <3>1. "rm" \in ProcSteps /\ proc[p].todo \in SUBSET Events
      BY <1>1, ProcTyped DEF ProcSteps
    <3>2. /\ proc' \in [Processes -> ProcState] /\ proc'[p].pc = "rm" /\ proc'[p].todo = proc[p].todo
          /\ \A q \in Processes : q # p => proc'[q] = proc[q]
      BY <1>1, <2>3, <3>1, ProcGoes
    <3>3. FirstOf(p)' = e
      BY <3>2 DEF FirstOf
    <3>4. e \in accepted'
      BY <2>3
    <3> HIDE DEF e
    <3> QED
      BY <1>1, <1>4, <2>2, <2>3, <3>2, <3>3, <3>4, OutboxKept
  <2>4. CASE /\ file[e] = "full" /\ NotifyFault /\ FlushEnds(p)
             /\ accepted' \in {accepted, accepted \union {e}}
    BY <1>1, <1>2, <2>2, <2>4, OutboxKept
  <2>5. CASE file[e] # "full" /\ FlushEnds(p) /\ UNCHANGED <<accepted, notifyFaults>>
    BY <1>1, <1>2, <2>5, OutboxKept
  <2> QED
    BY <1>4, <2>3, <2>4, <2>5 DEF Sends
<1> QED
  BY <1>3, <1>4

\* A file is removed after its event was accepted.
LEMMA RemovesKeeps ==
  ASSUME NotifyInv, NEW p \in Processes, Removes(p)
  PROVE  NotifyInv'
<1> DEFINE e == FirstOf(p)
<1>1. /\ NotifyTypeOK /\ accepted \subseteq written /\ written \subseteq Events
      /\ file \in [Events -> {"none", "half", "full"}] /\ notifyFaults \in 0..MaxNotifyFaults
  BY NotifyTypes DEF NotifyInv
<1>2. proc[p].todo # {} /\ e \in accepted /\ UNCHANGED <<accepted, written, notifyFaults>>
  BY DEF Removes, NotifyInv, RemovedIsAccepted
<1>3. file' = [file EXCEPT ![e] = "none"] /\ e \in Events
  BY <1>1, <1>2 DEF Removes
<1>4. /\ proc' \in [Processes -> ProcState] /\ proc'[p].pc \notin {"ready", "writing", "rm"}
      /\ \A q \in Processes : q # p => proc'[q] = proc[q]
  <2>1. CASE FlushEnds(p)
    BY <1>1, <2>1, FlushEndsGoes
  <2>2. CASE NotifyGoes(p, "send", proc[p].todo \ {e})
    <3>1. "send" \in ProcSteps /\ proc[p].todo \ {e} \in SUBSET Events
      BY <1>1, ProcTyped DEF ProcSteps
    <3> HIDE DEF e
    <3>2. /\ proc' \in [Processes -> ProcState] /\ proc'[p].pc = "send"
          /\ \A q \in Processes : q # p => proc'[q] = proc[q]
      BY <1>1, <2>2, <3>1, ProcGoes
    <3> QED
      BY <3>2
  <2> QED
    BY <2>1, <2>2 DEF Removes
<1> HIDE DEF e
<1>5. /\ file' \in [Events -> {"none", "half", "full"}] /\ file'[e] = "none"
      /\ \A d \in Events : d # e => file'[d] = file[d]
  BY <1>1, <1>3
<1>6. \A d \in Events : file'[d] = "full" => d \in written'
  BY <1>2, <1>5 DEF NotifyInv, RemovedIsAccepted
<1>7. \A d \in written' : d \in accepted' \/ file'[d] = "full"
  BY <1>1, <1>2, <1>5 DEF NotifyInv, WrittenIsKept
<1> QED
  BY <1>1, <1>2, <1>4, <1>5, <1>6, <1>7, ProcStepKeeps

\* No step of any process loses an event or leaves the types.
LEMMA NotifyStep == NotifyInv /\ [NotifyNext]_notifyVars => NotifyInv'
<1> SUFFICES ASSUME NotifyInv, [NotifyNext]_notifyVars PROVE NotifyInv'
  OBVIOUS
<1>1. ASSUME NEW p \in Processes, ListsOutbox(p) PROVE NotifyInv'
  <2> DEFINE listed == {e \in Events : file[e] # "none"}
  <2>1. "send" \in ProcSteps /\ listed \in SUBSET Events /\ NotifyTypeOK /\ accepted \subseteq written
    BY NotifyTypes DEF ProcSteps, NotifyInv
  <2>2. NotifyGoes(p, "send", listed) /\ UNCHANGED <<file, accepted, written, notifyFaults>>
    BY <1>1 DEF ListsOutbox
  <2> HIDE DEF listed
  <2>3. /\ proc' \in [Processes -> ProcState] /\ proc'[p].pc = "send"
        /\ \A q \in Processes : q # p => proc'[q] = proc[q]
    BY <2>1, <2>2, ProcGoes
  <2> QED
    BY <2>1, <2>2, <2>3, OutboxKept
<1>2. ASSUME NEW p \in Processes, NotifyKilled(p) PROVE NotifyInv'
  <2>1. FlushEnds(p) /\ NotifyFault /\ UNCHANGED <<file, accepted, written>> /\ NotifyTypeOK /\ accepted \subseteq written
    BY <1>2, NotifyTypes DEF NotifyKilled, NotifyInv
  <2>2. /\ proc' \in [Processes -> ProcState] /\ proc'[p].pc \in {"flush", "gone"}
        /\ \A q \in Processes : q # p => proc'[q] = proc[q]
    BY <2>1, FlushEndsGoes
  <2> QED
    BY <2>1, <2>2, OutboxKept
<1>3. CASE UNCHANGED notifyVars
  BY <1>3 DEF notifyVars, NotifyInv, NotifyTypeOK, RemovedIsAccepted, WrittenIsKept, FirstOf
<1> QED
  BY <1>1, <1>2, <1>3, PublishesKeeps, SendsKeeps, RemovesKeeps DEF NotifyNext, Flushes

\* The invariant holds from the start.
LEMMA NotifyInvariance == NotifySpec => []NotifyInv
<1>1. NotifyInit => NotifyInv
  <2> SUFFICES ASSUME NotifyInit PROVE NotifyInv
    OBVIOUS
  <2>1. \A p \in Processes : [pc |-> IF p = TIMER THEN "flush" ELSE "ready", todo |-> {}] \in ProcState
    BY DEF ProcState, ProcSteps
  <2>2. proc \in [Processes -> ProcState] /\ \A p \in Processes : proc[p].pc # "rm"
    BY <2>1 DEF NotifyInit
  <2>3. NotifyTypeOK
    BY <2>2, NotifyTypes, NotifyAssumption DEF NotifyInit
  <2> QED
    BY <2>2, <2>3 DEF NotifyInit, NotifyInv, RemovedIsAccepted, WrittenIsKept
<1> QED
  BY <1>1, NotifyStep, PTL DEF NotifySpec

\* A file that an agent wrote is not removed from the outbox before ntfy has
\* accepted it, whoever flushes at the same time and whatever is killed.
THEOREM WrittenIsKeptHolds == NotifySpec => []WrittenIsKept
<1>1. NotifyInv => WrittenIsKept
  BY DEF NotifyInv
<1> QED
  BY <1>1, NotifyInvariance, PTL

\* What is accepted was written, and a flush has names of events to go through.
THEOREM NotifyTypeCorrect == NotifySpec => []NotifyTypeOK
<1>1. NotifyInv => NotifyTypeOK
  BY DEF NotifyInv
<1> QED
  BY <1>1, NotifyInvariance, PTL

-----------------------------------------------------------------------------
(***************************************************************************)
(* Caps. An endpoint that is not to be warmed again is being asked or has  *)
(* answered: what the plugin knows ages, and goes only with the memory     *)
(* that also remembers who was warmed.                                     *)
(***************************************************************************)

Entries == [Urls -> Ages]
TmpFile == [at : {"none", "torn", "whole"}, data : Entries]
WarmerState == [pc : {"idle", "fetch", "mirror", "open", "write", "replace"}, data : Entries]

\* An endpoint that is not warmed again is being asked, or memory knows what it said.
WarmedIsKnown == \A u \in warm_started : warmer[u].pc = "fetch" \/ memory[u] # "none"

CapsInv == CapsTypeOK /\ WarmedIsKnown

\* The types, with the parts by name.
LEMMA CapsTypes ==
  CapsTypeOK <=>
    /\ publishes \subseteq Urls /\ warm_started \subseteq Urls
    /\ memory \in Entries /\ disk \in Entries /\ tmp \in TmpFile
    /\ warmer \in [Urls -> WarmerState]
    /\ agings \in 0..MaxAgings /\ capsFaults \in 0..MaxCapsFaults
BY DEF CapsTypeOK, Entries, TmpFile, WarmerState

\* The parts there are.
LEMMA CapsParts ==
  /\ Nothing \in Entries /\ CapsIdle \in WarmerState /\ CapsIdle.pc = "idle"
  /\ [CapsIdle EXCEPT !.pc = "fetch"] \in WarmerState /\ [CapsIdle EXCEPT !.pc = "fetch"].pc = "fetch"
  /\ \A at \in {"none", "torn", "whole"}, es \in Entries : [at |-> at, data |-> es] \in TmpFile
  /\ \A es \in Entries : [pc |-> "open", data |-> es] \in WarmerState
<1>1. Nothing \in Entries
  BY DEF Nothing, Entries, Ages
<1>2. CapsIdle \in WarmerState /\ CapsIdle.pc = "idle"
  BY <1>1 DEF CapsIdle, WarmerState
<1>3. [CapsIdle EXCEPT !.pc = "fetch"] \in WarmerState /\ [CapsIdle EXCEPT !.pc = "fetch"].pc = "fetch"
  BY <1>1 DEF CapsIdle, WarmerState
<1>4. \A at \in {"none", "torn", "whole"}, es \in Entries : [at |-> at, data |-> es] \in TmpFile
  BY DEF TmpFile
<1>5. \A es \in Entries : [pc |-> "open", data |-> es] \in WarmerState
  BY DEF WarmerState
<1> QED
  BY <1>1, <1>2, <1>3, <1>4, <1>5

\* Entries that age stay entries, and none of them goes.
LEMMA OldEntries ==
  ASSUME NEW es \in Entries
  PROVE  Old(es) \in Entries /\ \A u \in Urls : es[u] # "none" => Old(es)[u] # "none"
<1>1. Old(es) \in Entries
  BY DEF Old, Entries, Ages
<1>2. \A u \in Urls : es[u] # "none" => Old(es)[u] # "none"
  BY DEF Old
<1> QED
  BY <1>1, <1>2

\* A thread goes on to another step and keeps what it read.
LEMMA ThreadStep ==
  ASSUME CapsTypeOK, NEW u \in Urls, NEW pc \in {"idle", "fetch", "mirror", "open", "write", "replace"}, ThreadGoes(u, pc)
  PROVE  /\ warmer' \in [Urls -> WarmerState] /\ warmer'[u].pc = pc
         /\ \A v \in Urls : v # u => warmer'[v] = warmer[v]
<1> DEFINE c == [warmer[u] EXCEPT !.pc = pc]
<1>1. warmer \in [Urls -> WarmerState] /\ warmer[u] \in WarmerState
  BY CapsTypes
<1>2. c \in WarmerState /\ c.pc = pc
  BY <1>1 DEF WarmerState
<1>3. warmer' = [warmer EXCEPT ![u] = c]
  BY DEF ThreadGoes
<1> HIDE DEF c
<1> QED
  BY <1>1, <1>2, <1>3

\* A request finds the model, or has the endpoints warmed.
LEMMA LookupKeeps ==
  ASSUME CapsInv, Lookup
  PROVE  CapsInv'
<1>1. /\ publishes \subseteq Urls /\ warm_started \subseteq Urls
      /\ memory \in Entries /\ disk \in Entries /\ tmp \in TmpFile
      /\ warmer \in [Urls -> WarmerState]
      /\ agings \in 0..MaxAgings /\ capsFaults \in 0..MaxCapsFaults
  BY CapsTypes DEF CapsInv
<1>2. \A u \in Urls : Loaded(u) \in Ages /\ (memory[u] # "none" => Loaded(u) # "none")
  BY <1>1 DEF Loaded, Entries
<1>3. CASE \E u \in Urls :
             /\ memory' = [memory EXCEPT ![u] = Loaded(u)]
             /\ UNCHANGED <<publishes, disk, tmp, warm_started, warmer, agings, capsFaults>>
  <2>1. PICK u \in Urls :
          /\ memory' = [memory EXCEPT ![u] = Loaded(u)]
          /\ UNCHANGED <<publishes, disk, tmp, warm_started, warmer, agings, capsFaults>>
    BY <1>3
  <2>2. memory' \in Entries
    BY <1>1, <1>2, <2>1 DEF Entries
  <2>3. \A v \in Urls : memory[v] # "none" => memory'[v] # "none"
    BY <1>1, <1>2, <2>1 DEF Entries
  <2>4. CapsTypeOK'
    BY <1>1, <2>1, <2>2 DEF CapsTypeOK, Entries, TmpFile, WarmerState
  <2>5. WarmedIsKnown'
    BY <1>1, <2>1, <2>3 DEF CapsInv, WarmedIsKnown
  <2> QED
    BY <2>4, <2>5 DEF CapsInv
<1>4. CASE \A u \in Urls : ~Answers(u)
  <2> DEFINE warmed == {u \in Urls \ warm_started : Loaded(u) # "fresh"}
             fetching == [CapsIdle EXCEPT !.pc = "fetch"]
  <2>1. \/ /\ memory' = [u \in Urls |-> Loaded(u)]
           /\ warm_started' = warm_started \union warmed
           /\ warmer' = [u \in Urls |-> IF u \in warmed THEN fetching ELSE warmer[u]]
           /\ UNCHANGED <<publishes, disk, tmp, agings, capsFaults>>
        \/ \E u \in Urls : Answers(u)
    BY DEF Lookup
  <2>2. fetching \in WarmerState /\ fetching.pc = "fetch"
    BY CapsParts
  <2> HIDE DEF fetching
  <2>3. warmer' \in [Urls -> WarmerState]
    BY <1>1, <1>4, <2>1, <2>2
  <2>4. memory' \in Entries /\ warm_started' \subseteq Urls
    BY <1>1, <1>2, <1>4, <2>1 DEF Entries
  <2>5. CapsTypeOK'
    <3>1. UNCHANGED <<publishes, disk, tmp, agings, capsFaults>>
      BY <1>4, <2>1
    <3> QED
      BY <1>1, <2>3, <2>4, <3>1 DEF CapsTypeOK, Entries, TmpFile, WarmerState
  <2>6. WarmedIsKnown'
    <3> SUFFICES ASSUME NEW u \in warm_started' PROVE warmer'[u].pc = "fetch" \/ memory'[u] # "none"
      BY DEF WarmedIsKnown
    <3>1. CASE u \in warmed
      BY <1>4, <2>1, <2>2, <3>1
    <3>2. CASE u \notin warmed
      <4>1. u \in warm_started /\ u \in Urls /\ warmer'[u] = warmer[u] /\ memory'[u] = Loaded(u)
        BY <1>1, <1>4, <2>1, <3>2
      <4> QED
        BY <1>2, <4>1 DEF CapsInv, WarmedIsKnown
    <3> QED
      BY <3>1, <3>2
  <2> QED
    BY <2>5, <2>6 DEF CapsInv
<1> QED
  BY <1>3, <1>4 DEF Lookup

\* A fetch that fails lets the endpoint be warmed again.
LEMMA FetchKeeps ==
  ASSUME CapsInv, NEW u \in Urls, Fetch(u)
  PROVE  CapsInv'
<1>1. /\ publishes \subseteq Urls /\ warm_started \subseteq Urls /\ CapsTypeOK
      /\ memory \in Entries /\ disk \in Entries /\ tmp \in TmpFile
      /\ agings \in 0..MaxAgings /\ capsFaults \in 0..MaxCapsFaults
  BY CapsTypes DEF CapsInv
<1>2. UNCHANGED <<publishes, disk, tmp, agings>>
  BY DEF Fetch
<1>3. CASE /\ memory' = [memory EXCEPT ![u] = "fresh"]
           /\ ThreadGoes(u, "mirror") /\ UNCHANGED <<warm_started, capsFaults>>
  <2>1. memory' \in Entries /\ memory'[u] = "fresh" /\ \A v \in Urls : v # u => memory'[v] = memory[v]
    BY <1>1, <1>3 DEF Entries, Ages
  <2>2. warmer' \in [Urls -> WarmerState] /\ \A v \in Urls : v # u => warmer'[v] = warmer[v]
    BY <1>1, <1>3, ThreadStep
  <2>3. CapsTypeOK'
    BY <1>1, <1>2, <1>3, <2>1, <2>2 DEF CapsTypeOK, Entries, TmpFile, WarmerState
  <2>4. WarmedIsKnown'
    BY <1>1, <1>3, <2>1, <2>2 DEF CapsInv, WarmedIsKnown
  <2> QED
    BY <2>3, <2>4 DEF CapsInv
<1>4. CASE CapsFault /\ warm_started' = warm_started \ {u} /\ ThreadGoes(u, "idle") /\ UNCHANGED memory
  <2>1. capsFaults' \in 0..MaxCapsFaults
    BY <1>1, <1>4, CapsAssumption DEF CapsFault
  <2>2. warmer' \in [Urls -> WarmerState] /\ \A v \in Urls : v # u => warmer'[v] = warmer[v]
    BY <1>1, <1>4, ThreadStep
  <2>3. CapsTypeOK'
    BY <1>1, <1>2, <1>4, <2>1, <2>2 DEF CapsTypeOK, Entries, TmpFile, WarmerState
  <2>4. WarmedIsKnown'
    BY <1>1, <1>4, <2>2 DEF CapsInv, WarmedIsKnown
  <2> QED
    BY <2>3, <2>4 DEF CapsInv
<1> QED
  BY <1>3, <1>4 DEF Fetch

\* Writing the mirror disturbs nobody's memory.
LEMMA MirrorKeeps ==
  ASSUME CapsInv, NEW u \in Urls, Mirror(u)
  PROVE  CapsInv'
<1>1. /\ publishes \subseteq Urls /\ warm_started \subseteq Urls /\ CapsTypeOK
      /\ memory \in Entries /\ disk \in Entries /\ tmp \in TmpFile
      /\ warmer \in [Urls -> WarmerState] /\ warmer[u] \in WarmerState
      /\ agings \in 0..MaxAgings /\ capsFaults \in 0..MaxCapsFaults
  BY CapsTypes DEF CapsInv
<1>2. UNCHANGED <<publishes, memory, warm_started, agings, capsFaults>> /\ warmer[u].pc # "fetch"
  BY DEF Mirror
<1>3. warmer[u].data \in Entries /\ tmp.data \in Entries
  BY <1>1 DEF WarmerState, TmpFile
<1>4. ASSUME NEW c \in WarmerState, warmer' = [warmer EXCEPT ![u] = c]
      PROVE  warmer' \in [Urls -> WarmerState] /\ \A v \in Urls : v # u => warmer'[v] = warmer[v]
  BY <1>1, <1>4
<1>5. /\ warmer' \in [Urls -> WarmerState] /\ \A v \in Urls : v # u => warmer'[v] = warmer[v]
      /\ disk' \in Entries /\ tmp' \in TmpFile
  <2>1. CASE /\ warmer' = [warmer EXCEPT ![u] = [pc |-> "open", data |-> [disk EXCEPT ![u] = "fresh"]]]
             /\ UNCHANGED <<disk, tmp>>
    <3>1. [disk EXCEPT ![u] = "fresh"] \in Entries
      BY <1>1 DEF Entries, Ages
    <3>2. [pc |-> "open", data |-> [disk EXCEPT ![u] = "fresh"]] \in WarmerState
      BY <3>1, CapsParts
    <3> QED
      BY <1>1, <1>4, <2>1, <3>2
  <2>2. CASE tmp' = [at |-> "torn", data |-> Nothing] /\ ThreadGoes(u, "write") /\ UNCHANGED disk
    BY <1>1, <2>2, ThreadStep, CapsParts
  <2>3. CASE tmp' = [at |-> "whole", data |-> warmer[u].data] /\ ThreadGoes(u, "replace") /\ UNCHANGED disk
    BY <1>1, <1>3, <2>3, ThreadStep, CapsParts
  <2>4. CASE /\ disk' = IF tmp.at = "none" THEN disk ELSE tmp.data
             /\ tmp' = [at |-> "none", data |-> Nothing] /\ warmer' = [warmer EXCEPT ![u] = CapsIdle]
    BY <1>1, <1>3, <1>4, <2>4, CapsParts
  <2> QED
    BY <2>1, <2>2, <2>3, <2>4 DEF Mirror
<1>6. CapsTypeOK'
  BY <1>1, <1>2, <1>5 DEF CapsTypeOK, Entries, TmpFile, WarmerState
<1>7. WarmedIsKnown'
  BY <1>1, <1>2, <1>5 DEF CapsInv, WarmedIsKnown
<1> QED
  BY <1>6, <1>7 DEF CapsInv

\* What was known is old after the time to live, and known.
LEMMA AgingKeeps ==
  ASSUME CapsInv, TimeToLivePasses
  PROVE  CapsInv'
<1>1. /\ publishes \subseteq Urls /\ warm_started \subseteq Urls
      /\ memory \in Entries /\ disk \in Entries /\ tmp \in TmpFile
      /\ warmer \in [Urls -> WarmerState]
      /\ agings \in 0..MaxAgings /\ capsFaults \in 0..MaxCapsFaults
  BY CapsTypes DEF CapsInv
<1>2. memory' \in Entries /\ disk' \in Entries /\ \A u \in Urls : memory[u] # "none" => memory'[u] # "none"
  BY <1>1, OldEntries DEF TimeToLivePasses
<1>3. tmp' \in TmpFile
  <2>1. tmp.data \in Entries /\ Old(tmp.data) \in Entries
    BY <1>1, OldEntries DEF TmpFile
  <2>2. tmp' = [tmp EXCEPT !.data = Old(tmp.data)]
    BY DEF TimeToLivePasses
  <2> QED
    BY <1>1, <2>1, <2>2 DEF TmpFile
<1>4. \A u \in Urls : [warmer[u] EXCEPT !.data = Old(warmer[u].data)] \in WarmerState
                      /\ [warmer[u] EXCEPT !.data = Old(warmer[u].data)].pc = warmer[u].pc
  <2> SUFFICES ASSUME NEW u \in Urls
               PROVE  [warmer[u] EXCEPT !.data = Old(warmer[u].data)] \in WarmerState
                      /\ [warmer[u] EXCEPT !.data = Old(warmer[u].data)].pc = warmer[u].pc
    OBVIOUS
  <2>1. warmer[u] \in WarmerState
    BY <1>1
  <2>2. Old(warmer[u].data) \in Entries
    BY <2>1, OldEntries DEF WarmerState
  <2> QED
    BY <2>1, <2>2 DEF WarmerState
<1>5. warmer' \in [Urls -> WarmerState] /\ \A u \in Urls : warmer'[u].pc = warmer[u].pc
  <2>1. warmer' = [u \in Urls |-> [warmer[u] EXCEPT !.data = Old(warmer[u].data)]]
    BY DEF TimeToLivePasses
  <2> QED
    BY <1>4, <2>1
<1>6. CapsTypeOK'
  <2>1. agings' \in 0..MaxAgings /\ UNCHANGED <<publishes, warm_started, capsFaults>>
    BY <1>1, CapsAssumption DEF TimeToLivePasses
  <2> QED
    BY <1>1, <1>2, <1>3, <1>5, <2>1 DEF CapsTypeOK, Entries, TmpFile, WarmerState
<1>7. WarmedIsKnown'
  <2>1. warm_started' = warm_started
    BY DEF TimeToLivePasses
  <2> QED
    BY <1>1, <1>2, <1>5, <2>1 DEF CapsInv, WarmedIsKnown
<1> QED
  BY <1>6, <1>7 DEF CapsInv

\* After a restart every endpoint may be warmed.
LEMMA CapsRestartKeeps ==
  ASSUME CapsInv, CapsRestart
  PROVE  CapsInv'
<1>1. /\ publishes \subseteq Urls /\ disk \in Entries /\ tmp \in TmpFile
      /\ agings \in 0..MaxAgings /\ capsFaults \in 0..MaxCapsFaults
  BY CapsTypes DEF CapsInv
<1>2. memory' \in Entries /\ warmer' \in [Urls -> WarmerState] /\ warm_started' = {}
      /\ UNCHANGED <<publishes, disk, tmp, agings>>
  BY CapsParts DEF CapsRestart
<1>3. capsFaults' \in 0..MaxCapsFaults
  BY <1>1, CapsAssumption DEF CapsRestart, CapsFault
<1>4. CapsTypeOK'
  BY <1>1, <1>2, <1>3 DEF CapsTypeOK, Entries, TmpFile, WarmerState
<1> QED
  BY <1>2, <1>4 DEF CapsInv, WarmedIsKnown

\* Every step keeps the invariant.
LEMMA CapsInvariance == CapsSpec => []CapsInv
<1>1. CapsInit => CapsInv
  <2> SUFFICES ASSUME CapsInit PROVE CapsInv
    OBVIOUS
  <2>1. memory \in Entries /\ disk \in Entries /\ tmp \in TmpFile /\ warmer \in [Urls -> WarmerState]
    BY CapsParts DEF CapsInit
  <2>2. CapsTypeOK
    BY <2>1, CapsTypes, CapsAssumption DEF CapsInit
  <2> QED
    BY <2>2 DEF CapsInit, CapsInv, WarmedIsKnown
<1>2. CapsInv /\ [CapsNext]_capsVars => CapsInv'
  <2> SUFFICES ASSUME CapsInv, [CapsNext]_capsVars PROVE CapsInv'
    OBVIOUS
  <2>1. CASE UNCHANGED capsVars
    BY <2>1 DEF capsVars, CapsInv, CapsTypeOK, WarmedIsKnown
  <2> QED
    BY <2>1, LookupKeeps, FetchKeeps, MirrorKeeps, AgingKeeps, CapsRestartKeeps DEF CapsNext, Warms
<1> QED
  BY <1>1, <1>2, PTL DEF CapsSpec

\* An endpoint that will not be warmed again is one that answered, or is being
\* asked: a fetch that fails, or a restart, never leaves it out for good.
THEOREM WarmedIsKnownHolds == CapsSpec => []WarmedIsKnown
<1>1. CapsInv => WarmedIsKnown
  BY DEF CapsInv
<1> QED
  BY <1>1, CapsInvariance, PTL

\* Memory, the mirror and the temporary file have entries of the same form.
THEOREM CapsTypeCorrect == CapsSpec => []CapsTypeOK
<1>1. CapsInv => CapsTypeOK
  BY DEF CapsInv
<1> QED
  BY <1>1, CapsInvariance, PTL

-----------------------------------------------------------------------------
(***************************************************************************)
(* Closing. The key that is at GitHub is never one of those that are       *)
(* complete, so that what is closed stays so for the plan.                 *)
(***************************************************************************)

\* What is complete is closed, and is not asked of GitHub again.
ClosedOnce ==
  /\ \A k \in endedKeys : k.issue \notin issueOpen
  /\ closingKey \notin endedKeys

ClosingInv == ClosingTypeOK /\ NoKey \notin endedKeys /\ ClosedOnce

\* The issue that is at GitHub may be closed by the time the request ends.
LEMMA MayClose ==
  ASSUME ClosingInv, issueOpen' \in {issueOpen, issueOpen \ {closingKey.issue}}, endedKeys' = endedKeys,
         closingKey' = NoKey
  PROVE  issueOpen' \subseteq Issues /\ NoKey \notin endedKeys' /\ ClosedOnce'
BY DEF ClosingInv, ClosingTypeOK, ClosedOnce

\* A key is in the table once, whatever fails and however often the gateway stops.
LEMMA ClosingInvariance == ClosingSpec => []ClosingInv
<1>1. ClosingInit => ClosingInv
  BY ClosingAssumption DEF ClosingInit, ClosingInv, ClosingTypeOK, ClosedOnce
<1>2. ClosingInv /\ [ClosingNext]_closingVars => ClosingInv'
  <2> SUFFICES ASSUME ClosingInv, [ClosingNext]_closingVars PROVE ClosingInv'
    OBVIOUS
  <2> USE DEF ClosingInv
  <2>1. ASSUME ClosingFault PROVE closingFaults' \in 0..MaxClosingFaults
    BY <2>1, ClosingAssumption DEF ClosingFault, ClosingTypeOK
  <2>2. CASE RegistersAll \/ PlanEnds
    BY <2>2 DEF RegistersAll, PlanEnds, ClosingTypeOK, ClosedOnce
  <2>3. CASE PassBegins
    <3>1. KeysOfPass \subseteq Keys
      BY DEF KeysOfPass, Keys, Issues, ClosingTypeOK
    <3> QED
      BY <2>3, <3>1 DEF PassBegins, ClosingTypeOK, ClosedOnce
  <2>4. CASE IssueCloses
    <3>1. closingKey \in Keys /\ endedKeys' = endedKeys \union {closingKey} /\ closingKey' = NoKey
          /\ issueOpen' = issueOpen \ {closingKey.issue} /\ closingKey # NoKey
      BY <2>4 DEF IssueCloses, ClosingTypeOK
    <3>2. ClosedOnce' /\ NoKey \notin endedKeys'
      BY <3>1 DEF ClosedOnce
    <3> QED
      BY <2>4, <3>1, <3>2 DEF IssueCloses, ClosingTypeOK
  <2>5. ASSUME NEW k \in Keys, BeginsClosing(k) PROVE ClosingInv'
    BY <2>5 DEF BeginsClosing, ClosingTypeOK, ClosedOnce
  <2>6. CASE ClosingFails
    BY <2>1, <2>6, MayClose DEF ClosingFails, ClosingTypeOK
  <2>7. CASE ClosingCrash
    BY <2>1, <2>7, MayClose DEF ClosingCrash, ClosingTypeOK
  <2>8. CASE Revives
    BY <2>1, <2>8 DEF Revives, ClosingTypeOK, ClosedOnce
  <2>9. CASE UNCHANGED closingVars
    BY <2>9 DEF closingVars, ClosingTypeOK, ClosedOnce
  <2> QED
    BY <2>2, <2>3, <2>4, <2>5, <2>6, <2>7, <2>8, <2>9 DEF ClosingNext, ClosingPass
<1> QED
  BY <1>1, <1>2, PTL DEF ClosingSpec

\* The table of external actions and the issues go together: a complete key's
\* issue is closed, and no request for it is made again.
THEOREM ClosedOnceHolds == ClosingSpec => []ClosedOnce
<1>1. ClosingInv => ClosedOnce
  BY DEF ClosingInv
<1> QED
  BY <1>1, ClosingInvariance, PTL

\* The reconciler's passes are made of the keys there are.
THEOREM ClosingTypeCorrect == ClosingSpec => []ClosingTypeOK
<1>1. ClosingInv => ClosingTypeOK
  BY DEF ClosingInv
<1> QED
  BY <1>1, ClosingInvariance, PTL
=============================================================================
