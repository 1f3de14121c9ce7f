--------------------------- MODULE LunaQueue_proofs ---------------------------
(***************************************************************************)
(* For any number of plans, turns, requests and crashes, every event that  *)
(* was claimed is accounted for by one turn, every variable keeps its type *)
(* (a turn is attempted no more often than luna_max_attempts), and a       *)
(* deliverable that can be dispatched always has Luna's next turn on its   *)
(* way, unless the process died between two transactions.                  *)
(***************************************************************************)
EXTENDS LunaQueue, TLAPS

TurnRow == [plan : Plans, batch : SUBSET Event, state : TurnStates,
            attempts : Nat, due : BOOLEAN]

QueueKept ==
  /\ waiting \subseteq Event /\ ready \subseteq Event
  /\ owed \in Event \union {NoEvent} /\ promised \in Event \union {NoEvent}
  /\ task \in [Plans -> Nat]

Turned == turns \in Seq(TurnRow)

\* The thread holds a row, and a running one until the turn is retired.
Held ==
  /\ turn \in Nat
  /\ pc \in {"claimed", "capped", "thinking"} =>
       turn \in DOMAIN turns /\ turns[turn].state = "running"
  /\ pc = "finished" => turn \in DOMAIN turns

\* An event is in one place.
Apart ==
  /\ waiting \intersect ready = {}
  /\ (waiting \union ready) \intersect (claimed \union done) = {}

IInv == QueueKept /\ Turned /\ Held /\ Apart /\ EventsAccounted

-----------------------------------------------------------------------------
(* The kinds of step. *)

\* An event enters the queue.
LEMMA EnqueueKeeps ==
  ASSUME Apart, waiting \subseteq Event, ready \subseteq Event,
         NEW e \in Event, Enqueue(e)
  PROVE  /\ Apart' /\ waiting' \subseteq Event /\ ready' \subseteq Event
         /\ UNCHANGED <<claimed, done>>
<1>1. CASE UNCHANGED <<waiting, ready>>
  BY <1>1 DEF Enqueue, Apart
<1>2. CASE e \notin Known /\ e.kind # "traffic" /\ ready' = ready \union {e}
           /\ UNCHANGED waiting
  BY <1>2 DEF Enqueue, Apart, Known
<1>3. CASE /\ e \notin Known
           /\ waiting' = waiting \union {x \in ready : x.plan = e.plan} \union {e}
           /\ ready' = ready \ {x \in ready : x.plan = e.plan}
  BY <1>3 DEF Enqueue, Apart, Known
<1> QED
  BY <1>1, <1>2, <1>3 DEF Enqueue

\* The row of one turn changes in its state or its due time, and its events move
\* only if it is retired.
LEMMA RowChange ==
  ASSUME Turned, EventsAccounted, NEW i \in DOMAIN turns, NEW row \in TurnRow,
         row.plan = turns[i].plan, row.batch = turns[i].batch,
         turns' = [turns EXCEPT ![i] = row],
         \/ /\ UNCHANGED <<claimed, done>>
            /\ row.state \in Retired <=> turns[i].state \in Retired
         \/ /\ claimed' = claimed \ turns[i].batch
            /\ done' = done \union turns[i].batch
            /\ row.state \in Retired
  PROVE  /\ Turned' /\ EventsAccounted'
         /\ claimed' \union done' = claimed \union done
         /\ DOMAIN turns' = DOMAIN turns /\ turns'[i] = row
<1>1. turns' \in Seq(TurnRow) /\ DOMAIN turns' = DOMAIN turns /\ turns'[i] = row
      /\ \A j \in DOMAIN turns : j # i => turns'[j] = turns[j]
  BY DEF Turned
<1>2. \A j \in DOMAIN turns : turns'[j].plan = turns[j].plan /\ turns'[j].batch = turns[j].batch
  BY <1>1
<1>3. UNION {turns'[j].batch : j \in DOMAIN turns'} = UNION {turns[j].batch : j \in DOMAIN turns}
  BY <1>1, <1>2
<1>4. turns[i].batch \subseteq claimed \union done
  BY DEF EventsAccounted
<1>5. claimed' \union done' = claimed \union done
  BY <1>4
<1>6. \A j, k \in DOMAIN turns : j # k => turns'[j].batch \intersect turns'[k].batch = {}
  BY <1>2 DEF EventsAccounted
<1>7. ASSUME NEW j \in DOMAIN turns, NEW e \in turns[j].batch
      PROVE  e.plan = turns'[j].plan /\ (e \in done' <=> turns'[j].state \in Retired)
  <2>1. e.plan = turns[j].plan /\ (e \in done <=> turns[j].state \in Retired)
    BY <1>7 DEF EventsAccounted
  <2>2. CASE j = i
    BY <2>1, <2>2, <1>1, <1>2, <1>7
  <2>3. CASE j # i
    <3>1. e \notin turns[i].batch
      BY <2>3, <1>7 DEF EventsAccounted
    <3> QED
      BY <2>1, <2>3, <3>1, <1>1, <1>7
  <2> QED
    BY <2>2, <2>3
<1> QED
  BY <1>1, <1>2, <1>3, <1>5, <1>6, <1>7 DEF Turned, EventsAccounted

\* The queue is left alone.
LEMMA QueueUnchanged ==
  ASSUME Turned, Apart, EventsAccounted, UNCHANGED <<eventVars, turns>>
  PROVE  Turned' /\ Apart' /\ EventsAccounted'
BY DEF Turned, Apart, EventsAccounted, eventVars

\* finish_luna_turn keeps the accounts.
LEMMA RetireKeeps ==
  ASSUME IInv, pc \in {"claimed", "capped", "thinking"},
         NEW state \in Retired, Retire(state)
  PROVE  /\ Turned' /\ Apart' /\ EventsAccounted'
         /\ UNCHANGED <<waiting, ready>> /\ DOMAIN turns' = DOMAIN turns
<1> DEFINE row == [turns[turn] EXCEPT !.state = state]
<1>1. turn \in DOMAIN turns
  BY DEF IInv, Held
<1>2. turns[turn] \in TurnRow
  BY <1>1 DEF IInv, Turned
<1>3. /\ row \in TurnRow /\ row.plan = turns[turn].plan
      /\ row.batch = turns[turn].batch /\ row.state = state
  BY <1>2 DEF TurnRow, TurnStates, Retired
<1>4. turns' = [turns EXCEPT ![turn] = row]
  BY DEF Retire
<1>5. claimed' = claimed \ turns[turn].batch /\ done' = done \union turns[turn].batch
  BY DEF Retire
<1> HIDE DEF row
<1>6. /\ Turned' /\ EventsAccounted' /\ claimed' \union done' = claimed \union done
      /\ DOMAIN turns' = DOMAIN turns
  BY <1>1, <1>3, <1>4, <1>5, RowChange DEF IInv
<1>7. Apart'
  BY <1>6 DEF IInv, Apart, Retire
<1> QED
  BY <1>6, <1>7 DEF Retire

-----------------------------------------------------------------------------
(* The steps. *)

\* Claims: a replay changes a row, a new turn takes events that no turn holds.
LEMMA ClaimReplayKeeps ==
  ASSUME IInv, ClaimReplay
  PROVE  IInv'
<1>1. PICK i \in Replayable :
        /\ turn' = i
        /\ turns' = [turns EXCEPT ![i].state = "running", ![i].attempts = @ + 1]
  BY DEF ClaimReplay
<1> DEFINE row == [turns[i] EXCEPT !.state = "running", !.attempts = @ + 1]
<1>2. i \in DOMAIN turns /\ turns[i].state = "pending" /\ turns[i] \in TurnRow /\ i \in Nat
  BY DEF Replayable, IInv, Turned
<1>3. /\ row \in TurnRow /\ row.plan = turns[i].plan
      /\ row.batch = turns[i].batch /\ row.state = "running"
  <2>1. turns[i].attempts + 1 \in Nat
    BY <1>2 DEF TurnRow
  <2>2. row = [turns[i] EXCEPT !.state = "running", !.attempts = turns[i].attempts + 1]
    BY <1>2 DEF TurnRow
  <2> QED
    BY <1>2, <2>1, <2>2 DEF TurnRow, TurnStates
<1>4. turns' = [turns EXCEPT ![i] = row]
  BY <1>1
<1>5. UNCHANGED <<waiting, ready, claimed, done>> /\ pc' = "claimed"
  BY DEF ClaimReplay, eventVars
<1> HIDE DEF row
<1>6. row.state \in Retired <=> turns[i].state \in Retired
  BY <1>2, <1>3 DEF Retired
<1>7. Turned' /\ EventsAccounted' /\ DOMAIN turns' = DOMAIN turns /\ turns'[i] = row
  BY <1>2, <1>3, <1>4, <1>5, <1>6, RowChange DEF IInv
<1>8. Held'
  BY <1>1, <1>2, <1>3, <1>5, <1>7 DEF Held
<1>9. Apart' /\ QueueKept'
  BY <1>5 DEF IInv, Apart, QueueKept, ClaimReplay, planVars, ownerVars
<1> QED
  BY <1>7, <1>8, <1>9 DEF IInv

\* A batch that is claimed moves from the queue to a turn as a whole.
LEMMA ClaimNewKeeps ==
  ASSUME IInv, ClaimNew
  PROVE  IInv'
<1>1. PICK p \in Plans, batch \in SUBSET ready :
        /\ \A e \in batch : e.plan = p
        /\ ready' = ready \ batch /\ claimed' = claimed \union batch
        /\ turns' = Append(turns, [plan |-> p, batch |-> batch, state |-> "running",
                                   attempts |-> 1, due |-> FALSE])
  BY DEF ClaimNew, kSubset
<1> DEFINE row == [plan |-> p, batch |-> batch, state |-> "running",
                   attempts |-> 1, due |-> FALSE]
<1> DEFINE n == Len(turns) + 1
<1>2. row \in TurnRow
  BY DEF TurnRow, TurnStates, IInv, QueueKept
<1>3. row.plan = p /\ row.batch = batch /\ row.state = "running"
  OBVIOUS
<1>4. turns' = Append(turns, row)
  BY <1>1
<1>5. UNCHANGED <<waiting, done>> /\ pc' = "claimed" /\ turn' = Len(turns')
  BY DEF ClaimNew
<1> HIDE DEF row
<1>6. /\ turns' \in Seq(TurnRow) /\ Len(turns') = n /\ n \in Nat
      /\ DOMAIN turns' = DOMAIN turns \union {n} /\ n \notin DOMAIN turns
      /\ turns'[n] = row /\ \A j \in DOMAIN turns : turns'[j] = turns[j]
  <2>1. turns \in Seq(TurnRow)
    BY DEF IInv, Turned
  <2> QED
    BY <2>1, <1>2, <1>4
<1> HIDE DEF n
<1>7. batch \intersect (claimed \union done) = {} /\ batch \subseteq ready
  BY DEF IInv, Apart
<1>8. EventsAccounted'
  <2>1. claimed' \union done' = UNION {turns'[j].batch : j \in DOMAIN turns'}
    <3>1. claimed' \union done' = batch \union UNION {turns[j].batch : j \in DOMAIN turns}
      BY <1>1, <1>5 DEF IInv, EventsAccounted
    <3>2. UNION {turns'[j].batch : j \in DOMAIN turns'}
            = turns'[n].batch \union UNION {turns'[j].batch : j \in DOMAIN turns}
      BY <1>6
    <3>3. UNION {turns'[j].batch : j \in DOMAIN turns} = UNION {turns[j].batch : j \in DOMAIN turns}
      BY <1>6
    <3> QED
      BY <3>1, <3>2, <3>3, <1>3, <1>6
  <2>2. \A j \in DOMAIN turns : turns[j].batch \intersect batch = {}
    BY <1>7 DEF IInv, EventsAccounted
  <2>3. \A j, k \in DOMAIN turns' : j # k => turns'[j].batch \intersect turns'[k].batch = {}
    BY <2>2, <1>3, <1>6 DEF IInv, EventsAccounted
  <2>4. ASSUME NEW j \in DOMAIN turns', NEW e \in turns'[j].batch
        PROVE  e.plan = turns'[j].plan /\ (e \in done' <=> turns'[j].state \in Retired)
    <3>1. CASE j = n
      BY <3>1, <2>4, <1>1, <1>3, <1>5, <1>6, <1>7 DEF Retired
    <3>2. CASE j \in DOMAIN turns
      BY <3>2, <2>4, <1>5, <1>6 DEF IInv, EventsAccounted
    <3> QED
      BY <3>1, <3>2, <1>6
  <2> QED
    BY <2>1, <2>3, <2>4 DEF EventsAccounted
<1>9. Turned' /\ Held'
  BY <1>3, <1>5, <1>6 DEF Turned, Held
<1>10. Apart' /\ QueueKept'
  BY <1>1, <1>5, <1>7 DEF IInv, Apart, QueueKept, ClaimNew, planVars, ownerVars
<1> QED
  BY <1>8, <1>9, <1>10 DEF IInv

\* The retired turn is the thread's no more.
LEMMA RetiringKeeps ==
  ASSUME IInv, Skip \/ RetireCapped \/ Finish
  PROVE  IInv'
<1>1. /\ pc \in {"claimed", "capped", "thinking"}
      /\ \E state \in Retired : Retire(state)
      /\ UNCHANGED <<task, owed, promised>>
      /\ \/ pc' = "finished" /\ turn' = turn
         \/ pc' = "idle" /\ turn' = 0
  BY DEF Skip, RetireCapped, Finish, Retired, ToLoop, planVars, ownerVars
<1>2. /\ Turned' /\ Apart' /\ EventsAccounted'
      /\ UNCHANGED <<waiting, ready>> /\ DOMAIN turns' = DOMAIN turns
  BY <1>1, RetireKeeps
<1>3. Held'
  BY <1>1, <1>2 DEF IInv, Held
<1>4. QueueKept'
  BY <1>1, <1>2 DEF IInv, QueueKept
<1> QED
  BY <1>2, <1>3, <1>4 DEF IInv

\* fail_luna_turn leaves the events with the turn: it is replayed or given up.
LEMMA FailKeeps ==
  ASSUME IInv, Fail
  PROVE  IInv'
<1>1. turn \in DOMAIN turns /\ turns[turn].state = "running" /\ turns[turn] \in TurnRow
  BY DEF IInv, Held, Turned, Fail
<1>2. /\ UNCHANGED <<waiting, ready, claimed, done, task, owed, promised>>
      /\ pc' = "idle" /\ turn' = 0
  BY DEF Fail, ToLoop, eventVars, ownerVars
<1>3. Turned' /\ EventsAccounted'
  <2>1. CASE turns' = [turns EXCEPT ![turn].state = "pending", ![turn].due = FALSE]
    <3> DEFINE row == [turns[turn] EXCEPT !.state = "pending", !.due = FALSE]
    <3>1. /\ row \in TurnRow /\ row.plan = turns[turn].plan
          /\ row.batch = turns[turn].batch /\ row.state = "pending"
      BY <1>1 DEF TurnRow, TurnStates
    <3>2. turns' = [turns EXCEPT ![turn] = row]
      BY <2>1
    <3> HIDE DEF row
    <3>3. row.state \in Retired <=> turns[turn].state \in Retired
      BY <1>1, <3>1 DEF Retired
    <3> QED
      BY <1>1, <1>2, <3>1, <3>2, <3>3, RowChange DEF IInv
  <2>2. CASE turns' = [turns EXCEPT ![turn].state = "failed"]
    <3> DEFINE row == [turns[turn] EXCEPT !.state = "failed"]
    <3>1. /\ row \in TurnRow /\ row.plan = turns[turn].plan
          /\ row.batch = turns[turn].batch /\ row.state = "failed"
      BY <1>1 DEF TurnRow, TurnStates
    <3>2. turns' = [turns EXCEPT ![turn] = row]
      BY <2>2
    <3> HIDE DEF row
    <3>3. row.state \in Retired <=> turns[turn].state \in Retired
      BY <1>1, <3>1 DEF Retired
    <3> QED
      BY <1>1, <1>2, <3>1, <3>2, <3>3, RowChange DEF IInv
  <2> QED
    BY <2>1, <2>2 DEF Fail
<1>4. Apart' /\ QueueKept'
  BY <1>2 DEF IInv, Apart, QueueKept
<1>5. Held'
  BY <1>2 DEF Held
<1> QED
  BY <1>3, <1>4, <1>5 DEF IInv

\* Time moves events from one half of the queue to the other, and ends delays.
LEMMA ClockKeeps ==
  ASSUME IInv, Clock
  PROVE  IInv'
<1>1. ASSUME NEW p \in Plans, Mature(p) PROVE IInv'
  <2>1. QueueKept' /\ Turned' /\ Held'
    BY <1>1 DEF IInv, Mature, QueueKept, Turned, Held, planVars, ownerVars
  <2>2. Apart'
    BY <1>1 DEF IInv, Mature, Apart
  <2>3. EventsAccounted'
    BY <1>1 DEF IInv, Mature, EventsAccounted
  <2> QED
    BY <2>1, <2>2, <2>3 DEF IInv
<1>2. ASSUME NEW i \in DOMAIN turns, ComeDue(i) PROVE IInv'
  <2> DEFINE row == [turns[i] EXCEPT !.due = TRUE]
  <2>1. turns[i] \in TurnRow
    BY DEF IInv, Turned
  <2>2. /\ row \in TurnRow /\ row.plan = turns[i].plan
        /\ row.batch = turns[i].batch /\ row.state = turns[i].state
    BY <2>1 DEF TurnRow
  <2>3. /\ turns' = [turns EXCEPT ![i] = row]
        /\ UNCHANGED <<waiting, ready, claimed, done, task, pc, turn, owed, promised>>
    BY <1>2 DEF ComeDue, eventVars, planVars, ownerVars
  <2> HIDE DEF row
  <2>4. /\ Turned' /\ EventsAccounted'
        /\ DOMAIN turns' = DOMAIN turns /\ turns'[i] = row
    BY <2>2, <2>3, RowChange DEF IInv
  <2>5. \A j \in DOMAIN turns : turns'[j].state = turns[j].state
    BY <2>2, <2>3, <2>4 DEF IInv, Turned
  <2>6. Held'
    BY <2>3, <2>4, <2>5 DEF IInv, Held
  <2>7. Apart' /\ QueueKept'
    BY <2>3 DEF IInv, Apart, QueueKept
  <2> QED
    BY <2>4, <2>6, <2>7 DEF IInv
<1> QED
  BY <1>1, <1>2 DEF Clock

\* An event that the thread owes, a command promised or a webhook brings is queued.
LEMMA ReportingKeeps ==
  ASSUME IInv, Report \/ Deliver \/ \E p \in Plans : Traffic(p)
  PROVE  IInv'
<1>1. /\ UNCHANGED <<turns, task, turn>>
      /\ pc' = pc \/ pc' = "idle"
      /\ owed' \in Event \union {NoEvent} /\ promised' \in Event \union {NoEvent}
  BY DEF Report, Deliver, Traffic, planVars, ownerVars, IInv, QueueKept
<1>2. UNCHANGED eventVars \/ \E e \in Event : Enqueue(e)
  <2>1. CASE Report
    BY <2>1 DEF Report, IInv, QueueKept
  <2>2. CASE Deliver
    BY <2>2 DEF Deliver, IInv, QueueKept
  <2>3. CASE \E p \in Plans : Traffic(p)
    <3>1. \A p \in Plans, n \in 1..MaxTraffic :
            [kind |-> "traffic", plan |-> p, n |-> n] \in Event
      BY QueueAssumption DEF Event, Kinds
    <3> QED
      BY <2>3, <3>1 DEF Traffic
  <2> QED
    BY <2>1, <2>2, <2>3
<1>3. /\ Apart' /\ waiting' \subseteq Event /\ ready' \subseteq Event
      /\ UNCHANGED <<claimed, done>>
  BY <1>2, EnqueueKeeps DEF IInv, QueueKept, Apart, eventVars
<1>4. EventsAccounted' /\ Turned'
  BY <1>1, <1>3 DEF IInv, EventsAccounted, Turned
<1>5. QueueKept' /\ Held'
  BY <1>1, <1>3 DEF IInv, QueueKept, Held
<1> QED
  BY <1>3, <1>4, <1>5 DEF IInv

\* What else the thread does moves no event: it may owe one.
LEMMA ThreadKeeps ==
  ASSUME IInv,
         \/ ReachCap \/ Begin \/ Dispatch \/ Retry \/ AskOwner \/ Continue
         \/ \E p \in Plans : Settle(p) \/ Recover(p)
  PROVE  IInv'
<1>1. UNCHANGED <<eventVars, turns, promised>>
  BY DEF ReachCap, Begin, Dispatch, Retry, AskOwner, Continue, Settle, Recover, ownerVars
<1>2. Turned' /\ Apart' /\ EventsAccounted'
  BY <1>1, QueueUnchanged DEF IInv
<1>3. task' \in [Plans -> Nat]
  BY QueueAssumption DEF IInv, QueueKept, planVars, ReachCap, Begin, Dispatch, Retry, AskOwner,
                         Continue, Settle, Recover
<1>4. owed' \in Event \union {NoEvent}
  <2>1. CASE UNCHANGED owed
    BY <2>1 DEF IInv, QueueKept
  <2>2. CASE Continue
    <3>1. ThePlan \in Plans /\ turn \in Nat
      <4>1. turn \in DOMAIN turns /\ turn \in Nat
        BY <2>2 DEF Continue, IInv, Held
      <4>2. turns[turn] \in TurnRow
        BY <4>1 DEF IInv, Turned
      <4> QED
        BY <4>1, <4>2 DEF ThePlan, TurnRow
    <3>2. [kind |-> "continue", plan |-> ThePlan, n |-> turn] \in Event
      BY <3>1 DEF Event, Kinds
    <3> QED
      BY <2>2, <3>2 DEF Continue
  <2>3. CASE \E p \in Plans : Settle(p) \/ Recover(p)
    <3>1. \A p \in Plans, kind \in {"merged", "failed", "recover"} :
            [kind |-> kind, plan |-> p, n |-> task[p]] \in Event
      BY DEF Event, Kinds, IInv, QueueKept
    <3> QED
      BY <2>3, <3>1 DEF Settle, Recover
  <2> QED
    BY <2>1, <2>2, <2>3 DEF ReachCap, Begin, Dispatch, Retry, AskOwner
<1>5. QueueKept'
  BY <1>1, <1>3, <1>4 DEF IInv, QueueKept, eventVars
<1>6. Held'
  BY <1>1 DEF IInv, Held, ReachCap, Begin, Dispatch, Retry, AskOwner, Continue, Settle, Recover
<1> QED
  BY <1>2, <1>5, <1>6 DEF IInv

\* A command promises an event; a pause and a crash take it back or leave it.
LEMMA CommandKeeps ==
  ASSUME IInv,
         Crash \/ \E p \in Plans : Instruct(p) \/ Cancel(p) \/ Pause(p) \/ Resume(p)
  PROVE  IInv'
<1>1. /\ UNCHANGED <<eventVars, turns, task>>
      /\ \/ UNCHANGED <<pc, turn>>
         \/ pc' = "idle" /\ turn' = 0
      /\ owed' = owed \/ owed' = NoEvent
  BY DEF Crash, ToLoop, Instruct, Cancel, Pause, Resume, Command, planVars
<1>2. Turned' /\ Apart' /\ EventsAccounted'
  BY <1>1, QueueUnchanged DEF IInv
<1>3. promised' \in Event \union {NoEvent}
  <2>1. \A p \in Plans, n \in 1..MaxTraffic : [kind |-> "owner", plan |-> p, n |-> n] \in Event
    BY QueueAssumption DEF Event, Kinds
  <2> QED
    BY <2>1 DEF Crash, Instruct, Cancel, Pause, Resume, Command, IInv, QueueKept
<1>4. QueueKept' /\ Held'
  BY <1>1, <1>3 DEF IInv, QueueKept, Held, eventVars
<1> QED
  BY <1>2, <1>4 DEF IInv

-----------------------------------------------------------------------------
\* Every step keeps the invariant.
LEMMA Invariance == Spec => []IInv
<1>1. Init => IInv
  <2> SUFFICES ASSUME Init PROVE IInv
    OBVIOUS
  <2>1. QueueKept /\ Turned /\ Held
    BY DEF Init, QueueKept, Turned, Held
  <2>2. Apart /\ EventsAccounted
    BY DEF Init, Apart, EventsAccounted
  <2> QED
    BY <2>1, <2>2 DEF IInv
<1>2. IInv /\ [Next]_vars => IInv'
  <2> SUFFICES ASSUME IInv, [Next]_vars PROVE IInv'
    OBVIOUS
  <2>1. CASE Claim
    BY <2>1, ClaimReplayKeeps, ClaimNewKeeps DEF Claim
  <2>2. CASE Turn
    BY <2>2, RetiringKeeps, FailKeeps, ThreadKeeps DEF Turn
  <2>3. CASE Clock
    BY <2>3, ClockKeeps
  <2>4. CASE Report \/ Requests \/ Crash \/ \E p \in Plans : Settle(p) \/ Recover(p)
    BY <2>4, ReportingKeeps, ThreadKeeps, CommandKeeps DEF Requests
  <2>5. CASE UNCHANGED vars
    <3>1. Turned' /\ Apart' /\ EventsAccounted'
      BY <2>5, QueueUnchanged DEF vars, IInv
    <3>2. QueueKept' /\ Held'
      BY <2>5 DEF vars, eventVars, planVars, ownerVars, IInv, QueueKept, Held
    <3> QED
      BY <3>1, <3>2 DEF IInv
  <2> QED
    BY <2>1, <2>2, <2>3, <2>4, <2>5 DEF Next
<1> QED
  BY <1>1, <1>2, PTL DEF Spec

\* However turns end, are replayed, backed off or interrupted, an event that was
\* claimed is in one turn, and is processed exactly when that turn is retired.
THEOREM EventsAccountedHolds == Spec => []EventsAccounted
<1>1. IInv => EventsAccounted
  BY DEF IInv
<1> QED
  BY <1>1, Invariance, PTL

-----------------------------------------------------------------------------
(* The types.  A turn that waits for its replay has an attempt left, and a *)
(* paused plan has a state to go back to.                                  *)

TypedRow == [plan : Plans, batch : SUBSET Event, state : TurnStates,
             attempts : 1..MaxAttempt, due : BOOLEAN]
PlanStates == {"open", "paused", "needs_input", "failed", "closed"}
WorkStates == {"pending", "running", "failed", "merged"}
Steps == {"idle", "reporting", "claimed", "capped", "thinking", "finished"}

Rows ==
  /\ turns \in Seq(TypedRow)
  /\ \A i \in DOMAIN turns : turns[i].state = "pending" => turns[i].attempts < MaxAttempt

PlansTyped ==
  /\ plan \in [Plans -> PlanStates] /\ work \in [Plans -> WorkStates]
  /\ task \in [Plans -> 1..MaxTask]
  /\ previous \in [Plans -> (PlanStates \ {"paused"}) \union {"none"}]
  /\ \A p \in Plans : plan[p] = "paused" => previous[p] # "none"

ThreadTyped ==
  /\ pc \in Steps /\ turn \in 0..Len(turns) /\ allowed \in BOOLEAN /\ crashes \in 0..MaxCrash

QueueTypes == Rows /\ PlansTyped /\ ThreadTyped

\* A row changes, into one of its type.
LEMMA RowTyped ==
  ASSUME Rows, NEW i \in DOMAIN turns, NEW row \in TypedRow,
         row.state = "pending" => row.attempts < MaxAttempt,
         turns' = [turns EXCEPT ![i] = row]
  PROVE  Rows' /\ Len(turns') = Len(turns)
<1>1. turns' \in Seq(TypedRow) /\ DOMAIN turns' = DOMAIN turns /\ Len(turns') = Len(turns)
  BY DEF Rows
<1>2. \A j \in DOMAIN turns : turns'[j] = IF j = i THEN row ELSE turns[j]
  BY DEF Rows
<1> QED
  BY <1>1, <1>2 DEF Rows

\* A turn ends, or goes back to the queue with an attempt left.
LEMMA RowsStep ==
  ASSUME IInv, Rows, ThreadTyped, [Next]_vars
  PROVE  Rows' /\ turn' \in 0..Len(turns')
<1>0. turn \in 0..Len(turns) /\ Len(turns) \in Nat
  BY DEF ThreadTyped
<1>1. CASE UNCHANGED turns /\ (turn' = turn \/ turn' = 0)
  BY <1>0, <1>1 DEF Rows
<1>2. ASSUME NEW state \in Retired, Retire(state), turn \in DOMAIN turns
      PROVE  Rows' /\ Len(turns') = Len(turns)
  <2> DEFINE row == [turns[turn] EXCEPT !.state = state]
  <2>1. turns[turn] \in TypedRow
    BY <1>2 DEF Rows
  <2>2. row \in TypedRow /\ row.state # "pending"
    BY <1>2, <2>1 DEF TypedRow, TurnStates, Retired
  <2>3. turns' = [turns EXCEPT ![turn] = row]
    BY <1>2 DEF Retire
  <2> HIDE DEF row
  <2> QED
    BY <1>2, <2>2, <2>3, RowTyped
<1>3. CASE Skip \/ RetireCapped \/ Finish
  <2>1. turn \in DOMAIN turns /\ (turn' = 0 \/ turn' = turn)
    BY <1>3 DEF Skip, RetireCapped, Finish, IInv, Held, ToLoop
  <2>2. \E state \in Retired : Retire(state)
    BY <1>3 DEF Skip, RetireCapped, Finish, Retired
  <2> QED
    BY <1>0, <1>2, <2>1, <2>2
<1>4. CASE Fail
  <2>1. turn \in DOMAIN turns /\ turns[turn] \in TypedRow /\ turn' = 0
    BY <1>4 DEF Fail, IInv, Held, ToLoop, Rows
  <2>2. CASE /\ turns[turn].attempts < MaxAttempt
             /\ turns' = [turns EXCEPT ![turn].state = "pending", ![turn].due = FALSE]
    <3> DEFINE row == [turns[turn] EXCEPT !.state = "pending", !.due = FALSE]
    <3>1. row \in TypedRow /\ row.attempts < MaxAttempt
      BY <2>1, <2>2 DEF TypedRow, TurnStates
    <3>2. turns' = [turns EXCEPT ![turn] = row]
      BY <2>2
    <3> HIDE DEF row
    <3>3. Rows' /\ Len(turns') = Len(turns)
      BY <2>1, <3>1, <3>2, RowTyped
    <3> QED
      BY <1>0, <2>1, <3>3
  <2>3. CASE turns' = [turns EXCEPT ![turn].state = "failed"]
    <3> DEFINE row == [turns[turn] EXCEPT !.state = "failed"]
    <3>1. row \in TypedRow /\ row.state # "pending"
      BY <2>1, <2>3 DEF TypedRow, TurnStates
    <3>2. turns' = [turns EXCEPT ![turn] = row]
      BY <2>3
    <3> HIDE DEF row
    <3>3. Rows' /\ Len(turns') = Len(turns)
      BY <2>1, <3>1, <3>2, RowTyped
    <3> QED
      BY <1>0, <2>1, <3>3
  <2> QED
    BY <1>4, <2>2, <2>3 DEF Fail
<1>5. ASSUME NEW i \in DOMAIN turns, ComeDue(i) PROVE Rows' /\ turn' \in 0..Len(turns')
  <2> DEFINE row == [turns[i] EXCEPT !.due = TRUE]
  <2>1. turns[i] \in TypedRow /\ (turns[i].state = "pending" => turns[i].attempts < MaxAttempt)
    BY DEF Rows
  <2>2. row \in TypedRow /\ row.state = turns[i].state /\ row.attempts = turns[i].attempts
    BY <2>1 DEF TypedRow
  <2>3. turns' = [turns EXCEPT ![i] = row] /\ turn' = turn
    BY <1>5 DEF ComeDue
  <2> HIDE DEF row
  <2> QED
    BY <1>0, <2>1, <2>2, <2>3, RowTyped
<1>6. CASE ClaimReplay
  <2>1. PICK i \in Replayable :
          turn' = i /\ turns' = [turns EXCEPT ![i].state = "running", ![i].attempts = @ + 1]
    BY <1>6 DEF ClaimReplay
  <2> DEFINE row == [turns[i] EXCEPT !.state = "running", !.attempts = @ + 1]
  <2>2. i \in DOMAIN turns /\ turns[i] \in TypedRow /\ turns[i].attempts < MaxAttempt
    BY DEF Replayable, Rows
  <2>3. turns[i].attempts + 1 \in 1..MaxAttempt
    BY <2>2, QueueAssumption DEF TypedRow
  <2>4. row \in TypedRow /\ row.state = "running"
    BY <2>2, <2>3 DEF TypedRow, TurnStates
  <2>5. turns' = [turns EXCEPT ![i] = row]
    BY <2>1
  <2> HIDE DEF row
  <2>6. Rows' /\ Len(turns') = Len(turns)
    BY <2>2, <2>4, <2>5, RowTyped
  <2> QED
    BY <2>1, <2>6 DEF Rows
<1>7. CASE ClaimNew
  <2>1. PICK p \in Plans, batch \in SUBSET ready :
          turns' = Append(turns, [plan |-> p, batch |-> batch, state |-> "running",
                                  attempts |-> 1, due |-> FALSE])
    BY <1>7 DEF ClaimNew, kSubset
  <2> DEFINE row == [plan |-> p, batch |-> batch, state |-> "running", attempts |-> 1, due |-> FALSE]
  <2>2. row \in TypedRow /\ row.state = "running"
    BY QueueAssumption DEF TypedRow, TurnStates, IInv, QueueKept
  <2>3. turns' = Append(turns, row) /\ turn' = Len(turns')
    BY <1>7, <2>1 DEF ClaimNew
  <2> HIDE DEF row
  <2>4. turns' \in Seq(TypedRow) /\ Len(turns') = Len(turns) + 1
    BY <2>2, <2>3 DEF Rows
  <2>5. \A j \in DOMAIN turns' : turns'[j] = row \/ (j \in DOMAIN turns /\ turns'[j] = turns[j])
    BY <2>2, <2>3 DEF Rows
  <2> QED
    BY <2>2, <2>3, <2>4, <2>5 DEF Rows
<1>8. CASE \/ ReachCap \/ Begin \/ Dispatch \/ Retry \/ AskOwner \/ Continue \/ Report \/ Requests \/ Crash
           \/ \E p \in Plans : Settle(p) \/ Recover(p) \/ Mature(p)
  <2>1. UNCHANGED turns /\ (turn' = turn \/ turn' = 0)
    BY <1>8 DEF ReachCap, Begin, Dispatch, Retry, AskOwner, Continue, Report, Requests, Crash, Settle, Recover,
       Mature, Traffic, Instruct, Cancel, Pause, Resume, Deliver, Command, ToLoop
  <2> QED
    BY <1>1, <2>1
<1>9. CASE UNCHANGED vars
  BY <1>1, <1>9 DEF vars
<1> QED
  BY <1>3, <1>4, <1>5, <1>6, <1>7, <1>8, <1>9 DEF Next, Claim, Turn, Clock

\* Plans and deliverables keep to their states.
LEMMA PlansStep ==
  ASSUME IInv, PlansTyped, [Next]_vars
  PROVE  PlansTyped'
<1>1. CASE UNCHANGED <<planVars, previous>>
  BY <1>1 DEF PlansTyped, planVars
<1>2. ASSUME pc \in {"claimed", "capped", "thinking", "finished"} PROVE ThePlan \in Plans
  <2>1. turns[turn] \in TurnRow
    BY <1>2 DEF IInv, Held, Turned
  <2> QED
    BY <2>1 DEF TurnRow, ThePlan
<1>3. CASE ReachCap \/ Dispatch \/ Retry \/ AskOwner
  BY <1>2, <1>3, QueueAssumption DEF PlansTyped, PlanStates, WorkStates, ReachCap, Dispatch, Retry, AskOwner, ownerVars
<1>4. CASE Fail
  BY <1>1, <1>2, <1>4 DEF PlansTyped, PlanStates, WorkStates, Fail, planVars, ownerVars
<1>5. CASE \E p \in Plans : Settle(p)
  BY <1>5, QueueAssumption DEF PlansTyped, PlanStates, WorkStates, Settle, ownerVars
<1>6. CASE \E p \in Plans : Instruct(p) \/ Cancel(p) \/ Pause(p) \/ Resume(p)
  BY <1>6 DEF PlansTyped, PlanStates, WorkStates, Instruct, Cancel, Pause, Resume, Command
<1>7. CASE \/ Claim \/ Skip \/ RetireCapped \/ Begin \/ Finish \/ Continue \/ Report \/ Clock \/ Deliver \/ Crash
           \/ \E p \in Plans : Recover(p) \/ Traffic(p)
  <2>1. UNCHANGED <<planVars, previous>>
    BY <1>7 DEF Claim, ClaimReplay, ClaimNew, Skip, RetireCapped, Begin, Finish, Continue, Report, Clock, Mature,
       ComeDue, Deliver, Crash, Recover, Traffic, ownerVars, planVars
  <2> QED
    BY <1>1, <2>1
<1>8. CASE UNCHANGED vars
  BY <1>1, <1>8 DEF vars, ownerVars
<1> QED
  BY <1>3, <1>4, <1>5, <1>6, <1>7, <1>8 DEF Next, Turn, Requests

\* Luna's thread keeps to its steps, and to a turn there is.
LEMMA LunaThreadStep ==
  ASSUME IInv, ThreadTyped, Rows, [Next]_vars
  PROVE  ThreadTyped'
<1>1. turn' \in 0..Len(turns')
  BY RowsStep
<1>2. pc' \in Steps
  BY DEF ThreadTyped, Steps, Next, Claim, ClaimReplay, ClaimNew, Turn, Skip, ReachCap, RetireCapped, Begin, Dispatch,
     Retry, AskOwner, Finish, Continue, Fail, Report, Clock, Mature, ComeDue, Requests, Traffic, Instruct, Cancel,
     Pause, Resume, Deliver, Command, Crash, Settle, Recover, ToLoop, vars
<1>3. allowed' \in BOOLEAN
  BY DEF ThreadTyped, Next, Claim, ClaimReplay, ClaimNew, Turn, Skip, ReachCap, RetireCapped, Begin, Dispatch,
     Retry, AskOwner, Finish, Continue, Fail, Report, Clock, Mature, ComeDue, Requests, Traffic, Instruct, Cancel,
     Pause, Resume, Deliver, Command, Crash, Settle, Recover, ToLoop, vars
<1>4. crashes' \in 0..MaxCrash
  <2>1. CASE Crash
    BY <2>1, QueueAssumption DEF Crash, ThreadTyped
  <2>2. CASE ~Crash
    <3>1. UNCHANGED crashes
      BY <2>2 DEF Next, Claim, ClaimReplay, ClaimNew, Turn, Skip, ReachCap, RetireCapped, Begin, Dispatch,
         Retry, AskOwner, Finish, Continue, Fail, Report, Clock, Mature, ComeDue, Requests, Traffic, Instruct, Cancel,
         Pause, Resume, Deliver, Command, Settle, Recover, vars
    <3> QED
      BY <3>1 DEF ThreadTyped
  <2> QED
    BY <2>1, <2>2
<1> QED
  BY <1>1, <1>2, <1>3, <1>4 DEF ThreadTyped

\* The types are kept.
LEMMA QueueTyped == Spec => [](IInv /\ QueueTypes)
<1>1. Init => QueueTypes
  <2> SUFFICES ASSUME Init PROVE QueueTypes
    OBVIOUS
  <2>1. Rows
    BY DEF Init, Rows
  <2>2. PlansTyped
    BY QueueAssumption DEF Init, PlansTyped, PlanStates, WorkStates
  <2>3. turn \in 0..Len(turns)
    BY DEF Init
  <2>4. pc \in Steps /\ allowed \in BOOLEAN
    BY Zenon DEF Init, Steps
  <2>5. crashes = 0
    BY DEF Init
  <2>6. crashes \in 0..MaxCrash
    BY <2>5, QueueAssumption
  <2> QED
    BY <2>1, <2>2, <2>3, <2>4, <2>6 DEF QueueTypes, ThreadTyped
<1>2. IInv /\ QueueTypes /\ [Next]_vars => QueueTypes'
  BY RowsStep, PlansStep, LunaThreadStep DEF QueueTypes
<1> QED
  BY <1>1, <1>2, Invariance, PTL DEF Spec

\* Every variable of Luna's queue has a value the code can give it: no turn is
\* attempted more often than luna_max_attempts, and a plan that is resumed has a
\* state to go back to.
THEOREM QueueTypeCorrect == Spec => []TypeOK
<1>1. IInv /\ QueueTypes => TypeOK
  <2> SUFFICES ASSUME IInv, QueueTypes PROVE TypeOK
    OBVIOUS
  <2>1. \A i \in DOMAIN turns : turns[i].batch \subseteq Event
    <3>1. \A i \in DOMAIN turns : turns[i] \in TypedRow
      BY DEF QueueTypes, Rows
    <3> QED
      BY <3>1 DEF TypedRow
  <2>2. claimed \subseteq Event /\ done \subseteq Event
    BY <2>1 DEF IInv, EventsAccounted
  <2>3. \A events \in {waiting, ready, claimed, done} : events \subseteq Event
    BY <2>2 DEF IInv, QueueKept
  <2>4. previous \in [Plans -> {"open", "needs_input", "failed", "closed", "none"}]
    BY DEF QueueTypes, PlansTyped, PlanStates
  <2> QED
    BY <2>3, <2>4 DEF TypeOK, QueueTypes, Rows, TypedRow, PlansTyped, PlanStates, WorkStates, ThreadTyped, Steps, IInv, QueueKept
<1> QED
  BY <1>1, QueueTyped, PTL

-----------------------------------------------------------------------------
(* What wakes Luna.  The ids decide: an event that is owed or promised     *)
(* wakes nobody if its id is known.                                        *)

RecoverOf(p) == [kind |-> "recover", plan |-> p, n |-> task[p]]

\* Who owes an event is about to write it; a promised one is not in the queue.
Owes ==
  /\ owed # NoEvent => pc = "reporting"
  /\ promised # NoEvent => promised.kind = "owner" /\ promised \notin Known
  /\ pc = "finished" => turns[turn].state = "complete"
  /\ crashes \in Nat /\ DOMAIN plan = Plans /\ DOMAIN work = Plans

\* The ids that were used: of a recovery those of runs up to the present one, of a
\* continuation those of turns that are complete and over.
Used(e) ==
  /\ e.kind = "recover" => e.plan \in Plans /\ e.n <= task[e.plan]
  /\ e.kind = "continue" => e.n \in DOMAIN turns /\ turns[e.n].state = "complete" /\ e.n # turn

IdsUsed ==
  /\ \A e \in Known : Used(e)
  /\ owed # NoEvent => Used(owed) /\ owed.kind \notin {"owner", "traffic"}

\* A new event of p is queued, or promised.
Announced(p) ==
  \/ \E e \in waiting \union ready : e.plan = p
  \/ promised # NoEvent /\ promised.plan = p

HasTurn(p) == \E i \in DOMAIN turns : turns[i].plan = p /\ turns[i].state \in {"pending", "running"}

Wakes(p) ==
  \/ Announced(p)
  \/ owed # NoEvent /\ owed.plan = p /\ owed \notin Known
  \/ HasTurn(p)
  \/ pc = "finished" /\ ThePlan = p
  \/ RecoverOf(p) \notin Known

\* A turn that ends at the cap leaves a plan that the owner has brought back in
\* the meantime with the event of his command.
Waking ==
  crashes = 0 =>
    /\ \A p \in Plans : Runnable(p) => Wakes(p)
    /\ pc = "capped" /\ Runnable(ThePlan) => Announced(ThePlan)

WInv == Owes /\ IdsUsed /\ Waking

-----------------------------------------------------------------------------
(* What steps keep. *)

\* A turn keeps its plan, and one that is complete stays so.
TurnsKept ==
  \A i \in DOMAIN turns :
    /\ i \in DOMAIN turns' /\ turns'[i].plan = turns[i].plan
    /\ turns[i].state = "complete" => turns'[i].state = "complete"

\* ... and may run on.
TurnsGoOn ==
  \A i \in DOMAIN turns :
    turns[i].state \in {"pending", "running"} => turns'[i].state \in {"pending", "running"}

\* A turn that was retired or failed is one of its plan's.
OthersGoOn ==
  \A i \in DOMAIN turns : i # turn /\ turns[i].state \in {"pending", "running"} =>
    turns'[i].state \in {"pending", "running"}

\* A plan keeps its turn as long as turns go on, or those of other plans do.
LEMMA HasTurnKept ==
  ASSUME TurnsKept, NEW p \in Plans, HasTurn(p),
         TurnsGoOn \/ (OthersGoOn /\ p # turns[turn].plan)
  PROVE  HasTurn(p)'
BY DEF TurnsKept, TurnsGoOn, OthersGoOn, HasTurn

\* An id that was used stays so, as the thread takes no complete turn.
LEMMA UsedKept ==
  ASSUME QueueKept, Turned, TurnsKept, NEW e, Used(e),
         \A p \in Plans : task'[p] \in Nat /\ task[p] <= task'[p],
         \/ turn' = turn \/ turn' = 0 \/ turn' \notin DOMAIN turns
         \/ turns[turn'].state # "complete",
         e.kind = "recover" => e.n \in Nat
  PROVE  Used(e)'
<1>1. e.kind = "recover" => e.plan \in Plans /\ e.n <= task'[e.plan]
  <2> SUFFICES ASSUME e.kind = "recover" PROVE e.plan \in Plans /\ e.n <= task'[e.plan]
    OBVIOUS
  <2>1. e.plan \in Plans /\ e.n <= task[e.plan] /\ task[e.plan] \in Nat
    BY DEF Used, QueueKept
  <2> QED
    BY <2>1
<1>2. e.kind = "continue" => e.n \in DOMAIN turns' /\ turns'[e.n].state = "complete" /\ e.n # turn'
  BY DEF Used, TurnsKept, Turned
<1> QED
  BY <1>1, <1>2 DEF Used

\* What wakes Luna for a plan still does when none of it is taken away.
LEMMA WakesKept ==
  ASSUME NEW p \in Plans, Wakes(p), Known' = Known, task'[p] = task[p],
         Announced(p) => Announced(p)', HasTurn(p) => HasTurn(p)',
         owed # NoEvent => owed' = owed,
         pc = "finished" /\ ThePlan = p => pc' = "finished" /\ ThePlan' = p
  PROVE  Wakes(p)'
BY DEF Wakes, RecoverOf

\* What the queue or a turn knows of is an event.
LEMMA KnownAreEvents == ASSUME IInv PROVE Known \subseteq Event
<1>1. \A i \in DOMAIN turns : turns[i].batch \subseteq Event
  <2>1. \A i \in DOMAIN turns : turns[i] \in TurnRow
    BY DEF IInv, Turned
  <2> QED
    BY <2>1 DEF TurnRow
<1>2. UNION {turns[i].batch : i \in DOMAIN turns} \subseteq Event
  BY <1>1
<1>3. claimed \union done \subseteq Event
  BY <1>2 DEF IInv, EventsAccounted
<1> QED
  BY <1>3 DEF IInv, QueueKept, Known

\* Ids stay used and unused when the step makes no event known and ends no turn.
LEMMA IdsKept ==
  ASSUME IInv, IdsUsed, TurnsKept, Known' = Known, owed' = owed \/ owed' = NoEvent,
         \A p \in Plans : task'[p] \in Nat /\ task[p] <= task'[p],
         \/ turn' = turn \/ turn' = 0 \/ turn' \notin DOMAIN turns
         \/ turns[turn'].state # "complete"
  PROVE  IdsUsed'
<1>1. \A e \in Event : e.n \in Nat
  BY DEF Event
<1>2. \A e \in Event : Used(e) => Used(e)'
  BY <1>1, UsedKept DEF IInv
<1>3. owed # NoEvent => owed \in Event
  BY DEF IInv, QueueKept
<1> QED
  BY <1>2, <1>3, KnownAreEvents DEF IdsUsed

\* What a new turn holds, or a retired one, was known before.
LEMMA ClaimFacts ==
  ASSUME IInv, Claim
  PROVE  /\ TurnsKept /\ TurnsGoOn /\ Known' = Known
         /\ turn' \notin DOMAIN turns \/ turns[turn'].state # "complete"
         /\ \E p \in Plans : /\ HasTurn(p)'
                             /\ \A q \in Plans \ {p} : Announced(q) => Announced(q)'
<1>1. CASE ClaimReplay
  <2>1. PICK i \in Replayable :
          /\ turn' = i
          /\ turns' = [turns EXCEPT ![i].state = "running", ![i].attempts = @ + 1]
    BY <1>1 DEF ClaimReplay
  <2>2. i \in DOMAIN turns /\ turns[i].state = "pending" /\ turns[i] \in TurnRow
    BY DEF Replayable, IInv, Turned
  <2>3. /\ DOMAIN turns' = DOMAIN turns
        /\ turns'[i].state = "running" /\ turns'[i].plan = turns[i].plan
        /\ \A j \in DOMAIN turns \ {i} : turns'[j] = turns[j]
    BY <2>1, <2>2 DEF TurnRow
  <2>4. TurnsKept /\ TurnsGoOn
    BY <2>2, <2>3 DEF TurnsKept, TurnsGoOn
  <2>5. PICK p \in Plans : p = turns[i].plan
    BY <2>2 DEF TurnRow
  <2>6. UNCHANGED <<waiting, ready, claimed, done, promised>>
    BY <1>1 DEF ClaimReplay, eventVars, ownerVars
  <2>7. Known' = Known /\ \A q \in Plans : Announced(q) => Announced(q)'
    BY <2>6 DEF Known, Announced
  <2>8. HasTurn(p)'
    BY <2>2, <2>3, <2>5 DEF HasTurn
  <2>9. turns[turn'].state # "complete"
    BY <2>1, <2>2
  <2> QED
    BY <2>4, <2>7, <2>8, <2>9
<1>2. CASE ClaimNew
  <2>1. PICK p \in Plans, batch \in SUBSET ready :
          /\ \A e \in batch : e.plan = p
          /\ ready' = ready \ batch /\ claimed' = claimed \union batch
          /\ turns' = Append(turns, [plan |-> p, batch |-> batch, state |-> "running",
                                     attempts |-> 1, due |-> FALSE])
    BY <1>2 DEF ClaimNew, kSubset
  <2> DEFINE n == Len(turns) + 1
  <2>2. /\ DOMAIN turns' = DOMAIN turns \union {n} /\ n \notin DOMAIN turns
        /\ turns'[n].plan = p /\ turns'[n].state = "running" /\ Len(turns') = n
        /\ \A j \in DOMAIN turns : turns'[j] = turns[j]
    <3>1. turns \in Seq(TurnRow)
      BY DEF IInv, Turned
    <3> QED
      BY <2>1, <3>1
  <2> HIDE DEF n
  <2>3. TurnsKept /\ TurnsGoOn /\ HasTurn(p)'
    BY <2>2 DEF TurnsKept, TurnsGoOn, HasTurn
  <2>4. turn' = n /\ UNCHANGED <<waiting, done, promised>>
    BY <1>2, <2>2 DEF ClaimNew, ownerVars
  <2>5. Known' = Known
    BY <2>1, <2>4 DEF Known
  <2>6. \A q \in Plans \ {p} : Announced(q) => Announced(q)'
    BY <2>1, <2>4 DEF Announced
  <2> QED
    BY <2>2, <2>3, <2>4, <2>5, <2>6
<1> QED
  BY <1>1, <1>2 DEF Claim

\* The turn that is retired ends, and every other turn goes on.
LEMMA RetireFacts ==
  ASSUME IInv, pc \in {"claimed", "capped", "thinking"}, NEW state \in Retired, Retire(state)
  PROVE  /\ TurnsKept /\ OthersGoOn /\ Known' = Known /\ turn \in DOMAIN turns
         /\ turns'[turn].state = state /\ ThePlan \in Plans /\ turns'[turn].plan = ThePlan
         /\ UNCHANGED <<waiting, ready>>
<1>1. turn \in DOMAIN turns /\ turns[turn].state = "running" /\ turns[turn] \in TurnRow
  BY DEF IInv, Held, Turned
<1>2. /\ DOMAIN turns' = DOMAIN turns
      /\ turns'[turn].state = state /\ turns'[turn].plan = turns[turn].plan
      /\ \A j \in DOMAIN turns \ {turn} : turns'[j] = turns[j]
  BY <1>1 DEF Retire, TurnRow
<1>3. TurnsKept /\ OthersGoOn
  BY <1>1, <1>2 DEF TurnsKept, OthersGoOn
<1>4. turns[turn].batch \subseteq claimed \union done
  BY <1>1 DEF IInv, EventsAccounted
<1>5. Known' = Known
  BY <1>4 DEF Known, Retire
<1> QED
  BY <1>1, <1>2, <1>3, <1>5 DEF ThePlan, Retire, TurnRow

\* The other plans are as awake as before.
LEMMA OthersWake ==
  ASSUME IInv, Owes, NEW p \in Plans, Wakes(p), p # ThePlan, TurnsKept, OthersGoOn,
         Known' = Known, task'[p] = task[p], UNCHANGED <<waiting, ready, promised>>,
         owed # NoEvent => owed' = owed
  PROVE  Wakes(p)'
<1>1. HasTurn(p) => HasTurn(p)'
  BY HasTurnKept DEF ThePlan
<1>2. Announced(p) => Announced(p)'
  BY DEF Announced
<1> QED
  BY <1>1, <1>2, WakesKept

\* An event enters the queue: it is new there and wakes its plan, or was known.
LEMMA EnqueueFacts ==
  ASSUME NEW e \in Event, Enqueue(e)
  PROVE  /\ Known' = Known \union {e}
         /\ \A p \in Plans : (\E x \in waiting \union ready : x.plan = p) =>
                               \E x \in waiting' \union ready' : x.plan = p
         /\ e \notin Known => e \in waiting' \union ready'
<1>1. CASE e \in Known /\ UNCHANGED <<waiting, ready>>
  BY <1>1 DEF Enqueue, Known
<1>2. CASE e \notin Known /\ ready' = ready \union {e} /\ UNCHANGED waiting
  BY <1>2 DEF Enqueue, Known
<1>3. CASE /\ e \notin Known
           /\ waiting' = waiting \union {x \in ready : x.plan = e.plan} \union {e}
           /\ ready' = ready \ {x \in ready : x.plan = e.plan}
  BY <1>3 DEF Enqueue, Known
<1> QED
  BY <1>1, <1>2, <1>3 DEF Enqueue

\* While a turn is held, the plan at work is a plan.
LEMMA ThePlanIsOne ==
  ASSUME IInv, pc \in {"claimed", "capped", "thinking", "finished"}
  PROVE  turn \in DOMAIN turns /\ turns[turn] \in TurnRow /\ ThePlan \in Plans
<1>1. turn \in DOMAIN turns
  BY DEF IInv, Held
<1>2. turns[turn] \in TurnRow
  BY <1>1 DEF IInv, Turned
<1> QED
  BY <1>1, <1>2 DEF ThePlan, TurnRow

-----------------------------------------------------------------------------
(* The steps again. *)

\* A claim takes the events of a plan into a turn of that plan, which is what wakes Luna now.
LEMMA ClaimWakes ==
  ASSUME IInv, WInv, Claim
  PROVE  WInv'
<1>1. /\ UNCHANGED <<plan, task, work, owed, previous, promised, crashes>>
      /\ pc = "idle" /\ pc' = "claimed"
  BY DEF Claim, ClaimReplay, ClaimNew, planVars, ownerVars
<1>2. PICK p \in Plans : HasTurn(p)' /\ \A q \in Plans \ {p} : Announced(q) => Announced(q)'
  BY ClaimFacts
<1>3. /\ TurnsKept /\ TurnsGoOn /\ Known' = Known
      /\ turn' \notin DOMAIN turns \/ turns[turn'].state # "complete"
  BY ClaimFacts
<1>4. Owes'
  BY <1>1, <1>3 DEF WInv, Owes
<1>5. \A q \in Plans : task'[q] \in Nat /\ task[q] <= task'[q]
  BY <1>1 DEF IInv, QueueKept
<1>6. IdsUsed'
  BY <1>1, <1>3, <1>5, IdsKept DEF WInv
<1>7. ASSUME NEW q \in Plans, crashes = 0, Runnable(q)' PROVE Wakes(q)'
  <2>1. CASE q = p
    BY <2>1, <1>2 DEF Wakes
  <2>2. CASE q # p
    <3>1. Wakes(q)
      BY <1>1, <1>7 DEF WInv, Waking, Runnable
    <3>2. (Announced(q) => Announced(q)') /\ (HasTurn(q) => HasTurn(q)')
      BY <1>2, <1>3, <2>2, HasTurnKept
    <3>3. task'[q] = task[q] /\ owed' = owed /\ pc # "finished"
      BY <1>1
    <3> QED
      BY <1>3, <3>1, <3>2, <3>3, WakesKept
  <2> QED
    BY <2>1, <2>2
<1>8. Waking'
  BY <1>1, <1>7 DEF Waking
<1> QED
  BY <1>4, <1>6, <1>8 DEF WInv

\* A turn that is retired leaves a plan that Luna does not coordinate, one that was
\* announced again, or asks whether to continue.
LEMMA RetiringWakes ==
  ASSUME IInv, WInv, Skip \/ RetireCapped \/ Finish
  PROVE  WInv'
<1>1. /\ UNCHANGED <<plan, task, work, owed, previous, promised, crashes>>
      /\ \/ /\ pc = "claimed" /\ plan[ThePlan] = "closed" /\ Retire("skipped")
            /\ pc' = "idle" /\ turn' = 0
         \/ pc = "capped" /\ Retire("complete") /\ pc' = "idle" /\ turn' = 0
         \/ pc = "thinking" /\ Retire("complete") /\ pc' = "finished" /\ turn' = turn
  BY DEF Skip, RetireCapped, Finish, ToLoop, planVars, ownerVars
<1>2. /\ TurnsKept /\ OthersGoOn /\ Known' = Known /\ turn \in DOMAIN turns
      /\ ThePlan \in Plans /\ turns'[turn].plan = ThePlan
      /\ UNCHANGED <<waiting, ready>>
  BY <1>1, RetireFacts DEF Retired
<1>3. pc' = "finished" => turn' = turn /\ turns'[turn].state = "complete"
  BY <1>1, RetireFacts DEF Retired
<1>4. Owes'
  BY <1>1, <1>2, <1>3 DEF WInv, Owes
<1>5. \A q \in Plans : task'[q] \in Nat /\ task[q] <= task'[q]
  BY <1>1 DEF IInv, QueueKept
<1>6. turn' = turn \/ turn' = 0
  BY <1>1
<1>7. IdsUsed'
  BY <1>1, <1>2, <1>5, <1>6, IdsKept DEF WInv
<1>8. ASSUME NEW p \in Plans, crashes = 0, Runnable(p)' PROVE Wakes(p)'
  <2>1. Wakes(p) /\ Runnable(p)
    BY <1>1, <1>8 DEF WInv, Waking, Runnable
  <2>2. CASE p # ThePlan
    BY <2>1, <2>2, <1>1, <1>2, OthersWake DEF WInv
  <2>3. CASE p = ThePlan
    <3>1. CASE pc = "claimed"
      BY <3>1, <2>1, <2>3, <1>1 DEF Runnable
    <3>2. CASE pc = "capped"
      <4>1. Announced(p)
        BY <3>2, <2>1, <2>3, <1>8 DEF WInv, Waking
      <4>2. Announced(p)'
        BY <4>1, <1>1, <1>2 DEF Announced
      <4> QED
        BY <4>2 DEF Wakes
    <3>3. CASE pc = "thinking"
      BY <3>3, <2>3, <1>1, <1>2 DEF Wakes, ThePlan
    <3> QED
      BY <3>1, <3>2, <3>3, <1>1
  <2> QED
    BY <2>2, <2>3
<1>9. Waking'
  BY <1>1, <1>8 DEF Waking
<1> QED
  BY <1>4, <1>7, <1>9 DEF WInv

\* A failed turn comes again, or its plan is its owner's.
LEMMA FailWakes ==
  ASSUME IInv, WInv, Fail
  PROVE  WInv'
<1>1. /\ turn \in DOMAIN turns /\ turns[turn].state = "running" /\ turns[turn] \in TurnRow
      /\ ThePlan \in Plans
  <2>1. turn \in DOMAIN turns /\ turns[turn].state = "running"
    BY DEF IInv, Held, Fail
  <2>2. turns[turn] \in TurnRow
    BY <2>1 DEF IInv, Turned
  <2>3. turns[turn].plan \in Plans
    BY <2>2 DEF TurnRow
  <2> QED
    BY <2>1, <2>2, <2>3 DEF ThePlan
<1>2. /\ UNCHANGED <<waiting, ready, claimed, done, task, work, owed, promised, crashes>>
      /\ pc = "thinking" /\ pc' = "idle" /\ turn' = 0
  BY DEF Fail, ToLoop, eventVars, ownerVars
<1>3. /\ DOMAIN turns' = DOMAIN turns /\ turns'[turn].plan = turns[turn].plan
      /\ \A j \in DOMAIN turns \ {turn} : turns'[j] = turns[j]
      /\ \/ turns'[turn].state = "pending" /\ UNCHANGED plan
         \/ plan' = [plan EXCEPT ![ThePlan] =
                       IF @ \in {"closed", "failed"} THEN @ ELSE "needs_input"]
  <2>1. CASE turns' = [turns EXCEPT ![turn].state = "pending", ![turn].due = FALSE] /\ UNCHANGED plan
    BY <2>1, <1>1 DEF TurnRow
  <2>2. CASE /\ turns' = [turns EXCEPT ![turn].state = "failed"]
             /\ plan' = [plan EXCEPT ![ThePlan] =
                           IF @ \in {"closed", "failed"} THEN @ ELSE "needs_input"]
    BY <2>2, <1>1 DEF TurnRow
  <2> QED
    BY <2>1, <2>2 DEF Fail
<1>4. TurnsKept /\ OthersGoOn /\ Known' = Known
  BY <1>1, <1>2, <1>3 DEF TurnsKept, OthersGoOn, Known
<1>5. DOMAIN plan' = Plans /\ \A p \in Plans \ {ThePlan} : plan'[p] = plan[p]
  BY <1>3 DEF WInv, Owes
<1>6. Owes'
  BY <1>2, <1>4, <1>5 DEF WInv, Owes
<1>7. \A q \in Plans : task'[q] \in Nat /\ task[q] <= task'[q]
  BY <1>2 DEF IInv, QueueKept
<1>8. IdsUsed'
  BY <1>2, <1>4, <1>7, IdsKept DEF WInv
<1>9. ASSUME NEW p \in Plans, crashes = 0, Runnable(p)' PROVE Wakes(p)'
  <2>1. CASE p # ThePlan
    <3>1. Wakes(p)
      BY <2>1, <1>2, <1>5, <1>9 DEF WInv, Waking, Runnable
    <3> QED
      BY <3>1, <2>1, <1>2, <1>4, OthersWake DEF WInv
  <2>2. CASE p = ThePlan
    <3>1. CASE turns'[turn].state = "pending"
      BY <3>1, <2>2, <1>1, <1>3 DEF Wakes, HasTurn, ThePlan
    <3>2. CASE plan' = [plan EXCEPT ![ThePlan] =
                          IF @ \in {"closed", "failed"} THEN @ ELSE "needs_input"]
      <4>1. plan'[p] # "open"
        BY <3>2, <2>2 DEF WInv, Owes
      <4> QED
        BY <4>1, <1>9 DEF Runnable
    <3> QED
      BY <3>1, <3>2, <1>3
  <2> QED
    BY <2>1, <2>2
<1>10. Waking'
  BY <1>2, <1>9 DEF Waking
<1> QED
  BY <1>6, <1>8, <1>10 DEF WInv

\* The turn goes on.
LEMMA ThinkingWakes ==
  ASSUME IInv, WInv, ReachCap \/ Begin \/ Dispatch \/ Retry \/ AskOwner
  PROVE  WInv'
<1>1. /\ UNCHANGED <<waiting, ready, claimed, done, turns, turn, owed, promised, crashes>>
      /\ pc \in {"claimed", "thinking"} /\ pc' \in {"capped", "thinking"}
  BY DEF ReachCap, Begin, Dispatch, Retry, AskOwner, eventVars, ownerVars
<1>2. /\ turn \in DOMAIN turns /\ turns[turn].state = "running" /\ turns[turn] \in TurnRow
      /\ ThePlan \in Plans /\ ThePlan' = ThePlan
  <2>1. turn \in DOMAIN turns /\ turns[turn].state = "running"
    BY <1>1 DEF IInv, Held
  <2>2. turns[turn] \in TurnRow
    BY <2>1 DEF IInv, Turned
  <2>3. turns[turn].plan \in Plans
    BY <2>2 DEF TurnRow
  <2> QED
    BY <1>1, <2>1, <2>2, <2>3 DEF ThePlan
<1>3. /\ DOMAIN plan' = Plans /\ DOMAIN work' = Plans
      /\ \A p \in Plans \ {ThePlan} :
           plan'[p] = plan[p] /\ work'[p] = work[p] /\ task'[p] = task[p]
  BY DEF ReachCap, Begin, Dispatch, Retry, AskOwner, WInv, Owes, IInv, QueueKept, planVars
<1>4. pc' = "capped" => plan'[ThePlan] = "needs_input"
  BY <1>2 DEF ReachCap, Begin, Dispatch, Retry, AskOwner, WInv, Owes
<1>5. TurnsKept /\ OthersGoOn /\ Known' = Known
  BY <1>1 DEF TurnsKept, OthersGoOn, Known
<1>6. Owes'
  BY <1>1, <1>3, <1>5 DEF WInv, Owes
<1>7. \A p \in Plans : task'[p] \in Nat /\ task[p] <= task'[p]
  BY <1>2 DEF ReachCap, Begin, Dispatch, Retry, AskOwner, planVars, IInv, QueueKept
<1>8. IdsUsed'
  BY <1>1, <1>5, <1>7, IdsKept DEF WInv
<1>9. ASSUME NEW p \in Plans, crashes = 0, Runnable(p)' PROVE Wakes(p)'
  <2>1. CASE p = ThePlan
    BY <2>1, <1>1, <1>2 DEF Wakes, HasTurn, ThePlan
  <2>2. CASE p # ThePlan
    <3>1. Wakes(p)
      BY <2>2, <1>1, <1>3, <1>9 DEF WInv, Waking, Runnable
    <3> QED
      BY <3>1, <2>2, <1>1, <1>3, <1>5, OthersWake DEF WInv
  <2> QED
    BY <2>1, <2>2
<1>10. Waking'
  BY <1>1, <1>2, <1>4, <1>9 DEF Waking, Runnable
<1> QED
  BY <1>6, <1>8, <1>10 DEF WInv

\* The continuation of a turn has an id that no event had: the turn was the thread's.
LEMMA ContinueWakes ==
  ASSUME IInv, WInv, Continue
  PROVE  WInv'
<1>0. PICK e : e = [kind |-> "continue", plan |-> ThePlan, n |-> turn]
  OBVIOUS
<1>1. /\ UNCHANGED <<waiting, ready, claimed, done, turns, plan, task, work, promised, crashes>>
      /\ pc = "finished" /\ pc' = "reporting" /\ turn' = 0
      /\ owed' = IF Runnable(ThePlan) THEN e ELSE NoEvent
      /\ owed = NoEvent
  BY <1>0 DEF Continue, eventVars, planVars, ownerVars, WInv, Owes
<1>2. turn \in DOMAIN turns /\ turns[turn].state = "complete" /\ turn # 0
  BY <1>1 DEF IInv, Held, WInv, Owes, Turned
<1>3. e \notin Known /\ e # NoEvent /\ e.plan = ThePlan
  BY <1>0 DEF WInv, IdsUsed, Used, NoEvent
<1>4. TurnsKept /\ TurnsGoOn /\ OthersGoOn /\ Known' = Known
  BY <1>1 DEF TurnsKept, TurnsGoOn, OthersGoOn, Known
<1>5. Owes'
  BY <1>1, <1>4 DEF WInv, Owes
<1>6. IdsUsed'
  <2>1. \A q \in Plans : task'[q] \in Nat /\ task[q] <= task'[q]
    BY <1>1 DEF IInv, QueueKept
  <2>2. \A x \in Known : Used(x)'
    <3>1. \A x \in Event : x.n \in Nat
      BY DEF Event
    <3>2. \A x \in Known : x \in Event /\ Used(x)
      BY KnownAreEvents DEF WInv, IdsUsed
    <3> QED
      BY <3>1, <3>2, <2>1, <1>1, <1>4, UsedKept DEF IInv
  <2>3. Used(e)' /\ e.kind = "continue"
    BY <1>0, <1>1, <1>2 DEF Used
  <2> QED
    BY <2>2, <2>3, <1>1, <1>4 DEF IdsUsed
<1>7. ASSUME NEW p \in Plans, crashes = 0, Runnable(p)' PROVE Wakes(p)'
  <2>1. Wakes(p) /\ Runnable(p)
    BY <1>1, <1>7 DEF WInv, Waking, Runnable
  <2>2. CASE p = ThePlan
    BY <2>1, <2>2, <1>1, <1>3, <1>4 DEF Wakes
  <2>3. CASE p # ThePlan
    BY <2>1, <2>3, <1>1, <1>4, OthersWake DEF WInv
  <2> QED
    BY <2>2, <2>3
<1>8. Waking'
  BY <1>1, <1>7 DEF Waking
<1> QED
  BY <1>5, <1>6, <1>8 DEF WInv

\* A settled run makes way for the next one, whose recovery is still to come, and a
\* recovery that was spent leaves its plan as awake as it was.
LEMMA SettlingWakes ==
  ASSUME IInv, WInv, NEW r \in Plans, Settle(r) \/ Recover(r)
  PROVE  WInv'
<1>1. /\ UNCHANGED <<waiting, ready, claimed, done, turns, turn, promised, crashes>>
      /\ pc = "idle" /\ pc' = "reporting" /\ owed = NoEvent
  BY DEF Settle, Recover, eventVars, ownerVars, WInv, Owes
<1>2. /\ DOMAIN plan' = Plans /\ DOMAIN work' = Plans
      /\ \A p \in Plans \ {r} :
           plan'[p] = plan[p] /\ work'[p] = work[p] /\ task'[p] = task[p]
      /\ \/ task'[r] = task[r] /\ plan'[r] = plan[r] /\ work'[r] = work[r]
         \/ task'[r] = task[r] + 1
         \/ task'[r] = task[r] /\ plan'[r] # "open"
  <2>1. /\ DOMAIN plan = Plans /\ DOMAIN work = Plans
        /\ DOMAIN task = Plans /\ task \in [Plans -> Nat]
    BY DEF WInv, Owes, IInv, QueueKept
  <2>2. CASE Recover(r)
    BY <2>1, <2>2 DEF Recover, planVars
  <2>3. CASE Settle(r)
    <3>1. CASE /\ task' = [task EXCEPT ![r] = @ + 1]
               /\ work' = [work EXCEPT ![r] = "pending"] /\ UNCHANGED plan
      BY <3>1, <2>1
    <3>2. CASE /\ work' = [work EXCEPT ![r] = "merged"]
               /\ plan' = [plan EXCEPT ![r] = "closed"] /\ UNCHANGED task
      BY <3>2, <2>1
    <3>3. CASE /\ work' = [work EXCEPT ![r] = "failed"]
               /\ plan' = [plan EXCEPT ![r] = "failed"] /\ UNCHANGED task
      BY <3>3, <2>1
    <3> QED
      BY <2>3, <3>1, <3>2, <3>3 DEF Settle
  <2> QED
    BY <2>2, <2>3
<1>3. \A p \in Plans : task'[p] \in Nat /\ task[p] \in Nat /\ task[p] <= task'[p]
  BY <1>2 DEF Settle, Recover, planVars, IInv, QueueKept
<1>4. PICK kind \in {"merged", "failed", "recover"} :
        owed' = [kind |-> kind, plan |-> r, n |-> task[r]]
  BY DEF Settle, Recover
<1>5. TurnsKept /\ TurnsGoOn /\ Known' = Known
  BY <1>1 DEF TurnsKept, TurnsGoOn, Known
<1>6. Owes'
  BY <1>1, <1>2, <1>5 DEF WInv, Owes
<1>7. IdsUsed'
  <2>1. \A x \in Event : x.n \in Nat
    BY DEF Event
  <2>2. \A x \in Known : x \in Event /\ Used(x)
    BY KnownAreEvents DEF WInv, IdsUsed
  <2>3. \A x \in Known : Used(x)'
    BY <2>1, <2>2, <1>1, <1>3, <1>5, UsedKept DEF IInv
  <2>4. /\ owed'.kind = kind /\ owed'.plan = r /\ owed'.n = task[r]
    BY <1>4
  <2>5. task[r] <= task'[r]
    BY <1>3
  <2> QED
    BY <2>3, <2>4, <2>5, <1>5 DEF IdsUsed, Used
<1>8. ASSUME NEW p \in Plans, crashes = 0, Runnable(p)' PROVE Wakes(p)'
  <2>1. CASE task'[p] = task[p] /\ plan'[p] = plan[p] /\ work'[p] = work[p]
    <3>1. Wakes(p)
      BY <2>1, <1>8 DEF WInv, Waking, Runnable
    <3>2. (Announced(p) => Announced(p)') /\ (HasTurn(p) => HasTurn(p)')
      BY <1>1 DEF Announced, HasTurn
    <3> QED
      BY <3>1, <3>2, <2>1, <1>1, <1>5, WakesKept
  <2>2. CASE p = r /\ task'[r] = task[r] + 1
    <3>1. \A x \in Known : x.kind = "recover" /\ x.plan = r => x.n <= task[r]
      BY DEF WInv, IdsUsed, Used
    <3>2. RecoverOf(r)'.kind = "recover" /\ RecoverOf(r)'.plan = r /\ RecoverOf(r)'.n = task[r] + 1
      BY <2>2 DEF RecoverOf
    <3>3. RecoverOf(r)' \notin Known
      BY <3>1, <3>2, <1>3
    <3> QED
      BY <3>3, <2>2, <1>5 DEF Wakes
  <2>3. CASE p = r /\ plan'[r] # "open"
    BY <2>3, <1>8 DEF Runnable
  <2> QED
    BY <2>1, <2>2, <2>3, <1>2
<1>9. Waking'
  BY <1>1, <1>8 DEF Waking
<1> QED
  BY <1>6, <1>7, <1>9 DEF WInv

\* What queueing an event does: whoever it no longer wakes otherwise has it in the queue.
Queueing ==
  /\ \A p \in Plans : Announced(p) => Announced(p)'
  /\ \A p \in Plans : owed # NoEvent /\ owed.plan = p /\ owed \notin Known =>
       Announced(p)' \/ (owed' = owed /\ owed \notin Known')
  /\ \A p \in Plans : RecoverOf(p) \notin Known => Announced(p)' \/ RecoverOf(p) \notin Known'
  /\ \A x \in Known' : x \in Known \/ x = owed \/ x.kind \in {"owner", "traffic"}
  /\ promised' # NoEvent => promised' = promised /\ promised \notin Known'
  /\ \/ owed' = owed /\ pc' = pc
     \/ owed' = NoEvent /\ pc = "reporting" /\ pc' = "idle"

\* An event of a request.
LEMMA RequestQueues ==
  ASSUME IInv, WInv, NEW e \in Event, Enqueue(e), UNCHANGED <<owed, pc>>,
         \/ e = promised /\ promised # NoEvent /\ promised' = NoEvent
         \/ promised' = promised /\ e.kind = "traffic"
  PROVE  Queueing
<1>1. /\ Known' = Known \union {e}
      /\ \A p \in Plans : (\E x \in waiting \union ready : x.plan = p) =>
                            \E x \in waiting' \union ready' : x.plan = p
      /\ e \notin Known => e \in waiting' \union ready'
  BY EnqueueFacts
<1>2. e.kind \in {"owner", "traffic"} /\ (e = promised /\ promised # NoEvent => e \notin Known)
  BY DEF WInv, Owes
<1>3. \A p \in Plans : Announced(p) => Announced(p)'
  BY <1>1, <1>2 DEF Announced
<1>4. owed # NoEvent => owed # e
  BY <1>2 DEF WInv, IdsUsed
<1>5. \A p \in Plans : RecoverOf(p) # e
  BY <1>2 DEF RecoverOf
<1>6. promised' # NoEvent => promised' = promised /\ promised # e /\ promised \notin Known
  BY DEF WInv, Owes
<1>7. owed # NoEvent /\ owed \notin Known => owed' = owed /\ owed \notin Known'
  BY <1>1, <1>4
<1>8. \A p \in Plans : RecoverOf(p) \notin Known => RecoverOf(p) \notin Known'
  BY <1>1, <1>5
<1>9. \A x \in Known' : x \in Known \/ x.kind \in {"owner", "traffic"}
  BY <1>1, <1>2
<1>10. promised' # NoEvent => promised' = promised /\ promised \notin Known'
  BY <1>1, <1>6
<1>11. owed' = owed /\ pc' = pc
  OBVIOUS
<1> QED
  BY <1>3, <1>7, <1>8, <1>9, <1>10, <1>11 DEF Queueing

\* The event that the thread owes.
LEMMA ReportQueues ==
  ASSUME IInv, WInv, Report
  PROVE  Queueing
<1>1. /\ owed' = NoEvent /\ promised' = promised /\ pc = "reporting" /\ pc' = "idle"
      /\ promised # NoEvent => promised \notin Known
  BY DEF Report, ownerVars, WInv, Owes
<1>2. CASE owed = NoEvent
  <2>1. UNCHANGED <<waiting, ready, claimed, done>>
    BY <1>2 DEF Report, eventVars
  <2> QED
    BY <1>1, <1>2, <2>1 DEF Known, Announced, Queueing
<1>3. CASE owed # NoEvent
  <2>1. Enqueue(owed) /\ owed \in Event
    BY <1>3 DEF Report, IInv, QueueKept
  <2>2. /\ Known' = Known \union {owed}
        /\ \A p \in Plans : (\E x \in waiting \union ready : x.plan = p) =>
                             \E x \in waiting' \union ready' : x.plan = p
        /\ owed \notin Known => owed \in waiting' \union ready'
    BY <2>1, EnqueueFacts
  <2>3. promised # NoEvent => promised # owed
    BY <1>3 DEF WInv, Owes, IdsUsed
  <2>4. \A p \in Plans : Announced(p) => Announced(p)'
    BY <1>1, <2>2 DEF Announced
  <2>5. \A p \in Plans : owed.plan = p /\ owed \notin Known => Announced(p)'
    BY <2>2 DEF Announced
  <2>6. \A p \in Plans : RecoverOf(p) = owed => owed.plan = p
    BY DEF RecoverOf
  <2> QED
    BY <1>1, <2>2, <2>3, <2>4, <2>5, <2>6 DEF Queueing
<1> QED
  BY <1>2, <1>3

\* Whatever enters the queue leaves what was there.
LEMMA QueueingWakes ==
  ASSUME IInv, WInv, Report \/ Deliver \/ \E p \in Plans : Traffic(p)
  PROVE  WInv'
<1>1. UNCHANGED <<turns, plan, task, work, turn, crashes>>
  BY DEF Report, Deliver, Traffic, planVars, ownerVars
<1>2. Queueing
  <2>1. CASE Report
    BY <2>1, ReportQueues
  <2>2. CASE Deliver
    <3>1. /\ promised # NoEvent /\ promised \in Event
          /\ Enqueue(promised) /\ promised' = NoEvent /\ UNCHANGED <<owed, pc>>
      BY <2>2 DEF Deliver, IInv, QueueKept
    <3> QED
      BY <3>1, RequestQueues
  <2>3. ASSUME NEW p \in Plans, Traffic(p) PROVE Queueing
    <3>1. PICK n \in 1..MaxTraffic : Enqueue([kind |-> "traffic", plan |-> p, n |-> n])
      BY <2>3 DEF Traffic
    <3>2. PICK e : e = [kind |-> "traffic", plan |-> p, n |-> n]
      OBVIOUS
    <3>3. e \in Event /\ e.kind = "traffic"
      BY <3>2, QueueAssumption DEF Event, Kinds
    <3>4. promised' = promised /\ UNCHANGED <<owed, pc>>
      BY <2>3 DEF Traffic, ownerVars
    <3> QED
      BY <3>1, <3>2, <3>3, <3>4, RequestQueues
  <2> QED
    BY <2>1, <2>2, <2>3
<1>3. TurnsKept /\ TurnsGoOn /\ ThePlan' = ThePlan
  BY <1>1 DEF TurnsKept, TurnsGoOn, ThePlan
<1>4. Owes'
  BY <1>1, <1>2 DEF WInv, Owes, Queueing
<1>5. IdsUsed'
  <2>1. \A x : Used(x)' <=> Used(x)
    BY <1>1 DEF Used
  <2>2. \A x \in Known' : Used(x)
    <3>1. \A x : x.kind \in {"owner", "traffic"} => Used(x)
      BY DEF Used
    <3>2. \A x \in Known' : x = owed => owed # NoEvent \/ x.kind = "none"
      BY DEF NoEvent
    <3>3. \A x : x.kind = "none" => Used(x)
      BY DEF Used
    <3> QED
      BY <1>2, <3>1, <3>2, <3>3 DEF Queueing, WInv, IdsUsed
  <2> QED
    BY <2>1, <2>2, <1>2 DEF Queueing, WInv, IdsUsed
<1>6. ASSUME NEW p \in Plans, crashes = 0, Runnable(p)' PROVE Wakes(p)'
  <2>1. Wakes(p)
    BY <1>1, <1>6 DEF WInv, Waking, Runnable
  <2>2. HasTurn(p) => HasTurn(p)'
    BY <1>1 DEF HasTurn
  <2>3. RecoverOf(p)' = RecoverOf(p)
    BY <1>1 DEF RecoverOf
  <2> QED
    BY <1>2, <1>3, <2>1, <2>2, <2>3 DEF Queueing, Wakes
<1>7. Waking'
  <2>1. crashes = 0 /\ pc' = "capped" /\ Runnable(ThePlan)' => Announced(ThePlan)'
    <3>1. CASE pc = "capped"
      <4>1. ThePlan \in Plans
        <5>1. turn \in DOMAIN turns
          BY <3>1 DEF IInv, Held
        <5>2. turns[turn] \in TurnRow
          BY <5>1 DEF IInv, Turned
        <5> QED
          BY <5>2 DEF ThePlan, TurnRow
      <4>2. PICK p \in Plans : p = ThePlan
        BY <4>1
      <4>3. crashes = 0 /\ Runnable(p) => Announced(p)
        BY <3>1, <4>2 DEF WInv, Waking
      <4>4. crashes = 0 /\ Runnable(p)' => Announced(p)'
        BY <4>3, <1>1, <1>2 DEF Runnable, Queueing
      <4> QED
        BY <4>2, <4>4, <1>3 DEF Runnable, Announced
    <3>2. CASE pc # "capped"
      BY <3>2, <1>2 DEF Queueing
    <3> QED
      BY <3>1, <3>2
  <2> QED
    BY <2>1, <1>1, <1>6 DEF Waking
<1> QED
  BY <1>4, <1>5, <1>7 DEF WInv

\* A command of the owner promises an event; a pause and a crash ask for none.
LEMMA CommandWakes ==
  ASSUME IInv, WInv, NEW r \in Plans, Instruct(r) \/ Cancel(r) \/ Pause(r) \/ Resume(r)
  PROVE  WInv'
<1>1. /\ UNCHANGED <<waiting, ready, claimed, done, turns, task, work, pc, turn, owed, crashes>>
      /\ promised = NoEvent
      /\ DOMAIN plan' = Plans /\ \A p \in Plans \ {r} : plan'[p] = plan[p]
  BY DEF Instruct, Cancel, Pause, Resume, Command, eventVars, WInv, Owes
<1>2. \/ promised' = NoEvent /\ plan'[r] # "open"
      \/ promised' # NoEvent /\ promised' \notin Known /\ promised'.kind = "owner" /\ promised'.plan = r
  <2>1. CASE Pause(r)
    BY <2>1 DEF Pause, WInv, Owes
  <2>2. CASE \E state : Command(r, state)
    BY <2>2 DEF Command, NoEvent
  <2> QED
    BY <2>1, <2>2 DEF Instruct, Cancel, Resume
<1>3. TurnsKept /\ TurnsGoOn /\ Known' = Known /\ ThePlan' = ThePlan
  BY <1>1 DEF TurnsKept, TurnsGoOn, Known, ThePlan
<1>4. Owes'
  BY <1>1, <1>2, <1>3 DEF WInv, Owes
<1>5. \A q \in Plans : task'[q] \in Nat /\ task[q] <= task'[q]
  BY <1>1 DEF IInv, QueueKept
<1>6. IdsUsed'
  BY <1>1, <1>3, <1>5, IdsKept DEF WInv
<1>7. \A p \in Plans : Runnable(p)' /\ p = r => Announced(p)'
  BY <1>2 DEF Runnable, Announced
<1>8. \A p \in Plans : Announced(p) => Announced(p)'
  BY <1>1 DEF Announced
<1>9. ASSUME NEW p \in Plans, crashes = 0, Runnable(p)' PROVE Wakes(p)'
  <2>1. CASE p = r
    BY <2>1, <1>7, <1>9 DEF Wakes
  <2>2. CASE p # r
    <3>1. Wakes(p)
      BY <2>2, <1>1, <1>9 DEF WInv, Waking, Runnable
    <3>2. HasTurn(p) => HasTurn(p)'
      BY <1>1 DEF HasTurn
    <3> QED
      BY <3>1, <3>2, <1>1, <1>3, <1>8, WakesKept
  <2> QED
    BY <2>1, <2>2
<1>10. ASSUME crashes = 0, pc = "capped", Runnable(ThePlan)' PROVE Announced(ThePlan)'
  <2>1. PICK p \in Plans : p = ThePlan
    BY <1>10, ThePlanIsOne
  <2>2. Runnable(p)' /\ (Announced(p)' => Announced(ThePlan)')
    BY <2>1, <1>3, <1>10 DEF Runnable, Announced
  <2>3. CASE p = r
    BY <2>2, <2>3, <1>7
  <2>4. CASE p # r
    <3>1. Runnable(p)
      BY <2>2, <2>4, <1>1 DEF Runnable
    <3>2. Announced(p)
      BY <3>1, <2>1, <1>10 DEF WInv, Waking
    <3> QED
      BY <3>2, <2>2, <1>8
  <2> QED
    BY <2>3, <2>4
<1>11. Waking'
  BY <1>1, <1>9, <1>10 DEF Waking
<1> QED
  BY <1>4, <1>6, <1>11 DEF WInv

\* A crash is remembered; the rows are as before.
LEMMA CrashWakes ==
  ASSUME IInv, WInv, Crash
  PROVE  WInv'
<1>1. /\ UNCHANGED <<waiting, ready, claimed, done, turns, plan, task, work>>
      /\ pc' = "idle" /\ turn' = 0 /\ owed' = NoEvent /\ promised' = NoEvent
      /\ crashes' = crashes + 1
  BY DEF Crash, ToLoop, eventVars, planVars
<1>2. TurnsKept /\ Known' = Known
  BY <1>1 DEF TurnsKept, Known
<1>3. Owes' /\ crashes' # 0
  BY <1>1 DEF WInv, Owes
<1>4. \A q \in Plans : task'[q] \in Nat /\ task[q] <= task'[q]
  BY <1>1 DEF IInv, QueueKept
<1>5. IdsUsed'
  BY <1>1, <1>2, <1>4, IdsKept DEF WInv
<1> QED
  BY <1>3, <1>5 DEF WInv, Waking

\* Time passes over what is queued and what is backed off.
LEMMA ClockWakes ==
  ASSUME IInv, WInv, Clock
  PROVE  WInv'
<1>1. /\ UNCHANGED <<claimed, done, plan, task, work, pc, turn, owed, promised, crashes>>
      /\ waiting' \union ready' = waiting \union ready
  <2>1. CASE \E p \in Plans : Mature(p)
    BY <2>1 DEF Mature, planVars, ownerVars
  <2>2. CASE \E i \in DOMAIN turns : ComeDue(i)
    BY <2>2 DEF ComeDue, eventVars, planVars, ownerVars
  <2> QED
    BY <2>1, <2>2 DEF Clock
<1>2. /\ DOMAIN turns' = DOMAIN turns
      /\ \A i \in DOMAIN turns : turns'[i].plan = turns[i].plan /\ turns'[i].state = turns[i].state
  <2>1. CASE UNCHANGED turns
    BY <2>1
  <2>2. ASSUME NEW i \in DOMAIN turns, ComeDue(i)
        PROVE  /\ DOMAIN turns' = DOMAIN turns
               /\ \A j \in DOMAIN turns :
                    turns'[j].plan = turns[j].plan /\ turns'[j].state = turns[j].state
    <3>1. turns' = [turns EXCEPT ![i].due = TRUE] /\ turns[i] \in TurnRow
      BY <2>2 DEF ComeDue, IInv, Turned
    <3> QED
      BY <3>1 DEF TurnRow
  <2> QED
    BY <2>1, <2>2 DEF Clock, Mature
<1>3. TurnsKept /\ TurnsGoOn
  BY <1>2 DEF TurnsKept, TurnsGoOn
<1>4. Known' = Known
  BY <1>1 DEF Known
<1>5. \A p \in Plans : (Announced(p) => Announced(p)') /\ (HasTurn(p) => HasTurn(p)')
  BY <1>1, <1>2 DEF Announced, HasTurn
<1>6. turn \in DOMAIN turns => ThePlan' = ThePlan
  BY <1>1, <1>2 DEF ThePlan
<1>7. pc \in {"capped", "finished"} => turn \in DOMAIN turns
  BY DEF IInv, Held
<1>8. Owes'
  BY <1>1, <1>2, <1>4, <1>7 DEF WInv, Owes
<1>9. \A q \in Plans : task'[q] \in Nat /\ task[q] <= task'[q]
  BY <1>1 DEF IInv, QueueKept
<1>10. IdsUsed'
  BY <1>1, <1>3, <1>4, <1>9, IdsKept DEF WInv
<1>11. ASSUME NEW p \in Plans, crashes = 0, Runnable(p)' PROVE Wakes(p)'
  <2>1. Wakes(p)
    BY <1>1, <1>11 DEF WInv, Waking, Runnable
  <2> QED
    BY <2>1, <1>1, <1>4, <1>5, <1>6, <1>7, WakesKept
<1>12. ASSUME crashes = 0, pc = "capped", Runnable(ThePlan)' PROVE Announced(ThePlan)'
  <2>1. PICK p \in Plans : p = ThePlan
    BY <1>12, ThePlanIsOne
  <2>2. Runnable(p) /\ (Announced(p)' => Announced(ThePlan)')
    BY <2>1, <1>1, <1>6, <1>7, <1>12 DEF Runnable, Announced
  <2>3. Announced(p)
    BY <2>1, <2>2, <1>12 DEF WInv, Waking
  <2> QED
    BY <2>2, <2>3, <1>5
<1>13. Waking'
  BY <1>1, <1>11, <1>12 DEF Waking
<1> QED
  BY <1>8, <1>10, <1>13 DEF WInv

-----------------------------------------------------------------------------
\* Unless the process died between two transactions, a deliverable that can be
\* dispatched always has a next turn of Luna's on its way: an event, a turn, an
\* event about to be written, or a recovery that is still to be spent.
THEOREM WokenUnlessCrashedHolds == Spec => []WokenUnlessCrashed
<1>1. Init => WInv
  <2> SUFFICES ASSUME Init PROVE WInv
    OBVIOUS
  <2>1. Known = {} /\ owed = NoEvent /\ promised = NoEvent /\ pc = "idle"
    BY DEF Init, Known
  <2>2. Owes /\ IdsUsed
    BY <2>1 DEF Init, Owes, IdsUsed
  <2>3. Waking
    BY <2>1 DEF Waking, Wakes
  <2> QED
    BY <2>2, <2>3 DEF WInv
<1>2. IInv /\ WInv /\ [Next]_vars => WInv'
  <2> SUFFICES ASSUME IInv, WInv, [Next]_vars PROVE WInv'
    OBVIOUS
  <2>1. CASE Claim
    BY <2>1, ClaimWakes
  <2>2. CASE Turn
    BY <2>2, RetiringWakes, FailWakes, ThinkingWakes, ContinueWakes DEF Turn
  <2>3. CASE Clock
    BY <2>3, ClockWakes
  <2>4. CASE Report \/ Requests
    BY <2>4, QueueingWakes, CommandWakes DEF Requests
  <2>5. CASE Crash \/ \E p \in Plans : Settle(p) \/ Recover(p)
    BY <2>5, CrashWakes, SettlingWakes
  <2>6. CASE UNCHANGED vars
    BY <2>6 DEF vars, eventVars, planVars, ownerVars, WInv, Owes, IdsUsed, Used, Waking, Wakes,
                Announced, HasTurn, RecoverOf, Runnable, ThePlan, Known
  <2> QED
    BY <2>1, <2>2, <2>3, <2>4, <2>5, <2>6 DEF Next
<1>3. WInv => WokenUnlessCrashed
  <2> SUFFICES ASSUME WInv, crashes = 0 PROVE \A p \in Plans : Runnable(p) => Woken(p)
    BY DEF WokenUnlessCrashed, WInv, Owes
  <2> QED
    BY DEF WInv, Waking, Wakes, Woken, Announced, HasTurn, RecoverOf
<1> QED
  BY <1>1, <1>2, <1>3, Invariance, PTL DEF Spec
=============================================================================
