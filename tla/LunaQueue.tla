------------------------------ MODULE LunaQueue -------------------------------
(***************************************************************************)
(* The event queue that wakes Luna (coordinator_events and luna_turns),    *)
(* and the work it keeps going: events are debounced, claimed in batches,  *)
(* replayed after a failure and retired with their turn; a deliverable     *)
(* that can be dispatched is expected to reach a turn.                     *)
(*                                                                         *)
(* The reconciler is one thread, `pc'.  Every transaction of the store is  *)
(* one action; what a turn does to the plan is reduced to the three tools  *)
(* that matter for the queue (PlanDelivery has the others).  Time is left  *)
(* out: a delay ends in an action of its own.                              *)
(***************************************************************************)
EXTENDS Naturals, Sequences, FiniteSetsExt

CONSTANTS
  Plans,        \* the plans
  Commands,     \* bound: the kinds of owner request of this instance
  MaxTask,      \* bound: the runs, (position, attempt) pairs, of a plan
  MaxTraffic,   \* bound: events about a plan from GitHub and Matrix
  MaxCrash,     \* bound: crashes of the process
  BatchLimit,   \* next_luna_batch's limit (50)
  MaxAttempt,   \* attempts of a turn (5)
  TurnCap       \* Luna turns of a plan (200)

ASSUME QueueAssumption ==
  /\ Commands \subseteq {"instruct", "cancel", "pause"}
  /\ MaxTask \in Nat \ {0} /\ BatchLimit \in Nat \ {0} /\ MaxAttempt \in Nat \ {0}
  /\ MaxTraffic \in Nat /\ MaxCrash \in Nat /\ TurnCap \in Nat

\* An event is named by its id: what it is about, and which one of its kind.
Kinds == {"traffic", "owner", "recover", "continue", "merged", "failed"}
Event == [kind : Kinds, plan : Plans, n : Nat]
NoEvent == [kind |-> "none", plan |-> "none", n |-> 0]

VARIABLES
  waiting,      \* coordinator_events neither claimed nor processed, before ready_at
  ready,        \* ... and from ready_at on
  claimed,      \* ... those with a batch_id
  done,         \* ... those with a processed_at
  turns,        \* luna_turns, by sequence number
  plan,         \* plans.state: "open" for decomposed and running, "closed" for resolved
  task,         \* the run of the plan's next deliverable
  work,         \* that deliverable's state
  pc,           \* the reconciler thread's program counter
  turn,         \* ... the turn it runs, 0 if none
  allowed,      \* ... whether the plan row read for the turn allows a dispatch
  owed,         \* ... the event it will enqueue next, NoEvent if none
  previous,     \* plan_controls.previous_state, "none" without a row
  promised,     \* the event an owner command in progress will enqueue, NoEvent if none
  crashes       \* crashes so far

eventVars == <<waiting, ready, claimed, done>>
planVars  == <<plan, task, work>>
ownerVars == <<previous, promised>>
vars == <<eventVars, turns, planVars, pc, turn, allowed, owed, ownerVars, crashes>>

TurnStates == {"pending", "running", "complete", "skipped", "failed"}

TypeOK ==
  /\ \A events \in {waiting, ready, claimed, done} : events \subseteq Event
  /\ turns \in Seq([plan : Plans, batch : SUBSET Event, state : TurnStates,
                    attempts : 1..MaxAttempt, due : BOOLEAN])
  /\ plan \in [Plans -> {"open", "paused", "needs_input", "failed", "closed"}]
  /\ task \in [Plans -> 1..MaxTask]
  /\ work \in [Plans -> {"pending", "running", "failed", "merged"}]
  /\ pc \in {"idle", "reporting", "claimed", "capped", "thinking", "finished"}
  /\ turn \in 0..Len(turns)
  /\ allowed \in BOOLEAN
  /\ {owed, promised} \subseteq Event \union {NoEvent}
  /\ previous \in [Plans -> {"open", "needs_input", "failed", "closed", "none"}]
  /\ crashes \in 0..MaxCrash

\* Every plan has just been approved; its approval's event is the first traffic.
Init ==
  /\ waiting = {} /\ ready = {} /\ claimed = {} /\ done = {}
  /\ turns = <<>>
  /\ plan = [p \in Plans |-> "open"]
  /\ task = [p \in Plans |-> 1]
  /\ work = [p \in Plans |-> "pending"]
  /\ pc = "idle" /\ turn = 0 /\ allowed = FALSE
  /\ owed = NoEvent /\ crashes = 0
  /\ previous = [p \in Plans |-> "none"] /\ promised = NoEvent

-----------------------------------------------------------------------------
(* The queue. *)

Known == waiting \union ready \union claimed \union done

\* enqueue_coordinator_event: an id enters once.  A delayed event pushes out all
\* the unclaimed events of its plan, a prompt one is ready at once.
Enqueue(e) ==
  /\ UNCHANGED <<claimed, done>>
  /\ \/ e \in Known /\ UNCHANGED <<waiting, ready>>
     \/ /\ e \notin Known /\ e.kind # "traffic"
        /\ ready' = ready \union {e}
        /\ UNCHANGED waiting
     \/ /\ e \notin Known /\ e.kind = "traffic"
        /\ LET pushed == {x \in ready : x.plan = e.plan}
           IN  /\ waiting' = waiting \union pushed \union {e}
               /\ ready' = ready \ pushed

\* The debounce window of a plan ends.
Mature(p) ==
  LET mature == {e \in waiting : e.plan = p}
  IN  /\ mature # {}
      /\ waiting' = waiting \ mature
      /\ ready' = ready \union mature
      /\ UNCHANGED <<claimed, done, turns, planVars, pc, turn, allowed, owed, ownerVars, crashes>>

\* The back-off of a failed turn ends.
ComeDue(i) ==
  /\ i \in DOMAIN turns /\ turns[i].state = "pending" /\ ~turns[i].due
  /\ turns' = [turns EXCEPT ![i].due = TRUE]
  /\ UNCHANGED <<eventVars, planVars, pc, turn, allowed, owed, ownerVars, crashes>>

Replayable == {i \in DOMAIN turns : turns[i].state = "pending" /\ turns[i].due}

\* next_luna_batch, a replay: the first pending turn that is due.
ClaimReplay ==
  /\ pc = "idle"
  /\ \E i \in Replayable :
       /\ \A j \in Replayable : i <= j
       /\ turn' = i
       /\ turns' = [turns EXCEPT ![i].state = "running", ![i].attempts = @ + 1]
  /\ pc' = "claimed"
  /\ UNCHANGED <<eventVars, planVars, allowed, owed, ownerVars, crashes>>

\* next_luna_batch, a new turn: the ready events of one plan, up to the limit.
ClaimNew ==
  /\ pc = "idle" /\ Replayable = {}
  /\ \E p \in Plans :
       LET due == {e \in ready : e.plan = p}
       IN  /\ due # {}
           /\ \E batch \in kSubset(Min({BatchLimit, Cardinality(due)}), due) :
                /\ ready' = ready \ batch
                /\ claimed' = claimed \union batch
                /\ turns' = Append(turns, [plan |-> p, batch |-> batch, state |-> "running",
                                           attempts |-> 1, due |-> FALSE])
  /\ turn' = Len(turns')
  /\ pc' = "claimed"
  /\ UNCHANGED <<waiting, done, planVars, allowed, owed, ownerVars, crashes>>

\* Mutant: every claimed event of the plan is processed with the turn.
RetireAll(state) ==
  /\ turns' = [turns EXCEPT ![turn].state = state]
  /\ claimed' = {e \in claimed : e.plan # turns[turn].plan}
  /\ done' = done \union {e \in claimed : e.plan = turns[turn].plan}
  /\ UNCHANGED <<waiting, ready>>

\* Mutant: the turn is retired and its events are not.
RetireTurnOnly(state) ==
  /\ turns' = [turns EXCEPT ![turn].state = state]
  /\ UNCHANGED eventVars

\* finish_luna_turn: the turn and its events in one transaction.
Retire(state) ==
  /\ turns' = [turns EXCEPT ![turn].state = state]
  /\ claimed' = claimed \ turns[turn].batch
  /\ done' = done \union turns[turn].batch
  /\ UNCHANGED <<waiting, ready>>

ToLoop == pc' = "idle" /\ turn' = 0 /\ allowed' = FALSE

-----------------------------------------------------------------------------
(* LunaCoordinator.reconcile_once. *)

ThePlan == turns[turn].plan

\* luna_usage counts complete turns only.
Usage(p) == Cardinality({i \in DOMAIN turns : turns[i].plan = p /\ turns[i].state = "complete"})

\* A plan that Luna does not coordinate: the batch is retired unread.
Skip ==
  /\ pc = "claimed" /\ plan[ThePlan] = "closed"
  /\ Retire("skipped")
  /\ ToLoop
  /\ UNCHANGED <<planVars, owed, ownerVars, crashes>>

\* The cap is reached: first the plan, then the turn.
ReachCap ==
  /\ pc = "claimed" /\ plan[ThePlan] # "closed"
  /\ Usage(ThePlan) >= TurnCap
  /\ plan' = [plan EXCEPT ![ThePlan] = "needs_input"]
  /\ pc' = "capped"
  /\ UNCHANGED <<eventVars, turns, task, work, turn, allowed, owed, ownerVars, crashes>>

RetireCapped ==
  /\ pc = "capped"
  /\ Retire("complete")
  /\ ToLoop
  /\ UNCHANGED <<planVars, owed, ownerVars, crashes>>

Begin ==
  /\ pc = "claimed" /\ plan[ThePlan] # "closed"
  /\ Usage(ThePlan) < TurnCap
  /\ pc' = "thinking"
  /\ allowed' = (plan[ThePlan] = "open")
  /\ UNCHANGED <<eventVars, turns, planVars, turn, owed, ownerVars, crashes>>

\* create_workload.
Dispatch ==
  /\ pc = "thinking" /\ allowed /\ work[ThePlan] = "pending"
  /\ work' = [work EXCEPT ![ThePlan] = "running"]
  /\ plan' = [plan EXCEPT ![ThePlan] = "open"]
  /\ UNCHANGED <<eventVars, turns, task, pc, turn, allowed, owed, ownerVars, crashes>>

\* retry_workload, with the dispatch that it ends with, unless that is refused or fails.
Retry ==
  /\ pc = "thinking" /\ work[ThePlan] = "failed" /\ task[ThePlan] < MaxTask
  /\ \E result \in {"running", "pending"} : work' = [work EXCEPT ![ThePlan] = result]
  /\ task' = [task EXCEPT ![ThePlan] = @ + 1]
  /\ plan' = [plan EXCEPT ![ThePlan] = "open"]
  /\ UNCHANGED <<eventVars, turns, pc, turn, allowed, owed, ownerVars, crashes>>

\* ask_owner and escalate.
AskOwner ==
  /\ pc = "thinking" /\ plan[ThePlan] # "needs_input"
  /\ plan' = [plan EXCEPT ![ThePlan] = "needs_input"]
  /\ UNCHANGED <<eventVars, turns, task, work, pc, turn, allowed, owed, ownerVars, crashes>>

Finish ==
  /\ pc = "thinking"
  /\ Retire("complete")
  /\ pc' = "finished"
  /\ UNCHANGED <<planVars, turn, allowed, owed, ownerVars, crashes>>

\* plans_ready_to_dispatch.
Runnable(p) == plan[p] = "open" /\ work[p] = "pending"

\* Mutant: one such event for a deliverable, whatever the turn.
ContinueOnce ==
  /\ pc = "finished"
  /\ owed' = IF Runnable(ThePlan)
             THEN [kind |-> "continue", plan |-> ThePlan, n |-> task[ThePlan]]
             ELSE NoEvent
  /\ pc' = "reporting" /\ turn' = 0 /\ allowed' = FALSE
  /\ UNCHANGED <<eventVars, turns, planVars, ownerVars, crashes>>

\* A runnable deliverable that the turn left alone asks for another turn.
Continue ==
  /\ pc = "finished"
  /\ owed' = IF Runnable(ThePlan)
             THEN [kind |-> "continue", plan |-> ThePlan, n |-> turn]
             ELSE NoEvent
  /\ pc' = "reporting" /\ turn' = 0 /\ allowed' = FALSE
  /\ UNCHANGED <<eventVars, turns, planVars, ownerVars, crashes>>

\* Mutant: one attempt too many.
FailLate ==
  /\ pc = "thinking"
  /\ \/ /\ turns[turn].attempts <= MaxAttempt
        /\ turns' = [turns EXCEPT ![turn].state = "pending", ![turn].due = FALSE]
        /\ UNCHANGED plan
     \/ /\ turns[turn].attempts > MaxAttempt
        /\ turns' = [turns EXCEPT ![turn].state = "failed"]
        /\ plan' = [plan EXCEPT ![ThePlan] =
                      IF @ \in {"closed", "failed"} THEN @ ELSE "needs_input"]
  /\ ToLoop
  /\ UNCHANGED <<eventVars, task, work, owed, ownerVars, crashes>>

\* fail_luna_turn: back off, or give up and ask the owner of an unfinished plan.
Fail ==
  /\ pc = "thinking"
  /\ \/ /\ turns[turn].attempts < MaxAttempt
        /\ turns' = [turns EXCEPT ![turn].state = "pending", ![turn].due = FALSE]
        /\ UNCHANGED plan
     \/ /\ turns[turn].attempts >= MaxAttempt
        /\ turns' = [turns EXCEPT ![turn].state = "failed"]
        /\ plan' = [plan EXCEPT ![ThePlan] =
                      IF @ \in {"closed", "failed"} THEN @ ELSE "needs_input"]
  /\ ToLoop
  /\ UNCHANGED <<eventVars, task, work, owed, ownerVars, crashes>>

-----------------------------------------------------------------------------
(* MatrixCoordinator.reconcile_once: what wakes Luna. *)

\* The deliverable's pull request is merged, reported by _merged; or its workload
\* or its merge failed.  A merge settles in any state of the plan.
Settle(p) ==
  /\ pc = "idle" /\ work[p] = "running"
  /\ \/ /\ task[p] < MaxTask
        /\ task' = [task EXCEPT ![p] = @ + 1]
        /\ work' = [work EXCEPT ![p] = "pending"]
        /\ UNCHANGED plan
        /\ owed' = [kind |-> "merged", plan |-> p, n |-> task[p]]
     \/ /\ work' = [work EXCEPT ![p] = "merged"]
        /\ plan' = [plan EXCEPT ![p] = "closed"]
        /\ UNCHANGED task
        /\ owed' = [kind |-> "merged", plan |-> p, n |-> task[p]]
     \/ /\ work' = [work EXCEPT ![p] = "failed"]
        /\ plan' = [plan EXCEPT ![p] = "failed"]
        /\ UNCHANGED task
        /\ owed' = [kind |-> "failed", plan |-> p, n |-> task[p]]
  /\ pc' = "reporting"
  /\ UNCHANGED <<eventVars, turns, turn, allowed, ownerVars, crashes>>

\* The recovery event of a run, one for its life.
Recover(p) ==
  /\ pc = "idle" /\ Runnable(p)
  /\ owed' = [kind |-> "recover", plan |-> p, n |-> task[p]]
  /\ pc' = "reporting"
  /\ UNCHANGED <<eventVars, turns, planVars, turn, allowed, ownerVars, crashes>>

\* The event of either, or of Continue, in a transaction of its own.
Report ==
  /\ pc = "reporting"
  /\ IF owed = NoEvent THEN UNCHANGED eventVars ELSE Enqueue(owed)
  /\ owed' = NoEvent
  /\ pc' = "idle"
  /\ UNCHANGED <<turns, planVars, turn, allowed, ownerVars, crashes>>

-----------------------------------------------------------------------------
(* Requests. *)

\* A webhook about the plan.
Traffic(p) ==
  /\ \E n \in 1..MaxTraffic : Enqueue([kind |-> "traffic", plan |-> p, n |-> n])
  /\ UNCHANGED <<turns, planVars, pc, turn, allowed, owed, ownerVars, crashes>>

\* The owner's next event is about p: first the plan, then the event.
Command(p, state) ==
  /\ promised = NoEvent
  /\ \E n \in 1..MaxTraffic :
       LET e == [kind |-> "owner", plan |-> p, n |-> n]
       IN  e \notin Known /\ promised' = e
  /\ plan' = [plan EXCEPT ![p] = state]
  /\ UNCHANGED <<eventVars, turns, task, work, pc, turn, allowed, owed, crashes>>

\* An instruction in any state of the plan; a retry or an investigation is handled alike.
Instruct(p) ==
  /\ "instruct" \in Commands
  /\ Command(p, plan[p])
  /\ UNCHANGED previous

Cancel(p) ==
  /\ "cancel" \in Commands
  /\ Command(p, "closed")
  /\ UNCHANGED previous

\* Mutant: a resume, like a pause, queues no event.
ResumeQuietly(p) ==
  /\ plan[p] = "paused" /\ promised = NoEvent
  /\ plan' = [plan EXCEPT ![p] = previous[p]]
  /\ previous' = [previous EXCEPT ![p] = "none"]
  /\ UNCHANGED <<eventVars, turns, task, work, pc, turn, allowed, owed, promised, crashes>>

Resume(p) ==
  /\ plan[p] = "paused"
  /\ Command(p, previous[p])
  /\ previous' = [previous EXCEPT ![p] = "none"]

\* A pause queues no event.
Pause(p) ==
  /\ "pause" \in Commands
  /\ promised = NoEvent
  /\ plan[p] # "paused"
  /\ previous' = [previous EXCEPT ![p] = plan[p]]
  /\ plan' = [plan EXCEPT ![p] = "paused"]
  /\ UNCHANGED <<eventVars, turns, task, work, pc, turn, allowed, owed, promised, crashes>>

Deliver ==
  /\ promised # NoEvent
  /\ Enqueue(promised)
  /\ promised' = NoEvent
  /\ UNCHANGED <<turns, planVars, pc, turn, allowed, owed, previous, crashes>>

\* The process dies and restarts.  The restart looks for running turns only when
\* it upgrades a schema older than version 11.
Crash ==
  /\ crashes < MaxCrash
  /\ crashes' = crashes + 1
  /\ ToLoop
  /\ owed' = NoEvent /\ promised' = NoEvent
  /\ UNCHANGED <<eventVars, turns, planVars, previous>>

-----------------------------------------------------------------------------
Claim == ClaimReplay \/ ClaimNew

Turn == \/ Skip \/ ReachCap \/ RetireCapped \/ Begin
        \/ Dispatch \/ Retry \/ AskOwner \/ Finish \/ Continue \/ Fail

Clock == (\E p \in Plans : Mature(p)) \/ (\E i \in DOMAIN turns : ComeDue(i))

Requests ==
  \/ \E p \in Plans : Traffic(p) \/ Instruct(p) \/ Cancel(p) \/ Pause(p) \/ Resume(p)
  \/ Deliver

Next ==
  \/ Claim \/ Turn \/ Report \/ Clock \/ Requests \/ Crash
  \/ \E p \in Plans : Settle(p) \/ Recover(p)

Spec == Init /\ [][Next]_vars

\* Each pass of the loop recovers and then claims, whatever else it does; a call
\* ends, a turn ends, and time passes.
Fairness ==
  /\ SF_vars(Claim) /\ WF_vars(Report)
  /\ \A p \in Plans : SF_vars(Recover(p)) /\ WF_vars(Mature(p))
  /\ WF_vars(Skip \/ ReachCap \/ RetireCapped \/ Begin \/ Finish \/ Continue \/ Fail)
  /\ WF_vars(\E i \in DOMAIN turns : ComeDue(i))
  /\ WF_vars(Deliver)

FairSpec == Spec /\ Fairness

-----------------------------------------------------------------------------
(* Properties. *)

Retired == {"complete", "skipped"}

\* Every event a turn holds is accounted for: an event is in one turn only, the
\* turn is of its plan, and it is processed exactly when that turn is retired,
\* across replays, back-offs and crashes.
EventsAccounted ==
  /\ claimed \union done = UNION {turns[i].batch : i \in DOMAIN turns}
  /\ \A i, j \in DOMAIN turns : i # j => turns[i].batch \intersect turns[j].batch = {}
  /\ \A i \in DOMAIN turns : \A e \in turns[i].batch :
       e.plan = turns[i].plan /\ (e \in done <=> turns[i].state \in Retired)

\* A turn that is running although no thread runs it.
Abandoned == {i \in DOMAIN turns : turns[i].state = "running" /\ i # turn}

\* A debounced and a prompt event; those with other numbers are handled alike.
Tracked == [kind : {"traffic", "recover"}, plan : Plans, n : {1}]

\* A queued event reaches the end of a turn: the turn is retired, or was given up
\* after all its attempts, or the process died in it.
EventSettles ==
  \A e \in Tracked :
    e \in waiting \union ready ~>
      \/ e \in done
      \/ \E i \in DOMAIN turns :
           /\ e \in turns[i].batch
           /\ turns[i].state = "failed" \/ i \in Abandoned

\* Something is on its way that will give Luna another turn for p.
Woken(p) ==
  \/ \E e \in waiting \union ready \union {owed, promised} : e.plan = p
  \/ \E i \in DOMAIN turns : turns[i].plan = p /\ turns[i].state \in {"pending", "running"}
  \/ pc = "finished" /\ ThePlan = p
  \/ [kind |-> "recover", plan |-> p, n |-> task[p]] \notin Known

\* Whenever a deliverable can be dispatched, Luna's next turn for its plan is on
\* its way, however turns end: a crash between two transactions is the one way
\* to lose it.
WokenUnlessCrashed == \A p \in Plans : Runnable(p) => Woken(p) \/ crashes > 0

\* A deliverable that can be dispatched does not wait for ever: it is dispatched,
\* or the plan ends up with its owner, even if Luna never dispatches anything.
RunnableResolved == \A p \in Plans : Runnable(p) ~> ~Runnable(p) \/ crashes > 0

\* A turn that a crash interrupted is run again.
InterruptedReplayed ==
  \A i \in 1..TurnCap : i \in Abandoned ~> i \notin Abandoned
=============================================================================
