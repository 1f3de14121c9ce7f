----------------------------- MODULE RoomCommands -----------------------------
(***************************************************************************)
(* The owner's messages and what the gateway makes of them.  The room is   *)
(* flat: which plan a message is about is guessed from the message it      *)
(* answers and from the plans that are open.  A bot forwards each message  *)
(* to the gateway, whose handlers run one at a time; what was answered is  *)
(* saved, so that a message forwarded again, as after a restart of the     *)
(* bot, is answered with it.                                               *)
(*                                                                         *)
(* External: the owner, the bot's restarts and the planner's decisions.    *)
(* The content of intake and research is PlanIntake's, approval is         *)
(* PlanDelivery's.                                                         *)
(***************************************************************************)
EXTENDS Naturals, Sequences, SequencesExt, FiniteSets

CONSTANTS
  MaxMessages,   \* bound: messages of the owner
  MaxRoomFaults, \* bound: replays, failures of the planner and crashes, together
  AstraCap       \* planner turns of one plan (20)

ASSUME RoomAssumption ==
  MaxMessages \in Nat /\ MaxRoomFaults \in Nat /\ AstraCap \in Nat \ {0}

\* "say" has no prefix; the rest are commands.  An instruction is a message
\* in the implementation room.
Orders == {"say", "plan", "draft", "stop", "instruct"}

\* A plan's id is the hash of the message that began it: it is that message.
PlanIds == 1..MaxMessages

VARIABLES
  messages,     \* external: what the owner sent, [command, to]; to is a plan or 0
  inFlight,     \* messages whose request waits for the lock
  calls,        \* the handlers that run, [m, pc, plan]
  begun,        \* the rows of plans, in order
  planState,    \* plans.state
  plannerTurns,        \* the planner's turns of each plan
  intake,       \* plan_intake: the owner's entries, <<message, plan>>
  comments,     \* plan_comments, <<message, plan>>
  wakes,        \* coordinator_events of source matrix, by message
  saved,        \* matrix_event_results, by message
  replies,      \* matrix_outbox: the replies, by message
  roomFaults,   \* faults so far
  interrupted,  \* history: messages whose handler failed or crashed
  touched       \* history: <<message, plan>>, the plan the message changed

plansVars == <<begun, planState, plannerTurns, intake, comments, wakes>>
replyVars == <<saved, replies>>
roomVars  == <<messages, inFlight, calls, plansVars, replyVars,
               roomFaults, interrupted, touched>>

Sent == 1..Len(messages)
PairsOf(S) == S \X PlanIds

RoomTypeOK ==
  /\ messages \in Seq([command : Orders, to : {0} \union PlanIds])
  /\ Len(messages) <= MaxMessages
  /\ inFlight \subseteq Sent
  /\ calls \subseteq [m : Sent, plan : {0} \union PlanIds,
       pc : {"effect", "note", "ask", "decide", "wake", "save", "reply"}]
  /\ begun \in Seq(PlanIds) /\ IsInjective(begun)
  /\ planState \in [ToSet(begun) -> {"intake", "review", "needs_input", "cancelled"}]
  /\ plannerTurns \in [ToSet(begun) -> 0..AstraCap]
  /\ intake \subseteq PairsOf(Sent) /\ comments \subseteq PairsOf(Sent)
  /\ wakes \subseteq Sent /\ saved \subseteq Sent /\ replies \subseteq Sent
  /\ interrupted \subseteq Sent
  /\ touched \subseteq PairsOf(Sent)
  /\ roomFaults \in 0..MaxRoomFaults

RoomInit ==
  /\ messages = <<>> /\ inFlight = {} /\ calls = {}
  /\ begun = <<>> /\ planState = <<>> /\ plannerTurns = <<>>
  /\ intake = {} /\ comments = {} /\ wakes = {}
  /\ saved = {} /\ replies = {}
  /\ roomFaults = 0 /\ interrupted = {} /\ touched = {}

-----------------------------------------------------------------------------
(* The room and the bot. *)

\* The owner may answer what the gateway posted about a plan.
Says(command, to) ==
  /\ Len(messages) < MaxMessages
  /\ to # 0 => \E pair \in touched : pair[2] = to /\ pair[1] \in replies
  /\ messages' = Append(messages, [command |-> command, to |-> to])
  /\ inFlight' = inFlight \union {Len(messages) + 1}
  /\ UNCHANGED <<calls, plansVars, replyVars, roomFaults, interrupted, touched>>

\* The bot restarts and forwards a message again.
Replays(m) ==
  /\ roomFaults < MaxRoomFaults /\ roomFaults' = roomFaults + 1
  /\ inFlight' = inFlight \union {m}
  /\ UNCHANGED <<messages, calls, plansVars, replyVars, interrupted, touched>>

-----------------------------------------------------------------------------
(* MatrixCoordinator.handle, under its lock. *)

\* active_plan_for_room: the latest plan that has not ended, or 0.
ActivePlan ==
  LET open == {i \in DOMAIN begun : planState[begun[i]] # "cancelled"}
  IN  IF open = {} THEN 0 ELSE begun[Max(open)]

GoesTo(c, pc) == calls' = (calls \ {c}) \union {[c EXCEPT !.pc = pc]}

\* The handler raises: nothing is saved and the bot reports the error.
Fails(c) ==
  /\ calls' = calls \ {c}
  /\ interrupted' = interrupted \union {c.m}
  /\ UNCHANGED <<messages, inFlight, plansVars, replyVars, touched>>

\* Which plan the message is about: the one it answers, or the active one.
\* A message about none begins one, and only some may be about none.
Resolves(m) ==
  LET msg == messages[m]
      target == IF msg.command = "plan" THEN 0 ELSE IF msg.to # 0 THEN msg.to ELSE ActivePlan
      next == IF target = 0 /\ msg.command = "instruct" THEN "save" ELSE "effect"
  IN IF target = 0 /\ msg.command \in {"draft", "stop"}
     THEN interrupted' = interrupted \union {m} /\ UNCHANGED calls
     ELSE calls' = {[m |-> m, pc |-> next, plan |-> target]} /\ UNCHANGED interrupted

\* Mutant: the saved result is not looked for.
TakesAgain(m) ==
  /\ m \in inFlight /\ inFlight' = inFlight \ {m}
  /\ calls = {} /\ Resolves(m)
  /\ UNCHANGED <<messages, plansVars, replyVars, roomFaults, touched>>

\* A request gets the lock.  A saved result is queued again, for the crash
\* that came before it was.
Takes(m) ==
  /\ m \in inFlight /\ inFlight' = inFlight \ {m}
  /\ calls = {}
  /\ IF m \in saved
     THEN replies' = replies \union {m} /\ UNCHANGED <<calls, interrupted>>
     ELSE Resolves(m) /\ UNCHANGED replies
  /\ UNCHANGED <<messages, plansVars, saved, roomFaults, touched>>

Touches(c, p) == touched' = touched \union {<<c.m, p>>}

\* begin_intake ignores a plan that exists.
BeginsPlan(c) ==
  /\ c.pc = "effect" /\ c.plan = 0
  /\ IF c.m \in ToSet(begun) THEN UNCHANGED <<begun, planState, plannerTurns>>
     ELSE /\ begun' = Append(begun, c.m)
          /\ planState' = [p \in ToSet(begun') |-> IF p = c.m THEN "intake" ELSE planState[p]]
          /\ plannerTurns' = [p \in ToSet(begun') |-> IF p = c.m THEN 0 ELSE plannerTurns[p]]
  /\ calls' = (calls \ {c}) \union {[c EXCEPT !.plan = c.m, !.pc = "note"]}
  /\ Touches(c, c.m)
  /\ UNCHANGED <<messages, inFlight, intake, comments, wakes, replyVars, roomFaults, interrupted>>

\* A bare message answers the planner in an intake and is a comment otherwise.
Answer(c) ==
  /\ c.pc = "effect" /\ c.plan # 0 /\ messages[c.m].command = "say"
  /\ planState[c.plan] = "intake"
  /\ GoesTo(c, "note")
  /\ UNCHANGED <<messages, inFlight, plansVars, replyVars, roomFaults, interrupted, touched>>

Remark(c) ==
  /\ c.pc = "effect" /\ c.plan # 0 /\ messages[c.m].command = "say"
  /\ planState[c.plan] # "intake"
  /\ comments' = IF \E pair \in comments : pair[1] = c.m THEN comments
                 ELSE comments \union {<<c.m, c.plan>>}
  /\ Touches(c, c.plan)
  /\ GoesTo(c, "save")
  /\ UNCHANGED <<messages, inFlight, begun, planState, plannerTurns, intake, wakes,
                 replyVars, roomFaults, interrupted>>

Draft(c) ==
  /\ c.pc = "effect" /\ c.plan # 0 /\ messages[c.m].command = "draft"
  /\ IF planState[c.plan] = "intake"
     THEN GoesTo(c, "ask") /\ UNCHANGED <<messages, inFlight, plansVars, replyVars, interrupted, touched>>
     ELSE Fails(c)
  /\ UNCHANGED roomFaults

Stop(c) ==
  /\ c.pc = "effect" /\ c.plan # 0 /\ messages[c.m].command = "stop"
  /\ planState' = [planState EXCEPT ![c.plan] = "cancelled"]
  /\ Touches(c, c.plan)
  /\ GoesTo(c, "wake")
  /\ UNCHANGED <<messages, inFlight, begun, plannerTurns, intake, comments, wakes,
                 replyVars, roomFaults, interrupted>>

Instructs(c) ==
  /\ c.pc = "effect" /\ c.plan # 0 /\ messages[c.m].command = "instruct"
  /\ Touches(c, c.plan)
  /\ GoesTo(c, "wake")
  /\ UNCHANGED <<messages, inFlight, plansVars, replyVars, roomFaults, interrupted>>

Wake(c) ==
  /\ c.pc = "wake"
  /\ wakes' = wakes \union {c.m}
  /\ GoesTo(c, "save")
  /\ UNCHANGED <<messages, inFlight, begun, planState, plannerTurns, intake, comments,
                 replyVars, roomFaults, interrupted, touched>>

\* add_intake_message: a message enters once.
Note(c) ==
  /\ c.pc = "note"
  /\ intake' = IF \E pair \in intake : pair[1] = c.m THEN intake
               ELSE intake \union {<<c.m, c.plan>>}
  /\ Touches(c, c.plan)
  /\ GoesTo(c, "ask")
  /\ UNCHANGED <<messages, inFlight, begun, planState, plannerTurns, comments, wakes,
                 replyVars, roomFaults, interrupted>>

\* reserve_astra_turn.
Ask(c) ==
  /\ c.pc = "ask"
  /\ IF plannerTurns[c.plan] < AstraCap
     THEN /\ plannerTurns' = [plannerTurns EXCEPT ![c.plan] = @ + 1]
          /\ GoesTo(c, "decide") /\ UNCHANGED planState
     ELSE /\ planState' = [planState EXCEPT ![c.plan] = "needs_input"]
          /\ GoesTo(c, "save") /\ UNCHANGED plannerTurns
  /\ Touches(c, c.plan)
  /\ UNCHANGED <<messages, inFlight, begun, intake, comments, wakes,
                 replyVars, roomFaults, interrupted>>

\* The planner asks back, whatever has become of the plan, or drafts one that
\* may still change.
Decide(c, state) ==
  /\ c.pc = "decide"
  /\ IF state = "review" /\ planState[c.plan] \notin {"intake", "review"} THEN Fails(c)
     ELSE /\ planState' = [planState EXCEPT ![c.plan] = state]
          /\ Touches(c, c.plan)
          /\ GoesTo(c, "save")
          /\ UNCHANGED <<messages, inFlight, begun, plannerTurns, intake, comments, wakes, replyVars, interrupted>>
  /\ UNCHANGED roomFaults

PlannerFails(c) ==
  /\ c.pc = "decide"
  /\ roomFaults < MaxRoomFaults /\ roomFaults' = roomFaults + 1
  /\ Fails(c)

Save(c) ==
  /\ c.pc = "save"
  /\ saved' = saved \union {c.m}
  /\ GoesTo(c, "reply")
  /\ UNCHANGED <<messages, inFlight, plansVars, replies, roomFaults, interrupted, touched>>

Reply(c) ==
  /\ c.pc = "reply"
  /\ replies' = replies \union {c.m}
  /\ calls' = calls \ {c}
  /\ UNCHANGED <<messages, inFlight, plansVars, saved, roomFaults, interrupted, touched>>

\* The gateway restarts; the requests in flight fail.
RoomCrash ==
  /\ roomFaults < MaxRoomFaults /\ roomFaults' = roomFaults + 1
  /\ interrupted' = interrupted \union {c.m : c \in calls}
  /\ calls' = {} /\ inFlight' = {}
  /\ UNCHANGED <<messages, plansVars, replyVars, touched>>

RoomNext ==
  \/ \E command \in Orders, to \in {0} \union ToSet(begun) : Says(command, to)
  \/ \E m \in Sent : Replays(m)
  \/ \E m \in Sent : Takes(m)
  \/ \E c \in calls : BeginsPlan(c)
  \/ \E c \in calls : Answer(c)
  \/ \E c \in calls : Remark(c)
  \/ \E c \in calls : Draft(c)
  \/ \E c \in calls : Stop(c)
  \/ \E c \in calls : Instructs(c)
  \/ \E c \in calls : Wake(c)
  \/ \E c \in calls : Note(c)
  \/ \E c \in calls : Ask(c)
  \/ \E c \in calls, state \in {"intake", "review"} : Decide(c, state)
  \/ \E c \in calls : PlannerFails(c)
  \/ \E c \in calls : Save(c)
  \/ \E c \in calls : Reply(c)
  \/ RoomCrash

RoomSpec == RoomInit /\ [][RoomNext]_roomVars

-----------------------------------------------------------------------------
(* Properties. *)

\* A message is about one plan, however often it is forwarded and whatever
\* plans begin and end in between.  (A handler that crashed or raised is run
\* again: a stop may then end a second plan.)
OneMessageOnePlan ==
  \A m \in Sent \ interrupted : Cardinality({pair \in touched : pair[1] = m}) <= 1

=============================================================================
