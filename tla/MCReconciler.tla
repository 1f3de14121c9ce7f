----------------------------- MODULE MCReconciler -----------------------------
(***************************************************************************)
(* What the reconciler's passes must get done in the end, each on its own: *)
(* the research of a plan and what comes of it, Luna's turns, and the      *)
(* closing of the issues of plans that ended.  They share no state, so a   *)
(* behaviour is one of one of them, and the others stay as they started.   *)
(***************************************************************************)
EXTENDS PlanIntake, Closing

CONSTANTS Plans, Commands, MaxTask, MaxTraffic, BatchLimit, MaxAttempt, TurnCap

VARIABLES
  duty,  \* the one the behaviour is of
  waiting, queued, claimed, done, queueTurns, queuePlan, task, work, queuePc, turn,
  allowed, owed, previous, promised, queueCrashes  \* those of LunaQueue

Queue == INSTANCE LunaQueue WITH ready <- queued, turns <- queueTurns, plan <- queuePlan,
                                 pc <- queuePc, crashes <- queueCrashes

queueVars == <<waiting, queued, claimed, done, queueTurns, queuePlan, task, work, queuePc, turn,
               allowed, owed, previous, promised, queueCrashes>>
reconcilerVars == <<duty, vars, closingVars, queueVars>>

ReconcilerInit ==
  duty \in {"research", "turns", "closing"} /\ Init /\ Queue!Init /\ ClosingInit

\* A step of one of them.
Researching(A) == duty = "research" /\ A /\ UNCHANGED <<duty, closingVars, queueVars>>
Turning(A) == duty = "turns" /\ A /\ UNCHANGED <<duty, vars, closingVars>>
Closes(A) == duty = "closing" /\ A /\ UNCHANGED <<duty, vars, queueVars>>

ReconcilerNext == Researching(Next) \/ Turning(Queue!Next) \/ Closes(ClosingNext)

Ends ==
  \/ Queue!Skip \/ Queue!ReachCap \/ Queue!RetireCapped \/ Queue!Begin
  \/ Queue!Finish \/ Queue!Continue \/ Queue!Fail

\* The fairness of PlanIntake, LunaQueue and Closing, each for the behaviours of its own.
ReconcilerFairness ==
  /\ WF_vars(duty = "research" /\ Locked) /\ WF_vars(duty = "research" /\ Reconciler)
  /\ SF_queueVars(duty = "turns" /\ Queue!Claim)
  /\ WF_queueVars(duty = "turns" /\ Queue!Report)
  /\ \A p \in Plans : /\ SF_queueVars(duty = "turns" /\ Queue!Recover(p))
                      /\ WF_queueVars(duty = "turns" /\ Queue!Mature(p))
  /\ WF_queueVars(duty = "turns" /\ Ends)
  /\ WF_queueVars(duty = "turns" /\ \E i \in DOMAIN queueTurns : Queue!ComeDue(i))
  /\ WF_queueVars(duty = "turns" /\ Queue!Deliver)
  /\ WF_closingVars(duty = "closing" /\ ClosingPass)

ReconcilerSpec == ReconcilerInit /\ [][ReconcilerNext]_reconcilerVars /\ ReconcilerFairness

\* Every event a turn holds is accounted for (LunaQueue's EventsAccounted).
EventsAccounted == Queue!EventsAccounted

\* A queued event reaches the end of a turn (LunaQueue's EventSettles).
EventSettles == duty = "turns" => Queue!EventSettles

\* A deliverable that can be dispatched does not wait for ever, even if Luna never
\* dispatches anything (LunaQueue's RunnableResolved).
TurnResolvesRunnable == duty = "turns" => Queue!RunnableResolved
=============================================================================
