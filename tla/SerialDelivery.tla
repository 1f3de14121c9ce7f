---------------------------- MODULE SerialDelivery ----------------------------
(***************************************************************************)
(* What the gateway promises of a plan's deliverables, whatever threads,   *)
(* crashes, edits and owner commands do: they go through five stages, one  *)
(* deliverable at a time and in checklist order.                           *)
(***************************************************************************)
EXTENDS Naturals

CONSTANT MaxPosition

Positions == 1..MaxPosition
Stages == {"absent", "waiting", "active", "broken", "done"}

VARIABLE stage

TypeOK == stage \in [Positions -> Stages]

Init == stage = [p \in Positions |-> "absent"]

\* The checklist of the first approved version becomes the deliverables.
Register(n) ==
  /\ \A p \in Positions : stage[p] = "absent"
  /\ stage' = [p \in Positions |-> IF p <= n THEN "waiting" ELSE "absent"]

\* The first deliverable that is not done starts.
Start(p) ==
  /\ stage[p] = "waiting"
  /\ \A q \in 1..(p - 1) : stage[q] = "done"
  /\ stage' = [stage EXCEPT ![p] = "active"]

Finish(p) ==
  /\ stage[p] = "active"
  /\ stage' = [stage EXCEPT ![p] = "done"]

Break(p) ==
  /\ stage[p] = "active"
  /\ stage' = [stage EXCEPT ![p] = "broken"]

Retry(p) ==
  /\ stage[p] = "broken"
  /\ stage' = [stage EXCEPT ![p] = "waiting"]

Next == \E p \in Positions : Register(p) \/ Start(p) \/ Finish(p) \/ Break(p) \/ Retry(p)

Spec == Init /\ [][Next]_stage

=============================================================================
