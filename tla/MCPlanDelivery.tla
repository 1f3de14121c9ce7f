---------------------------- MODULE MCPlanDelivery ----------------------------
(* Instances of PlanDelivery for TLC. *)
EXTENDS PlanDelivery

\* Every version has all the deliverables.
SameSize == [v \in 1..MaxVersion |-> MaxPosition]

\* The last version has one deliverable only.
ShrinkingSize == [v \in 1..MaxVersion |-> IF v < MaxVersion THEN MaxPosition ELSE 1]

\* The first version has one deliverable only.
GrowingSize == [v \in 1..MaxVersion |-> IF v = 1 THEN 1 ELSE MaxPosition]
=============================================================================
