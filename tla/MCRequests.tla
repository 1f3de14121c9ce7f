------------------------------ MODULE MCRequests ------------------------------
(***************************************************************************)
(* What the gateway handles, one after the other: deliveries of GitHub,    *)
(* messages of the room, the sub-issues of an approval, the merge of a     *)
(* reviewed commit, Luna's queue and the tools of her turn.  PlanDelivery  *)
(* and PlanIntake model what they share, the plan; here each runs on its   *)
(* own, so that a behaviour is one of one of them.                         *)
(***************************************************************************)
EXTENDS LunaQueue, Webhooks, RoomCommands, MCSubIssues, ReviewGate, TurnTools

VARIABLE part  \* the one the behaviour is of

Parts == {"webhooks", "room", "issues", "gate", "queue", "tools"}

RequestsInit ==
  /\ part \in Parts
  /\ HookInit /\ (part # "webhooks" => registered = -1)
  /\ RoomInit /\ SubIssuesInit /\ GateInit /\ Init /\ TurnToolsInit

RequestsNext ==
  /\ UNCHANGED part
  /\ IF part = "webhooks" THEN HookNext      ELSE UNCHANGED hookVars
  /\ IF part = "room"     THEN RoomNext      ELSE UNCHANGED roomVars
  /\ IF part = "issues"   THEN SubIssuesNext ELSE UNCHANGED issueVars
  /\ IF part = "gate"     THEN GateNext      ELSE UNCHANGED gateVars
  /\ IF part = "queue"    THEN Next          ELSE UNCHANGED vars
  /\ IF part = "tools"    THEN TurnToolsNext ELSE UNCHANGED toolVars

requestsVars == <<part, hookVars, roomVars, issueVars, gateVars, vars, toolVars>>
RequestsSpec == RequestsInit /\ [][RequestsNext]_requestsVars

\* Every variable of the part that runs has a value the code can give it.
RequestsTypeOK ==
  /\ part = "webhooks" => HookTypeOK
  /\ part = "room"     => RoomTypeOK
  /\ part = "issues"   => SubIssuesTypeOK
  /\ part = "gate"     => GateTypeOK
  /\ part = "queue"    => TypeOK
  /\ part = "tools"    => TurnToolsTypeOK
=============================================================================
