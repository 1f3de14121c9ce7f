------------------------------- MODULE Closing -------------------------------
(***************************************************************************)
(* The end of a plan on GitHub: each pass of the delivery reconciler       *)
(* closes the plan's issue once the plan is completed, and the plan's and  *)
(* every registered deliverable's issue once it is cancelled, each under a *)
(* key of the table of external actions, so that it is done until it has   *)
(* been done.  A request to GitHub may fail, take effect without a reply,  *)
(* and the gateway may stop anywhere.                                      *)
(*                                                                         *)
(* External: GitHub.  What its users do to the issues is left out.         *)
(***************************************************************************)
EXTENDS Naturals, FiniteSets

CONSTANTS
  Deliverables,     \* the sub-issues of the plan
  MaxClosingFaults  \* bound: failed requests, crashes and late dispatches

ASSUME ClosingAssumption == MaxClosingFaults \in Nat

Issues == Deliverables \union {"plan"}

VARIABLES
  fate,        \* plans.state, as far as closing goes
  registeredIssues,  \* the issues of plan_deliverables
  endedKeys,       \* external_actions: the keys that are complete, by kind and issue
  todo,        \* the reconciler: the keys of the pass that are still to come
  closingKey,     \* ... the key whose request is at GitHub
  issueOpen,   \* external: the issues that are open
  closingFaults

closingVars == <<fate, registeredIssues, endedKeys, todo, closingKey, issueOpen, closingFaults>>

Keys == [kind : {"close-plan", "close-cancelled"}, issue : Issues]
NoKey == [kind |-> "-", issue |-> "-"]

ClosingTypeOK ==
  /\ fate \in {"running", "completed", "cancelled"}
  /\ registeredIssues \subseteq Deliverables
  /\ endedKeys \subseteq Keys /\ todo \subseteq Keys /\ closingKey \in Keys \union {NoKey}
  /\ issueOpen \subseteq Issues /\ closingFaults \in 0..MaxClosingFaults

\* A plan whose issues are created, and not yet registered.
ClosingInit ==
  /\ fate = "running" /\ registeredIssues = {} /\ endedKeys = {} /\ todo = {} /\ closingKey = NoKey
  /\ issueOpen = Issues /\ closingFaults = 0

ClosingFault == closingFaults < MaxClosingFaults /\ closingFaults' = closingFaults + 1

\* register_deliverables: all of them, whatever has become of the plan meanwhile.
RegistersAll ==
  /\ registeredIssues = {} /\ registeredIssues' = Deliverables
  /\ UNCHANGED <<fate, endedKeys, todo, closingKey, issueOpen, closingFaults>>

\* The last merge, or the owner's cancel.
PlanEnds ==
  /\ fate = "running"
  /\ \/ fate' = "completed" /\ registeredIssues # {}
     \/ fate' = "cancelled"
  /\ UNCHANGED <<registeredIssues, endedKeys, todo, closingKey, issueOpen, closingFaults>>

\* The keys a pass goes through: completed_plans, cancelled_plans and the issues.
KeysOfPass ==
  IF fate = "completed" THEN {[kind |-> "close-plan", issue |-> "plan"]}
  ELSE IF fate = "cancelled" THEN [kind : {"close-cancelled"}, issue : registeredIssues \union {"plan"}]
  ELSE {}

PassBegins ==
  /\ todo = {} /\ closingKey = NoKey /\ KeysOfPass # {} /\ todo' = KeysOfPass
  /\ UNCHANGED <<fate, registeredIssues, endedKeys, closingKey, issueOpen, closingFaults>>

\* begin_action: a key that is complete is passed over.
BeginsClosing(k) ==
  /\ k \in todo /\ closingKey = NoKey /\ todo' = todo \ {k}
  /\ closingKey' = IF k \in endedKeys THEN NoKey ELSE k
  /\ UNCHANGED <<fate, registeredIssues, endedKeys, issueOpen, closingFaults>>

\* update_issue_state answers, and the key is complete.
IssueCloses ==
  /\ closingKey # NoKey /\ closingKey' = NoKey
  /\ issueOpen' = issueOpen \ {closingKey.issue} /\ endedKeys' = endedKeys \union {closingKey}
  /\ UNCHANGED <<fate, registeredIssues, todo, closingFaults>>

\* Mutant: a request that fails is taken to be done.
ClosingFailsForGood ==
  /\ closingKey # NoKey /\ closingKey' = NoKey /\ ClosingFault
  /\ issueOpen' \in {issueOpen, issueOpen \ {closingKey.issue}} /\ endedKeys' = endedKeys \union {closingKey}
  /\ UNCHANGED <<fate, registeredIssues, todo>>

\* It fails, whether or not the issue was closed, and the key is left pending.
ClosingFails ==
  /\ closingKey # NoKey /\ closingKey' = NoKey /\ ClosingFault
  /\ issueOpen' \in {issueOpen, issueOpen \ {closingKey.issue}}
  /\ UNCHANGED <<fate, registeredIssues, endedKeys, todo>>

\* The gateway stops and starts again.
ClosingCrash ==
  /\ todo # {} \/ closingKey # NoKey
  /\ ClosingFault /\ todo' = {} /\ closingKey' = NoKey
  /\ issueOpen' \in {issueOpen, issueOpen \ {closingKey.issue}}
  /\ UNCHANGED <<fate, registeredIssues, endedKeys>>

\* A turn that was running when the owner cancelled dispatches all the same.
Revives ==
  /\ fate = "cancelled" /\ registeredIssues # {} /\ fate' = "running" /\ ClosingFault
  /\ UNCHANGED <<registeredIssues, endedKeys, todo, closingKey, issueOpen>>

ClosingPass ==
  \/ PassBegins \/ IssueCloses \/ \E k \in Keys : BeginsClosing(k)

ClosingNext ==
  \/ RegistersAll \/ PlanEnds \/ ClosingPass
  \/ ClosingFails \/ ClosingCrash \/ Revives

ClosingSpec == ClosingInit /\ [][ClosingNext]_closingVars
ClosingFairSpec == ClosingSpec /\ WF_closingVars(ClosingPass)

-----------------------------------------------------------------------------
(* Properties. *)

\* Nothing is open that should be closed: no issue of a cancelled plan, and not the
\* issue of a completed one.
NoneOpen ==
  /\ fate = "cancelled" => issueOpen \intersect (registeredIssues \union {"plan"}) = {}
  /\ fate = "completed" => "plan" \notin issueOpen

\* Whatever fails and however often, whether an issue is registered before the
\* cancel or after it, and where an earlier cancel has closed it under another key,
\* there always comes a time when nothing is open that should be closed.
EndedIsClosed == []<>NoneOpen
=============================================================================
