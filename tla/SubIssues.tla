------------------------------- MODULE SubIssues -------------------------------
(***************************************************************************)
(* What an approval makes of a plan's checklist: one sub-issue for each    *)
(* item, nested like the items, each blocked by the sibling before it, and *)
(* a row of plan_deliverables for each.  Every call of GitHub may fail, or *)
(* take effect and lose its answer; the approval is then repeated, and the *)
(* marker in an issue's body tells whether the item has its issue already. *)
(* An action key remembers a version whose issues are complete.            *)
(*                                                                         *)
(* External: the issues of GitHub, the owner, and who approves: Matrix,    *)
(* the label, the comment "/approve", which themselves are in Webhooks.    *)
(***************************************************************************)
EXTENDS Naturals, Sequences, SequencesExt

CONSTANTS
  Approvals,      \* requests of approval that are handled at the same time
  Outline,        \* the checklists, by version: each item's parent, 0 for the plan
  MaxIssueFaults  \* bound: failed calls and crashes, together

Revisions == DOMAIN Outline
Items(v) == DOMAIN Outline[v]

ASSUME SubIssuesAssumption ==
  /\ Outline \in Seq(Seq(Nat)) /\ Outline # <<>>
  /\ \A v \in Revisions : Outline[v] # <<>> /\ \A i \in Items(v) : Outline[v][i] < i
  /\ MaxIssueFaults \in Nat

VARIABLES
  revision,     \* plans.current_version
  granted,      \* approvals: the version approved, or 0
  stage,        \* plans.state
  subissues,    \* external: the sub-issues in the order of creation, [item, text, parent]
  blocking,     \* external: the dependencies, <<blocker, blocked>>
  action,       \* external_actions: by version, [state, children]
  approving,    \* each request, [pc, v, seen, children, i]
  delivered,    \* plan_deliverables: the issues of its rows, in order
  issueFaults   \* faults so far

issueVars == <<revision, granted, stage, subissues, blocking, action, approving, delivered, issueFaults>>

NoRequest == [pc |-> "idle", v |-> 0, seen |-> <<>>, children |-> <<>>, i |-> 1]
Issues == DOMAIN subissues
SubIssue == [item : Nat \ {0}, text : Revisions, parent : Nat]

SubIssuesTypeOK ==
  /\ revision \in Revisions /\ granted \in {0} \union Revisions
  /\ stage \in {"review", "accepted", "decomposed"}
  /\ subissues \in Seq(SubIssue)
  /\ blocking \subseteq Issues \X Issues
  /\ action \in [Revisions -> [state : {"none", "pending", "complete"}, children : Seq(Issues)]]
  /\ \A t \in Approvals :
       /\ approving[t].pc \in {"idle", "begin", "list", "child", "order", "complete", "decompose", "register"}
       /\ approving[t].v \in {0} \union Revisions /\ approving[t].i \in Nat \ {0}
       /\ approving[t].seen \in Seq(SubIssue) /\ approving[t].children \in Seq(Issues)
  /\ delivered \in Seq(Issues)
  /\ issueFaults \in 0..MaxIssueFaults

SubIssuesInit ==
  /\ revision = 1 /\ granted = 0 /\ stage = "review"
  /\ subissues = <<>> /\ blocking = {}
  /\ action = [v \in Revisions |-> [state |-> "none", children |-> <<>>]]
  /\ approving = [t \in Approvals |-> NoRequest]
  /\ delivered = <<>> /\ issueFaults = 0

-----------------------------------------------------------------------------
(* The owner. *)

\* The approval is removed, by the owner or by a replan of Luna's.
Withdraw ==
  /\ granted # 0 /\ granted' = 0 /\ stage' = "review"
  /\ UNCHANGED <<revision, subissues, blocking, action, approving, delivered, issueFaults>>

\* A plan that is not approved gets its next version.
Revise ==
  /\ granted = 0 /\ revision + 1 \in Revisions
  /\ revision' = revision + 1 /\ stage' = "review"
  /\ UNCHANGED <<granted, subissues, blocking, action, approving, delivered, issueFaults>>

-----------------------------------------------------------------------------
(* Coordinator.approve. *)

At(t, pc) == approving[t].pc = pc
Moves(t, request) == approving' = [approving EXCEPT ![t] = request]
Turns(t, pc) == Moves(t, [approving[t] EXCEPT !.pc = pc, !.i = 1])

\* The transaction: the current version is approved.  A plan that went
\* further already is left as it is.
Grant(t) ==
  /\ At(t, "idle")
  /\ granted \in {0, revision}
  /\ granted' = revision
  /\ IF granted # 0 /\ stage = "decomposed" THEN UNCHANGED <<stage, approving>>
     ELSE /\ stage' = "accepted"
          /\ Moves(t, [NoRequest EXCEPT !.pc = "begin", !.v = revision])
  /\ UNCHANGED <<revision, subissues, blocking, action, delivered, issueFaults>>

BeginAction(t) ==
  LET v == approving[t].v
  IN /\ At(t, "begin")
     /\ IF action[v].state = "complete"
        THEN /\ Moves(t, [approving[t] EXCEPT !.pc = "decompose", !.children = action[v].children])
             /\ UNCHANGED action
        ELSE Turns(t, "list") /\ action' = [action EXCEPT ![v].state = "pending"]
     /\ UNCHANGED <<revision, granted, stage, subissues, blocking, delivered, issueFaults>>

\* create_deliverables lists the issues there are ...
List(t) ==
  /\ At(t, "list")
  /\ Moves(t, [approving[t] EXCEPT !.pc = "child", !.seen = subissues])
  /\ UNCHANGED <<revision, granted, stage, subissues, blocking, action, delivered, issueFaults>>

\* ... and finds by its marker that of the item, the newest first.
Marked(request) == {n \in DOMAIN request.seen : request.seen[n].item = request.i}
Newest(S) == CHOOSE n \in S : \A m \in S : m <= n

ParentOf(request) ==
  LET parent == Outline[request.v][request.i]
  IN IF parent = 0 THEN 0 ELSE request.children[parent]
Posted(request) ==
  Append(subissues, [item |-> request.i, text |-> request.v, parent |-> ParentOf(request)])

\* The next item has its issue n.
HasChild(t, n) ==
  LET children == Append(approving[t].children, n)
      last == approving[t].i = Len(Outline[approving[t].v])
  IN Moves(t, [approving[t] EXCEPT !.children = children,
                                   !.i = IF last THEN 1 ELSE @ + 1,
                                   !.pc = IF last THEN "order" ELSE "child"])

\* Mutant: the markers are not looked for.
CreateAnew(t) ==
  /\ At(t, "child")
  /\ subissues' = Posted(approving[t]) /\ HasChild(t, Len(subissues'))
  /\ UNCHANGED <<revision, granted, stage, blocking, action, delivered, issueFaults>>

\* An item's issue is brought up to date or created.
Written(request) ==
  IF Marked(request) = {} THEN Posted(request)
  ELSE LET n == Newest(Marked(request))
       IN IF request.seen[n].text = request.v THEN subissues
          ELSE [subissues EXCEPT ![n].text = request.v]

Child(t) ==
  LET r == approving[t]
  IN /\ At(t, "child")
     /\ subissues' = Written(r)
     /\ HasChild(t, IF Marked(r) = {} THEN Len(subissues) + 1 ELSE Newest(Marked(r)))
     /\ UNCHANGED <<revision, granted, stage, blocking, action, delivered, issueFaults>>

\* The sibling before item i in version v, if it has one.
Before(v, i) == {j \in 1..(i - 1) : Outline[v][j] = Outline[v][i] /\
                   \A k \in (j + 1)..(i - 1) : Outline[v][k] # Outline[v][i]}

Blockers(request) ==
  {<<request.children[j], request.children[request.i]>> : j \in Before(request.v, request.i)}

\* Each issue is blocked by the sibling before it.
Order(t) ==
  LET r == approving[t]
  IN /\ At(t, "order")
     /\ IF r.i > Len(r.children) THEN Turns(t, "complete") /\ UNCHANGED blocking
        ELSE blocking' = blocking \union Blockers(r) /\ Moves(t, [r EXCEPT !.i = @ + 1])
     /\ UNCHANGED <<revision, granted, stage, subissues, action, delivered, issueFaults>>

CompleteAction(t) ==
  /\ At(t, "complete") /\ Turns(t, "decompose")
  /\ action' = [action EXCEPT ![approving[t].v] = [state |-> "complete", children |-> approving[t].children]]
  /\ UNCHANGED <<revision, granted, stage, subissues, blocking, delivered, issueFaults>>

Decomposes(t) ==
  /\ At(t, "decompose") /\ Turns(t, "register")
  /\ stage' = "decomposed"
  /\ UNCHANGED <<revision, granted, subissues, blocking, action, delivered, issueFaults>>

\* register_deliverables raises when the plan has other rows already.
Registers(t) ==
  /\ At(t, "register") /\ Moves(t, NoRequest)
  /\ delivered' = IF delivered = <<>> THEN approving[t].children ELSE delivered
  /\ UNCHANGED <<revision, granted, stage, subissues, blocking, action, issueFaults>>

IssueFault == issueFaults < MaxIssueFaults /\ issueFaults' = issueFaults + 1

\* A call of GitHub fails, before or after it took effect: fail_action.
GitHubFails(t) ==
  LET r == approving[t]
  IN /\ IssueFault
     /\ \/ r.pc = "list" /\ UNCHANGED <<subissues, blocking>>
        \/ r.pc = "child" /\ subissues' \in {subissues, Written(r)} /\ UNCHANGED blocking
        \/ /\ r.pc = "order" /\ r.i <= Len(r.children)
           /\ blocking' \in {blocking, blocking \union Blockers(r)} /\ UNCHANGED subissues
     /\ Moves(t, NoRequest)
     /\ action' = [action EXCEPT ![r.v].state = "pending"]
     /\ UNCHANGED <<revision, granted, stage, delivered>>

IssueCrash ==
  /\ IssueFault
  /\ approving' = [t \in Approvals |-> NoRequest]
  /\ UNCHANGED <<revision, granted, stage, subissues, blocking, action, delivered>>

SubIssuesNext ==
  \/ Withdraw
  \/ Revise
  \/ \E t \in Approvals : Grant(t)
  \/ \E t \in Approvals : BeginAction(t)
  \/ \E t \in Approvals : List(t)
  \/ \E t \in Approvals : Child(t)
  \/ \E t \in Approvals : Order(t)
  \/ \E t \in Approvals : CompleteAction(t)
  \/ \E t \in Approvals : Decomposes(t)
  \/ \E t \in Approvals : Registers(t)
  \/ \E t \in Approvals : GitHubFails(t)
  \/ IssueCrash

SubIssuesSpec == SubIssuesInit /\ [][SubIssuesNext]_issueVars

-----------------------------------------------------------------------------
(* Properties. *)

\* "Duplicate Matrix events, GitHub deliveries, and Argo callbacks must not
\* create duplicate issues or runs" (matrix_development_coordination.md:181):
\* an item has one issue, however often its approval fails and is repeated.
OneIssueEach ==
  \A m, n \in Issues : subissues[m].item = subissues[n].item => m = n

=============================================================================
