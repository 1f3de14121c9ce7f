------------------------------- MODULE Webhooks -------------------------------
(***************************************************************************)
(* GitHub's webhooks and what the gateway makes of them.  GitHub owes the  *)
(* gateway one delivery for each thing its users do to the issue of a      *)
(* plan; deliveries arrive in any order, several threads handle them, and  *)
(* one that fails or takes too long is delivered again.  The identity of a *)
(* delivery is admitted before it is handled and released when its handler *)
(* raises.                                                                 *)
(*                                                                         *)
(* GitHub is external: the body of the issue, its approval label and the   *)
(* deliveries.  The edits it reports of the gateway's own writes are left  *)
(* out, their text being the one already recorded.                         *)
(***************************************************************************)
EXTENDS Integers, Sequences, SequencesExt

CONSTANTS
  HookThreads,    \* threads of the HTTP server
  Luna,           \* the thread of the reconcile loop, in a turn of Luna
  OwnerKinds,     \* bound: the kinds of things the users do in this instance
  MaxDeliveries,  \* bound: deliveries
  MaxHookFaults   \* bound: failed calls, timeouts of GitHub and crashes, together

DeliveryKinds == {"edited", "labeled", "unlabeled", "approve", "commented", "pushed"}

ASSUME WebhooksAssumption ==
  /\ MaxDeliveries \in Nat /\ MaxHookFaults \in Nat
  /\ Luna \notin HookThreads /\ OwnerKinds \subseteq DeliveryKinds

\* A text is named by the delivery that brought it; the first draft is 0.
Texts == 0..MaxDeliveries
Threads == HookThreads \union {Luna}

VARIABLES
  deliveries,   \* external: what happened to the issue, [kind, text, by], in order
  response,     \* external: how GitHub sees each delivery
  issue,        \* external: the text of the issue
  label,        \* external: whether the issue is labelled workflow/approved
  admitted,     \* inbound_events of source github
  worker,       \* each thread: its delivery, its program counter, the version it read
  versions,     \* plan_versions: their texts; the current version is the last one
  approved,     \* approvals: the delivery that approved, or 0
  phase,        \* plans.state
  issued,       \* external_actions: texts whose deliverables were created
  registered,   \* plan_deliverables: the text whose sub-issues they are, or -1
  rows,         \* coordinator_events and plan_comments, by their keys
  faults,       \* faults so far
  overtaken     \* history: deliveries answered while a thread had them, or lost in a crash

githubVars == <<deliveries, response, issue, label>>
hookPlanVars == <<versions, approved, phase, issued, registered>>
hookVars == <<githubVars, admitted, worker, hookPlanVars, rows, faults, overtaken>>

Idle == [d |-> 0, pc |-> "idle", n |-> 0]
Arrived == 1..Len(deliveries)
KindOf(d) == deliveries[d].kind
TextOf(d) == deliveries[d].text

HookTypeOK ==
  /\ deliveries \in Seq([kind : DeliveryKinds, text : Texts, by : {"owner", "luna"}])
  /\ Len(deliveries) <= MaxDeliveries
  /\ response \in [Arrived -> {"due", "waiting", "failed", "answered"}]
  /\ issue \in Texts /\ label \in BOOLEAN
  /\ admitted \subseteq Arrived /\ overtaken \subseteq Arrived
  /\ worker \in [Threads -> [d : 0..MaxDeliveries, n : 0..(MaxDeliveries + 1),
       pc : {"idle", "read", "label", "check", "publish", "commit", "approve", "children",
             "decompose", "register", "notify", "reopen", "notice", "queue", "comment"}]]
  /\ versions \in Seq(Texts) /\ Len(versions) \in 1..(MaxDeliveries + 1)
  /\ approved \in {0} \union Arrived
  /\ phase \in {"review", "accepted", "decomposed"}
  /\ issued \subseteq Texts /\ registered \in {-1} \union Texts
  /\ rows \subseteq {"event", "comment", "approval", "removed"} \X (0..MaxDeliveries)
  /\ faults \in 0..MaxHookFaults

\* A drafted plan in review, for the first time, or again after Luna dispatched
\* deliverables of its first version.
HookInit ==
  /\ deliveries = <<>> /\ response = <<>> /\ issue = 0 /\ label = FALSE
  /\ admitted = {} /\ worker = [t \in Threads |-> Idle]
  /\ versions = <<0>> /\ approved = 0 /\ phase = "review"
  /\ \/ issued = {} /\ registered = -1
     \/ issued = {0} /\ registered = 0
  /\ rows = {} /\ faults = 0 /\ overtaken = {}

-----------------------------------------------------------------------------
(* GitHub and its users. *)

\* A delivery becomes due.
Reports(kind, text, by) ==
  /\ Len(deliveries) < MaxDeliveries
  /\ deliveries' = Append(deliveries, [kind |-> kind, text |-> text, by |-> by])
  /\ response' = Append(response, "due")

\* The owner edits the body, puts or removes the label, comments, comments
\* "/approve", or pushes to the repository.
OwnerActs(kind) ==
  /\ issue' = IF kind = "edited" THEN Len(deliveries) + 1 ELSE issue
  /\ kind = "labeled" => ~label
  /\ kind = "unlabeled" => label
  /\ label' = ((label \/ kind = "labeled") /\ kind # "unlabeled")
  /\ Reports(kind, issue', "owner")
  /\ UNCHANGED <<admitted, worker, hookPlanVars, rows, faults, overtaken>>

\* GitHub hears nothing for ten seconds.
GitHubGivesUp(d) ==
  /\ response[d] = "waiting"
  /\ response' = [response EXCEPT ![d] = "failed"]
  /\ faults < MaxHookFaults /\ faults' = faults + 1
  /\ UNCHANGED <<deliveries, issue, label, admitted, worker, hookPlanVars, rows, overtaken>>

-----------------------------------------------------------------------------
(* The threads.  A delivery's program counter names the next step of its  *)
(* handler; Luna's thread has the delivery 0.                              *)

Goes(t, pc) == worker' = [worker EXCEPT ![t].pc = pc]

\* GitHub takes an answer for as long as it waits for one.
Answers(d, answer) ==
  response' = [e \in Arrived |-> IF e = d /\ response[e] = "waiting" THEN answer ELSE response[e]]

\* The handler returns.
Returns(t) ==
  /\ worker' = [worker EXCEPT ![t] = Idle]
  /\ Answers(worker[t].d, "answered")
  /\ UNCHANGED <<deliveries, admitted>>

\* Mutant: the identity is released only when the call of GitHub failed that
\* creates issues.
KeepsIdentity(t) ==
  /\ worker' = [worker EXCEPT ![t] = Idle]
  /\ Answers(worker[t].d, "failed")
  /\ admitted' = IF worker[t].pc # "children" THEN admitted ELSE admitted \ {worker[t].d}
  /\ UNCHANGED <<deliveries>>

\* The handler raises: the identity is released and the answer is an error.
Raises(t) ==
  /\ worker' = [worker EXCEPT ![t] = Idle]
  /\ Answers(worker[t].d, "failed")
  /\ admitted' = admitted \ {worker[t].d}
  /\ UNCHANGED <<deliveries>>

\* The handler goes on.
Continues(t, pc) == Goes(t, pc) /\ UNCHANGED <<deliveries, response, admitted>>

\* A call of GitHub fails.
CallFails(t) ==
  /\ worker[t].pc \in {"read", "label", "publish", "children"}
  /\ faults < MaxHookFaults /\ faults' = faults + 1
  /\ Raises(t)
  /\ UNCHANGED <<issue, label, hookPlanVars, rows, overtaken>>

FirstStep ==
  [edited |-> "check", labeled |-> "read", approve |-> "read",
   unlabeled |-> "reopen", commented |-> "queue", pushed |-> "queue"]

\* GitHubWebhook.handle: a known identity is answered at once.
Admit(t, d) ==
  /\ worker[t] = Idle
  /\ response[d] \in {"due", "failed"}
  /\ IF d \in admitted
     THEN /\ response' = [response EXCEPT ![d] = "answered"]
          /\ overtaken' = overtaken \union {e \in {d} : \E u \in HookThreads : worker[u].d = e}
          /\ UNCHANGED <<admitted, worker>>
     ELSE /\ response' = [response EXCEPT ![d] = "waiting"]
          /\ admitted' = admitted \union {d}
          /\ worker' = [worker EXCEPT ![t] = [d |-> d, pc |-> FirstStep[KindOf(d)], n |-> 0]]
          /\ UNCHANGED overtaken
  /\ UNCHANGED <<deliveries, issue, label, hookPlanVars, rows, faults>>

\* The issue as it is now must be the one the delivery carries.
Read(t) ==
  /\ worker[t].pc = "read"
  /\ IF issue # TextOf(worker[t].d) THEN Raises(t)
     ELSE Continues(t, IF KindOf(worker[t].d) = "approve" THEN "label" ELSE "check")
  /\ UNCHANGED <<issue, label, hookPlanVars, rows, faults, overtaken>>

\* apply_label, after a comment "/approve".  GitHub reports a change.
Label(t) ==
  /\ worker[t].pc = "label"
  /\ Goes(t, "check")
  /\ label' = TRUE
  /\ IF label THEN UNCHANGED <<deliveries, response>>
     ELSE Reports("labeled", issue, "owner") \/ (Len(deliveries) = MaxDeliveries /\ UNCHANGED <<deliveries, response>>)
  /\ UNCHANGED <<issue, admitted, hookPlanVars, rows, faults, overtaken>>

\* record_github_edit, up to the call of GitHub.
Check(t) ==
  LET d == worker[t].d
      next == IF KindOf(d) = "edited" THEN "queue" ELSE "approve"
  IN /\ worker[t].pc = "check"
     /\ IF Last(versions) = TextOf(d) THEN Continues(t, next)
        ELSE IF approved # 0 THEN Raises(t)
        ELSE /\ worker' = [worker EXCEPT ![t] = [d |-> d, pc |-> "publish", n |-> Len(versions)]]
             /\ UNCHANGED <<deliveries, response, admitted>>
     /\ UNCHANGED <<issue, label, hookPlanVars, rows, faults, overtaken>>

\* publish_plan writes the text of the delivery to the issue.
Publish(t) ==
  /\ worker[t].pc = "publish"
  /\ issue' = TextOf(worker[t].d)
  /\ Continues(t, "commit")
  /\ UNCHANGED <<label, hookPlanVars, rows, faults, overtaken>>

\* The new version.  Its number may have been taken in the meantime, and a
\* text is a version once: the hash is unique.
Commit(t) ==
  LET d == worker[t].d
  IN /\ worker[t].pc = "commit"
     /\ IF Len(versions) # worker[t].n \/ TextOf(d) \in ToSet(versions)
        THEN Raises(t) /\ UNCHANGED hookPlanVars
        ELSE /\ versions' = Append(versions, TextOf(d)) /\ phase' = "review"
             /\ Continues(t, IF KindOf(d) = "edited" THEN "queue" ELSE "approve")
             /\ UNCHANGED <<approved, issued, registered>>
     /\ UNCHANGED <<issue, label, rows, faults, overtaken>>

\* The transaction of Coordinator.approve.
Approve(t) ==
  LET d == worker[t].d
      already == approved # 0 /\ phase = "decomposed"
  IN /\ worker[t].pc = "approve"
     /\ IF Last(versions) # TextOf(d) \/ (approved # 0 /\ TextOf(approved) # TextOf(d))
        THEN Raises(t) /\ UNCHANGED hookPlanVars
        ELSE /\ approved' = IF approved = 0 THEN d ELSE approved
             /\ phase' = IF already THEN phase ELSE "accepted"
             /\ IF already THEN Returns(t) ELSE Continues(t, "children")
             /\ UNCHANGED <<versions, issued, registered>>
     /\ UNCHANGED <<issue, label, rows, faults, overtaken>>

\* create_deliverables under its action key: once complete it is not repeated.
Children(t) ==
  /\ worker[t].pc = "children"
  /\ issued' = issued \union {TextOf(worker[t].d)}
  /\ Continues(t, "decompose")
  /\ UNCHANGED <<issue, label, versions, approved, phase, registered, rows, faults, overtaken>>

Decompose(t) ==
  /\ worker[t].pc = "decompose"
  /\ phase' = "decomposed"
  /\ Continues(t, "register")
  /\ UNCHANGED <<issue, label, versions, approved, issued, registered, rows, faults, overtaken>>

\* register_deliverables raises when the plan has others already; those of a
\* new text may be the same issues.
Register(t) ==
  LET text == TextOf(worker[t].d)
  IN /\ worker[t].pc = "register"
     /\ \/ /\ registered' = IF registered = -1 THEN text ELSE registered
           /\ Continues(t, "notify")
        \/ /\ registered \notin {-1, text} /\ UNCHANGED registered
           /\ Raises(t)
     /\ UNCHANGED <<issue, label, versions, approved, phase, issued, rows, faults, overtaken>>

\* reopen_review, of Luna or of the removal of the label.
Reopen(t) ==
  /\ worker[t].pc = "reopen"
  /\ approved' = 0 /\ phase' = "review"
  /\ IF approved # 0 \/ phase # "review" THEN Continues(t, "notice") ELSE Returns(t)
  /\ UNCHANGED <<issue, label, versions, issued, registered, rows, faults, overtaken>>

\* The last writes of a handler: an event for Luna, or a comment.
Record(t, pc, row) ==
  /\ worker[t].pc = pc
  /\ rows' = rows \union {<<row, worker[t].d>>}
  /\ UNCHANGED <<issue, label, hookPlanVars, faults, overtaken>>

Notify(t)  == Record(t, "notify", "approval") /\ Returns(t)
Notice(t)  == Record(t, "notice", "removed") /\ Returns(t)
Comment(t) == Record(t, "comment", "comment") /\ Returns(t)

\* A push concerns the plans whose work has begun.
Queue(t) ==
  LET kind == KindOf(worker[t].d)
      next == IF kind = "commented" THEN Continues(t, "comment") ELSE Returns(t)
  IN \/ Record(t, "queue", "event") /\ next
        /\ (kind = "pushed" => phase \in {"accepted", "decomposed"})
     \/ /\ worker[t].pc = "queue" /\ kind = "pushed" /\ phase = "review"
        /\ Returns(t)
        /\ UNCHANGED <<issue, label, hookPlanVars, rows, faults, overtaken>>

\* Luna's request_replan takes the label off, which GitHub reports, and does
\* not wait for the report.
Replan ==
  /\ worker[Luna] = Idle /\ phase = "decomposed"
  /\ Goes(Luna, "reopen")
  /\ label' = FALSE
  /\ IF label THEN Reports("unlabeled", issue, "luna") ELSE UNCHANGED <<deliveries, response>>
  /\ UNCHANGED <<issue, admitted, hookPlanVars, rows, faults, overtaken>>

\* The gateway restarts: what its threads had admitted stays admitted.
HookCrash ==
  /\ faults < MaxHookFaults /\ faults' = faults + 1
  /\ overtaken' = overtaken \union ({worker[t].d : t \in Threads} \ {0})
  /\ worker' = [t \in Threads |-> Idle]
  /\ response' = [d \in Arrived |-> IF response[d] = "waiting" THEN "failed" ELSE response[d]]
  /\ UNCHANGED <<deliveries, issue, label, admitted, hookPlanVars, rows>>

HookNext ==
  \/ \E kind \in OwnerKinds : OwnerActs(kind)
  \/ \E d \in Arrived : GitHubGivesUp(d)
  \/ \E t \in HookThreads, d \in Arrived : Admit(t, d)
  \/ \E t \in HookThreads : CallFails(t)
  \/ \E t \in HookThreads : Read(t)
  \/ \E t \in HookThreads : Label(t)
  \/ \E t \in HookThreads : Check(t)
  \/ \E t \in HookThreads : Publish(t)
  \/ \E t \in HookThreads : Commit(t)
  \/ \E t \in HookThreads : Approve(t)
  \/ \E t \in HookThreads : Children(t)
  \/ \E t \in HookThreads : Decompose(t)
  \/ \E t \in HookThreads : Register(t)
  \/ \E t \in Threads : Reopen(t)
  \/ \E t \in HookThreads : Notify(t)
  \/ \E t \in Threads : Notice(t)
  \/ \E t \in HookThreads : Queue(t)
  \/ \E t \in HookThreads : Comment(t)
  \/ Replan
  \/ HookCrash

HookSpec == HookInit /\ [][HookNext]_hookVars

-----------------------------------------------------------------------------
(* Properties. *)

\* What a delivery must have left behind.
RowsOf(d) ==
  CASE KindOf(d) = "edited"    -> {<<"event", d>>}
    [] KindOf(d) = "commented" -> {<<"event", d>>, <<"comment", d>>}
    [] OTHER -> {}

\* A delivery that GitHub takes for handled has had its effects, whatever
\* failed or was repeated on the way: an edit is a version and an event, a
\* comment is an event and a note.  (Not so when GitHub was answered while the
\* first attempt was still running, or after a crash: webhooks.py admits the
\* delivery before it handles it.)
AnsweredIsRecorded ==
  \A d \in Arrived : response[d] = "answered" /\ d \notin overtaken =>
    /\ RowsOf(d) \subseteq rows
    /\ KindOf(d) = "edited" => \E i \in DOMAIN versions : versions[i] = TextOf(d)

=============================================================================
