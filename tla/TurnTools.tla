------------------------------- MODULE TurnTools -------------------------------
(***************************************************************************)
(* One turn of Luna's: the model calls tools, each call is begun and       *)
(* completed as an action of the store and leaves a row in the audit.  A   *)
(* call may fail, or take effect and lose its answer; the turn is then     *)
(* replayed, by a run of the model that knows nothing of the first one.    *)
(*                                                                         *)
(* External: the model, GitHub's comments and Foreman's tasks.  Dispatch   *)
(* and retry are PlanDelivery's, revisions PlanIntake's, a replan          *)
(* Webhooks' and the queue of turns LunaQueue's.                           *)
(***************************************************************************)
EXTENDS Naturals, Sequences, SequencesExt, FiniteSets

CONSTANTS
  CommentTexts,        \* what Luna may say, ask or note
  CallIds,      \* the ids the provider gives to the calls of one run
  PageSize,     \* comments listed by one request (100)
  ScoutCap,     \* scouts of one plan (40)
  MaxAttempts,  \* attempts of a turn (5)
  MaxRounds,    \* max_tool_rounds (8)
  MaxOthers,    \* bound: comments of others
  MaxToolFaults \* bound: failed calls and crashes, together

ASSUME TurnToolsAssumption ==
  /\ {PageSize, ScoutCap, MaxOthers, MaxToolFaults} \subseteq Nat
  /\ {MaxAttempts, MaxRounds} \subseteq Nat \ {0}

\* issue_comment; post_thread; ask_owner and escalate; spawn_scout; cancel;
\* task_packet and the other tools that only read; update_notes.
Tools == {"comment", "post", "ask", "scout", "cancel", "packet", "notes"}
Call == [id : CallIds, tool : Tools, text : CommentTexts]

VARIABLES
  attempts,     \* luna_turns.attempts
  luna,         \* the run: [pc, call, used, rounds]
  actions,      \* external_actions: the keys that are complete, <<id, tool>>
  audited,      \* audit_events: the scouts counted
  issueComments,     \* external: the comments of the issue, in order; "other" is another's
  posts,        \* matrix_outbox: Luna's posts
  scouts,       \* external: the scouts there are, named by their question
  notes,        \* plan_notes, "none" without a row
  waits,        \* whether plans.state is needs_input
  toolFaults    \* faults so far

toolVars == <<attempts, luna, actions, audited, issueComments, posts, scouts, notes, waits, toolFaults>>

NoCall == [id |-> "none", tool |-> "none", text |-> "none"]
NoRun == [pc |-> "pending", call |-> NoCall, used |-> {}, rounds |-> 0]

TurnToolsTypeOK ==
  /\ attempts \in 0..MaxAttempts
  /\ luna.pc \in {"pending", "thinking", "begin", "act", "complete", "audit", "rejected", "ended", "failed"}
  /\ luna.call \in {NoCall} \union Call /\ luna.used \subseteq CallIds /\ luna.rounds \in 0..MaxRounds
  /\ actions \subseteq CallIds \X Tools
  /\ audited \in Nat
  /\ issueComments \in Seq(CommentTexts \union {"other"})
  /\ posts \subseteq {"post", "ask"} \X CommentTexts
  /\ scouts \subseteq CommentTexts
  /\ notes \in {"none"} \union CommentTexts
  /\ waits \in BOOLEAN
  /\ toolFaults \in 0..MaxToolFaults

TurnToolsInit ==
  /\ attempts = 0 /\ luna = NoRun /\ actions = {} /\ audited = 0
  /\ issueComments = <<>> /\ posts = {} /\ scouts = {} /\ notes = "none" /\ waits = FALSE
  /\ toolFaults = 0

-----------------------------------------------------------------------------
(* The run of the model. *)

Step(pc) == luna' = [luna EXCEPT !.pc = pc]

Think ==
  /\ luna.pc = "pending"
  /\ attempts' = attempts + 1
  /\ luna' = [NoRun EXCEPT !.pc = "thinking"]
  /\ UNCHANGED <<actions, audited, issueComments, posts, scouts, notes, waits, toolFaults>>

\* A response with a call: its id is new in this run, and need not be in the turn.
CallTool(id, tool, text) ==
  /\ luna.pc = "thinking" /\ luna.rounds < MaxRounds /\ id \notin luna.used
  /\ luna' = [pc |-> "begin", call |-> [id |-> id, tool |-> tool, text |-> text],
              used |-> luna.used \union {id}, rounds |-> luna.rounds + 1]
  /\ UNCHANGED <<attempts, actions, audited, issueComments, posts, scouts, notes, waits, toolFaults>>

EndRun ==
  /\ luna.pc = "thinking" /\ luna.rounds < MaxRounds /\ Step("ended")
  /\ UNCHANGED <<attempts, actions, audited, issueComments, posts, scouts, notes, waits, toolFaults>>

\* fail_luna_turn.
FailTurn ==
  IF attempts < MaxAttempts THEN luna' = NoRun /\ UNCHANGED waits
  ELSE luna' = [NoRun EXCEPT !.pc = "failed"] /\ waits' = TRUE

\* Every round was a call, or the arguments of a call are no object.
RunFails ==
  /\ luna.pc = "thinking" /\ FailTurn
  /\ UNCHANGED <<attempts, actions, audited, issueComments, posts, scouts, notes, toolFaults>>

-----------------------------------------------------------------------------
(* _execute. *)

Key == <<luna.call.id, luna.call.tool>>
Acts(tool) == luna.pc = "act" /\ luna.call.tool = tool

\* begin_action: a call with the key of a complete one is answered with its result.
BeginCall ==
  /\ luna.pc = "begin"
  /\ Step(IF Key \in actions THEN "thinking" ELSE "act")
  /\ UNCHANGED <<attempts, actions, audited, issueComments, posts, scouts, notes, waits, toolFaults>>

Listed == SubSeq(issueComments, 1, IF Len(issueComments) < PageSize THEN Len(issueComments) ELSE PageSize)

\* Mutant: the comments there are, are not looked at.
CommentAnew(text) == Append(issueComments, text)

\* github.comment: the marker, of the batch and the text, is looked for in the
\* first page of comments.
Commented(text) == IF Contains(Listed, text) THEN issueComments ELSE Append(issueComments, text)

CommentOn ==
  /\ Acts("comment")
  /\ issueComments' = Commented(luna.call.text) /\ Step("complete")
  /\ UNCHANGED <<attempts, actions, audited, posts, scouts, notes, waits, toolFaults>>

\* A post is named after the batch and its text; an id enters the outbox once.
Post ==
  /\ Acts("post")
  /\ posts' = posts \union {<<"post", luna.call.text>>} /\ Step("complete")
  /\ UNCHANGED <<attempts, actions, audited, issueComments, scouts, notes, waits, toolFaults>>

\* A question is named after the batch alone: its second wording is not posted.
AsksOwner ==
  /\ Acts("ask") /\ waits' = TRUE /\ Step("complete")
  /\ posts' = posts \union IF \E p \in posts : p[1] = "ask" THEN {} ELSE {<<"ask", luna.call.text>>}
  /\ UNCHANGED <<attempts, actions, audited, issueComments, scouts, notes, toolFaults>>

\* Calls are counted, and a scout is named after the batch and its question.
Scout ==
  /\ Acts("scout")
  /\ IF audited >= ScoutCap
     THEN waits' = TRUE /\ Step("rejected") /\ UNCHANGED scouts
     ELSE scouts' = scouts \union {luna.call.text} /\ Step("complete") /\ UNCHANGED waits
  /\ UNCHANGED <<attempts, actions, audited, issueComments, posts, notes, toolFaults>>

\* A task that is not there is an error of the call, which fails the turn; one of
\* another plan is refused.
CancelsTask ==
  /\ Acts("cancel")
  /\ \/ luna.call.text \in scouts /\ Step("complete") /\ UNCHANGED waits
     \/ luna.call.text \notin scouts /\ FailTurn
     \/ luna.call.text \notin scouts /\ Step("rejected") /\ UNCHANGED waits
  /\ scouts' = scouts \ {luna.call.text}
  /\ UNCHANGED <<attempts, actions, audited, issueComments, posts, notes, toolFaults>>

Packet ==
  /\ Acts("packet")
  /\ \/ luna.call.text \in scouts /\ Step("complete") /\ UNCHANGED waits
     \/ luna.call.text \notin scouts /\ FailTurn
     \/ luna.call.text \notin scouts /\ Step("rejected") /\ UNCHANGED waits
  /\ UNCHANGED <<attempts, actions, audited, issueComments, posts, scouts, notes, toolFaults>>

TakeNotes ==
  /\ Acts("notes")
  /\ notes' = luna.call.text /\ Step("complete")
  /\ UNCHANGED <<attempts, actions, audited, issueComments, posts, scouts, waits, toolFaults>>

\* complete_action, of a result or of a refusal, which the model gets to read.
CompleteCall ==
  /\ luna.pc \in {"complete", "rejected"}
  /\ actions' = actions \union {Key}
  /\ Step(IF luna.pc = "complete" THEN "audit" ELSE "thinking")
  /\ UNCHANGED <<attempts, audited, issueComments, posts, scouts, notes, waits, toolFaults>>

Audit ==
  /\ luna.pc = "audit" /\ Step("thinking")
  /\ audited' = audited + IF luna.call.tool = "scout" THEN 1 ELSE 0
  /\ UNCHANGED <<attempts, actions, issueComments, posts, scouts, notes, waits, toolFaults>>

-----------------------------------------------------------------------------
(* The rest of the world. *)

OtherComments ==
  /\ Len(SelectSeq(issueComments, LAMBDA c : c = "other")) < MaxOthers
  /\ issueComments' = Append(issueComments, "other")
  /\ UNCHANGED <<attempts, luna, actions, audited, posts, scouts, notes, waits, toolFaults>>

\* A call of GitHub or Foreman fails, before or after it took effect.
ToolFails ==
  /\ luna.pc = "act" /\ luna.call.tool \in {"comment", "scout", "cancel", "packet"}
  /\ toolFaults < MaxToolFaults /\ toolFaults' = toolFaults + 1
  /\ CASE luna.call.tool = "comment" -> issueComments' \in {issueComments, Commented(luna.call.text)}
                                        /\ UNCHANGED scouts
       [] luna.call.tool = "scout" /\ audited < ScoutCap ->
            (scouts' = scouts \union {luna.call.text} \/ UNCHANGED scouts) /\ UNCHANGED issueComments
       [] luna.call.tool = "cancel" -> scouts' \in {scouts, scouts \ {luna.call.text}}
                                       /\ UNCHANGED <<issueComments>>
       [] OTHER -> UNCHANGED <<issueComments, scouts>>
  /\ FailTurn
  /\ UNCHANGED <<attempts, actions, audited, posts, notes>>

\* The gateway dies: the turn stays "running" until it is recovered by hand or by
\* an upgrade of the schema.
ToolCrash ==
  /\ luna.pc \notin {"pending", "ended", "failed"}
  /\ toolFaults < MaxToolFaults /\ toolFaults' = toolFaults + 1
  /\ attempts < MaxAttempts /\ luna' = NoRun
  /\ UNCHANGED <<attempts, actions, audited, issueComments, posts, scouts, notes, waits>>

TurnToolsNext ==
  \/ Think
  \/ \E id \in CallIds, tool \in Tools, text \in CommentTexts : CallTool(id, tool, text)
  \/ EndRun
  \/ RunFails
  \/ BeginCall
  \/ CommentOn
  \/ Post
  \/ AsksOwner
  \/ Scout
  \/ CancelsTask
  \/ Packet
  \/ TakeNotes
  \/ CompleteCall
  \/ Audit
  \/ OtherComments
  \/ ToolFails
  \/ ToolCrash

TurnToolsSpec == TurnToolsInit /\ [][TurnToolsNext]_toolVars

-----------------------------------------------------------------------------
(* Properties. *)

\* A comment of Luna's is on the issue at most once, however often its turn is
\* replayed and whatever answers were lost, while the comments fit a page.
SaidOnce ==
  Len(issueComments) <= PageSize =>
    \A i, j \in DOMAIN issueComments : issueComments[i] = issueComments[j] /\ issueComments[i] # "other" => i = j
=============================================================================
