------------------------------ MODULE PlanIntake -------------------------------
(***************************************************************************)
(* How one plan comes to its draft: the owner's messages, the planner      *)
(* (Astra), the scouts it sends out and the synthesis of what they found   *)
(* (matrix.py), with Luna's revisions and GitHub's edits and approvals     *)
(* coming between.                                                         *)
(*                                                                         *)
(* A message and a synthesis hold the Matrix lock from their first read to *)
(* their last write, minutes later; `holder' has it and `pc' is where it   *)
(* is.  The reconciler thread, `step', finds finished research before it   *)
(* waits for the lock, and runs Luna's turns, which take no lock at all.   *)
(* What follows an approval is one state here; PlanDelivery has the rest,  *)
(* and pauses.                                                             *)
(***************************************************************************)
EXTENDS Naturals, FiniteSets, Sequences, SequencesExt

CONSTANTS
  MaxScout,     \* bound: scouts of a research round (4)
  MaxMessage,   \* bound: messages of the owner
  MaxVersion,   \* bound: versions of the plan
  MaxCrash,     \* bound: crashes of the process
  Cap           \* astra_turn_cap

ASSUME IntakeAssumption ==
  /\ MaxScout \in Nat \ {0}
  /\ {MaxMessage, MaxVersion, MaxCrash} \subseteq Nat
  /\ Cap \in Nat

PlanStates == {"none", "intake", "researching", "synthesizing", "research_failed",
               "review", "approved", "needs_input", "cancelled"}

\* The states in which record_plan writes a draft.
Draftable == {"intake", "researching", "synthesizing", "research_failed", "review"}

Authors == {"astra", "luna", "github"}
Finished == {"Succeeded", "Failed"}

VARIABLES
  plan,         \* plans.state, "none" before its first message
  version,      \* plans.current_version
  drafts,       \* plan_versions: who wrote each version
  approval,     \* the approved version, 0 without a row
  commented,    \* whether plan_comments has rows
  questions,    \* plan_intake: the planner's questions, by what they answered
  research,     \* plan_research: each round's scouts, by state
  turns,        \* audit_events: the planner turns reserved
  calls,        \* external: the calls the planner answered
  messages,     \* messages so far
  crashes,      \* crashes so far
  holder,       \* who holds the Matrix lock
  pc,           \* ... its program counter
  force,        \* ... whether the planner must draft
  base,         \* ... current_version in the plan row it read
  step,         \* the reconciler's program counter
  ready,        \* ... the round it found finished, 0 if none
  lunaBase      \* ... current_version in the plan row Luna's turn read

planVars   == <<plan, version, drafts, approval, commented, questions, research>>
lockVars   == <<holder, pc, force, base>>
loopVars   == <<step, ready, lunaBase>>
boundVars  == <<messages, crashes>>
vars == <<planVars, turns, calls, boundVars, lockVars, loopVars>>

TypeOK ==
  /\ plan \in PlanStates
  /\ version \in 0..MaxVersion
  /\ drafts \in Seq(Authors) /\ Len(drafts) = version
  /\ approval \in 0..version
  /\ commented \in BOOLEAN
  /\ questions \subseteq {"owner", "synthesis"} \X Nat
  /\ research \in Seq(UNION {[1..n -> {"Pending"} \union Finished] : n \in 1..MaxScout})
  /\ turns \in 0..Cap /\ calls \in Nat
  /\ messages \in 0..MaxMessage /\ crashes \in 0..MaxCrash
  /\ holder \in {"none", "owner", "synthesis"}
  /\ pc \in {"idle", "starting", "reserving", "asking", "answered", "publishing", "failed"}
  /\ force \in BOOLEAN
  /\ base \in 0..version
  /\ step \in {"idle", "waiting", "synthesis", "turn", "reserved", "publishing"}
  /\ ready \in 0..Len(research)
  /\ lunaBase \in 0..version

Init ==
  /\ plan = "none" /\ version = 0 /\ drafts = <<>> /\ approval = 0
  /\ commented = FALSE /\ questions = {} /\ research = <<>>
  /\ turns = 0 /\ calls = 0 /\ messages = 0 /\ crashes = 0
  /\ holder = "none" /\ pc = "idle" /\ force = FALSE /\ base = 0
  /\ step = "idle" /\ ready = 0 /\ lunaBase = 0

-----------------------------------------------------------------------------
(* The tables. *)

\* reserve_astra_turn: count and insert, or block the plan whatever its state.
Reserve(reserved, refused) ==
  \/ turns < Cap /\ turns' = turns + 1 /\ reserved /\ UNCHANGED plan
  \/ turns >= Cap /\ plan' = "needs_input" /\ refused /\ UNCHANGED turns

\* Mutant: the version's row is replaced.
WriteOver(author, from) ==
  /\ from < MaxVersion
  /\ plan' = "review"
  /\ version' = from + 1
  /\ drafts' = [v \in 1..(IF from + 1 > version THEN from + 1 ELSE version) |->
                  IF v = from + 1 THEN author ELSE drafts[v]]

\* The transaction of a new version; a number that is taken violates the primary key.
WriteDraft(author, from) ==
  /\ from + 1 \notin DOMAIN drafts
  /\ from < MaxVersion
  /\ plan' = "review"
  /\ version' = from + 1
  /\ drafts' = Append(drafts, author)

-----------------------------------------------------------------------------
(* The owner's messages.  Each finds the lock free and the plan row as it is. *)

Take(by) == holder = "none" /\ holder' = by
Free == holder' = "none" /\ pc' = "idle" /\ force' = FALSE /\ base' = 0

Message == messages < MaxMessage /\ messages' = messages + 1 /\ UNCHANGED crashes

\* Mutant: only the rounds of research are counted.
ContinueAsking(must) ==
  /\ Take("owner")
  /\ pc' = "reserving"
  /\ force' = (must \/ Len(research) >= 2)
  /\ base' = version

\* _continue_intake: after two questions or two rounds the planner must draft.
ContinueIntake(must) ==
  /\ Take("owner")
  /\ pc' = "reserving"
  /\ force' = (must \/ Cardinality(questions) >= 2 \/ Len(research) >= 2)
  /\ base' = version

StartPlan ==
  /\ Message
  /\ plan = "none" /\ plan' = "intake"
  /\ ContinueIntake(FALSE)
  /\ UNCHANGED <<version, drafts, approval, commented, questions, research, turns, calls, loopVars>>

Answer ==
  /\ Message
  /\ plan \in {"intake", "research_failed"}
  /\ ContinueIntake(FALSE)
  /\ UNCHANGED <<planVars, turns, calls, loopVars>>

Draft ==
  /\ Message
  /\ plan \in {"intake", "researching", "synthesizing", "research_failed"}
  /\ ContinueIntake(TRUE)
  /\ UNCHANGED <<planVars, turns, calls, loopVars>>

\* A message while scouts work is told to wait; any later one is a comment.
Comment ==
  /\ Message
  /\ holder = "none"
  /\ plan \in PlanStates \ {"none", "intake", "research_failed", "researching", "synthesizing"}
  /\ commented' = TRUE
  /\ UNCHANGED <<plan, version, drafts, approval, questions, research, turns, calls, lockVars,
                 loopVars>>

\* Only comments are asked for, not a state of the plan.
Revise ==
  /\ Message
  /\ commented
  /\ ContinueIntake(FALSE)
  /\ UNCHANGED <<planVars, turns, calls, loopVars>>

Stop ==
  /\ Message
  /\ holder = "none"
  /\ plan # "none" /\ plan' = "cancelled"
  /\ UNCHANGED <<version, drafts, approval, commented, questions, research, turns, calls, lockVars,
                 loopVars>>

-----------------------------------------------------------------------------
(* Under the lock, for a message and for a synthesis alike. *)

EndSynthesis ==
  IF holder = "synthesis" THEN step' = "idle" /\ ready' = 0 /\ UNCHANGED lunaBase
                          ELSE UNCHANGED loopVars
Release == Free /\ EndSynthesis

ReserveTurn ==
  /\ pc = "reserving"
  /\ Reserve(/\ pc' = "asking"
             /\ UNCHANGED <<holder, force, base, loopVars>>,
             Release)
  /\ UNCHANGED <<version, drafts, approval, commented, questions, research, calls, boundVars>>

\* planner.intake: told to draft, it drafts or fails.
Asked == pc = "asking" /\ calls' = calls + 1
AskedFreely == Asked /\ ~force

\* register_research: a new round.
Delegate ==
  /\ AskedFreely
  /\ \E n \in 1..MaxScout : research' = Append(research, [s \in 1..n |-> "Pending"])
  /\ plan' = "researching"
  /\ Release
  /\ UNCHANGED <<version, drafts, approval, commented, questions, turns, boundVars>>

\* A question or a pushback is recorded, once for a message or a round ...
Clarify ==
  /\ AskedFreely
  /\ questions' = questions \union
                    {<<holder, IF holder = "owner" THEN messages ELSE ready>>}
  /\ pc' = "answered"
  /\ UNCHANGED <<plan, version, drafts, approval, commented, research, turns, boundVars,
                 holder, force, base, loopVars>>

\* ... and the plan is back in intake.
AwaitAnswer ==
  /\ pc = "answered"
  /\ plan' = "intake"
  /\ Release
  /\ UNCHANGED <<version, drafts, approval, commented, questions, research, turns, calls, boundVars>>

\* record_plan's reads: an old number is dropped, a plan under way is refused.
CheckDraft ==
  /\ Asked
  /\ \/ base < version /\ Release
     \/ /\ base >= version
        /\ pc' = IF plan \in Draftable THEN "publishing" ELSE "failed"
        /\ UNCHANGED <<holder, force, base, loopVars>>
  /\ UNCHANGED <<planVars, turns, boundVars>>

\* ... and its transaction, after GitHub has the draft.
CommitDraft ==
  /\ pc = "publishing"
  /\ WriteDraft("astra", base)
  /\ Release
  /\ UNCHANGED <<approval, commented, questions, research, turns, calls, boundVars>>

PlannerFails ==
  /\ Asked
  /\ pc' = "failed"
  /\ UNCHANGED <<planVars, turns, boundVars, holder, force, base, loopVars>>

\* GitHub failed, or an edit took the number.
CommitFails ==
  /\ pc = "publishing"
  /\ pc' = "failed"
  /\ UNCHANGED <<planVars, turns, calls, boundVars, holder, force, base, loopVars>>

\* The exception ends the request; a synthesis is marked as failed.
Fail ==
  /\ pc = "failed"
  /\ plan' = IF holder = "synthesis" THEN "research_failed" ELSE plan
  /\ Release
  /\ UNCHANGED <<version, drafts, approval, commented, questions, research, turns, calls, boundVars>>

-----------------------------------------------------------------------------
(* The reconciler: scouts, and the synthesis of a round. *)

\* active_research and update_research: a scout has ended.
PollScout(r, s) ==
  /\ step = "idle" /\ plan = "researching"
  /\ research[r][s] = "Pending"
  /\ \E end \in Finished : research' = [research EXCEPT ![r][s] = end]
  /\ UNCHANGED <<plan, version, drafts, approval, commented, questions, turns, calls, boundVars,
                 lockVars, loopVars>>

\* research_ready, for the last round.
Ready(r) == \A s \in DOMAIN research[r] : research[r][s] \in Finished

SeeReady ==
  /\ step = "idle" /\ plan = "researching"
  /\ research # <<>> /\ Ready(Len(research))
  /\ ready' = Len(research)
  /\ step' = "waiting"
  /\ UNCHANGED <<planVars, turns, calls, boundVars, lockVars, lunaBase>>

\* Mutant: the plan is not looked at again.
SynthesizeUnseen ==
  /\ step = "waiting" /\ Take("synthesis")
  /\ pc' = "starting" /\ force' = (ready >= 2) /\ base' = version
  /\ step' = "synthesis"
  /\ UNCHANGED <<planVars, turns, calls, boundVars, ready, lunaBase>>

\* _synthesize_research: with the lock, the plan is looked at again, ...
Synthesize ==
  /\ step = "waiting" /\ holder = "none"
  /\ \/ /\ plan = "researching"
        /\ Take("synthesis")
        /\ pc' = "starting" /\ force' = (ready >= 2) /\ base' = version
        /\ step' = "synthesis" /\ UNCHANGED ready
     \/ /\ plan # "researching"
        /\ step' = "idle" /\ ready' = 0
        /\ UNCHANGED lockVars
  /\ UNCHANGED <<planVars, turns, calls, boundVars, lunaBase>>

\* ... and then marked.
MarkSynthesizing ==
  /\ pc = "starting"
  /\ plan' = "synthesizing"
  /\ pc' = "reserving"
  /\ UNCHANGED <<version, drafts, approval, commented, questions, research, turns, calls, boundVars,
                 holder, force, base, loopVars>>

-----------------------------------------------------------------------------
(* Luna's turn, as far as it concerns the draft.  All its tools work on the plan
   row read when it began. *)

BeginTurn ==
  /\ step = "idle"
  /\ plan \in {"review", "approved", "needs_input"}
  /\ step' = "turn" /\ lunaBase' = version
  /\ UNCHANGED <<planVars, turns, calls, boundVars, lockVars, ready>>

Back == step' = "turn" /\ UNCHANGED lunaBase
EndTurn == step' = "idle" /\ lunaBase' = 0

\* The model is done, or fails.
LunaEnds ==
  /\ step = "turn"
  /\ EndTurn
  /\ UNCHANGED <<planVars, turns, calls, boundVars, lockVars, ready>>

\* ask_owner and escalate.
LunaBlocks ==
  /\ step = "turn" /\ Back
  /\ plan' = "needs_input"
  /\ UNCHANGED <<version, drafts, approval, commented, questions, research, turns, calls, boundVars,
                 lockVars, ready>>

\* request_replan removes the approval and leaves a comment.
LunaReplans ==
  /\ step = "turn" /\ version > 0 /\ Back
  /\ approval' = 0 /\ plan' = "review" /\ commented' = TRUE
  /\ UNCHANGED <<version, drafts, questions, research, turns, calls, boundVars, lockVars, ready>>

\* ask_astra and request_revision reserve a turn, ...
LunaReserves ==
  /\ step = "turn"
  /\ Reserve(step' = "reserved" /\ UNCHANGED lunaBase, Back)
  /\ UNCHANGED <<version, drafts, approval, commented, questions, research, calls, boundVars,
                 lockVars, ready>>

\* ... the planner answers, or fails and the turn with it, ...
LunaAsks ==
  /\ step = "reserved"
  /\ calls' = calls + 1
  /\ Back \/ EndTurn
  /\ UNCHANGED <<planVars, turns, boundVars, lockVars, ready>>

\* ... or revises the plan, which is recorded as CheckDraft and CommitDraft do.
LunaRevises ==
  /\ step = "reserved" /\ version > 0
  /\ calls' = calls + 1
  /\ IF lunaBase >= version /\ plan \in Draftable
       THEN step' = "publishing" /\ UNCHANGED lunaBase
       ELSE Back
  /\ UNCHANGED <<planVars, turns, boundVars, lockVars, ready>>

LunaCommits ==
  /\ step = "publishing"
  /\ \/ WriteDraft("luna", lunaBase) /\ Back
     \/ UNCHANGED <<plan, version, drafts>> /\ EndTurn     \* GitHub failed, or the number is taken
  /\ UNCHANGED <<approval, commented, questions, research, turns, calls, boundVars, lockVars, ready>>

-----------------------------------------------------------------------------
(* GitHub: webhooks take no Matrix lock; and the process itself. *)

\* record_github_edit, whose steps PlanDelivery has.
EditBody ==
  /\ version > 0 /\ approval = 0
  /\ WriteDraft("github", version)
  /\ UNCHANGED <<approval, commented, questions, research, turns, calls, boundVars, lockVars, loopVars>>

\* approve: a version that is approved already is only set back to accepted
\* from a state before execution.
Approve ==
  /\ version > 0
  /\ \/ approval = 0
     \/ approval = version /\ plan \notin {"approved", "needs_input", "cancelled"}
  /\ approval' = version
  /\ plan' = "approved"
  /\ UNCHANGED <<version, drafts, commented, questions, research, turns, calls, boundVars, lockVars,
                 loopVars>>

ReopenReview ==
  /\ version > 0
  /\ approval' = 0
  /\ plan' = "review"
  /\ UNCHANGED <<version, drafts, commented, questions, research, turns, calls, boundVars, lockVars,
                 loopVars>>

\* Mutant: the restart leaves a synthesis as it is.
CrashOnly ==
  /\ crashes < MaxCrash /\ crashes' = crashes + 1 /\ UNCHANGED messages
  /\ Free
  /\ step' = "idle" /\ ready' = 0 /\ lunaBase' = 0
  /\ UNCHANGED <<planVars, turns, calls>>

\* The process dies and restarts: a synthesis under way is research again.
Crash ==
  /\ crashes < MaxCrash /\ crashes' = crashes + 1 /\ UNCHANGED messages
  /\ Free
  /\ step' = "idle" /\ ready' = 0 /\ lunaBase' = 0
  /\ plan' = IF plan = "synthesizing" THEN "researching" ELSE plan
  /\ UNCHANGED <<version, drafts, approval, commented, questions, research, turns, calls>>

-----------------------------------------------------------------------------
Owner == StartPlan \/ Answer \/ Draft \/ Comment \/ Revise \/ Stop

Locked ==
  \/ MarkSynthesizing \/ ReserveTurn \/ Delegate \/ Clarify \/ AwaitAnswer
  \/ CheckDraft \/ CommitDraft \/ PlannerFails \/ CommitFails \/ Fail

Luna ==
  \/ BeginTurn \/ LunaEnds \/ LunaBlocks \/ LunaReplans
  \/ LunaReserves \/ LunaAsks \/ LunaRevises \/ LunaCommits

Reconciler ==
  \/ Luna \/ SeeReady \/ Synthesize
  \/ \E r \in DOMAIN research : \E s \in DOMAIN research[r] : PollScout(r, s)

GitHub == EditBody \/ Approve \/ ReopenReview

Next == Owner \/ Locked \/ Reconciler \/ GitHub \/ Crash

Spec == Init /\ [][Next]_vars

\* Scouts end; both threads go on with what they do, the reconciler for ever.
Fairness == WF_vars(Locked) /\ WF_vars(Reconciler)

FairSpec == Spec /\ Fairness

-----------------------------------------------------------------------------
(* Properties. *)

\* Intake cannot become an endless gate: whatever the owner's messages, the
\* syntheses, late rounds and crashes do to each other, the planner asks three
\* times and sends out three rounds of scouts at most.  (The documents say two;
\* the third is a synthesis of the first round that came late.)
NoEndlessGate == Cardinality(questions) <= 3 /\ Len(research) <= 3

\* The planner is never called more often than the cap, although the owner's
\* thread and the reconciler's both call it.
AstraBudget == calls <= Cap

\* A version once written is not replaced, and the current version is not
\* set back: approvals name versions by their content.
DraftsKept == [][IsPrefix(drafts, drafts') /\ version' >= version]_<<drafts, version>>

\* A stop ends the research: only a message of the owner brings the plan back
\* into planning, never a synthesis that was on its way.
StopEndsResearch ==
  [][plan = "cancelled" /\ plan' \in {"intake", "researching", "synthesizing", "research_failed"}
       => holder = "owner"]_vars

\* Research comes to an end, a synthesis that a restart repeats included: in a
\* question, a failure, at the cap or with a newer version.  (An edit between a
\* synthesis' read of the plan and its mark makes the synthesis' draft obsolete
\* and leaves the newer version marked until a restart or the owner's draft.)
ResearchSettles ==
  \A v \in 0..MaxVersion :
    plan = "researching" /\ version = v
      ~> plan \notin {"researching", "synthesizing"} \/ version > v

\* What the error message of record_plan and the runbook say: the version that
\* was approved stays the current one until the approval is removed.
ApprovedIsImmutable == [][approval # 0 /\ approval' = approval => version' = version]_vars
=============================================================================
