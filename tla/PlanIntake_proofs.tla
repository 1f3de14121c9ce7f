-------------------------- MODULE PlanIntake_proofs ---------------------------
(***************************************************************************)
(* Proofs about PlanIntake, for every bound and every cap.                 *)
(*                                                                         *)
(* Four inductive invariants: a turn of the planner that is reserved and   *)
(* not yet spent is some program counter's, a number that a thread will    *)
(* write a draft under was current once, the lock that a synthesis holds   *)
(* keeps a stop away, and the types, which need the account of the turns   *)
(* and the counts of the gate to be bounded.                               *)
(***************************************************************************)
EXTENDS PlanIntake, FiniteSetTheorems, TLAPS

\* Every call has its turn, and who is about to call has one more.
Accounted ==
  /\ turns \in 0..Cap /\ calls \in Nat
  /\ calls + (IF pc = "asking" THEN 1 ELSE 0) + (IF step = "reserved" THEN 1 ELSE 0) <= turns

\* Versions are numbered as they are written, and a number read is not ahead.
Numbered ==
  /\ drafts \in Seq(Authors) /\ version = Len(drafts)
  /\ base \in 0..version /\ lunaBase \in 0..version

\* A plan under synthesis is not a stopped one, and who is at work has the lock.
Guarded ==
  /\ holder = "synthesis" => plan # "cancelled"
  /\ pc # "idle" => holder \in {"owner", "synthesis"}
  /\ pc = "starting" => holder = "synthesis"

-----------------------------------------------------------------------------
\* Every step keeps the account of turns and calls.
LEMMA AccountedStep == Accounted /\ [Next]_vars => Accounted'
<1> SUFFICES ASSUME Accounted, [Next]_vars PROVE Accounted'
  OBVIOUS
<1> USE IntakeAssumption
     DEF Accounted, vars, planVars, lockVars, loopVars, boundVars
<1>1. CASE Owner
  BY <1>1 DEF Owner, StartPlan, Answer, Draft, Comment, Revise, Stop, ContinueIntake, Take
<1>2. CASE Locked
  <2>1. CASE ReserveTurn
    BY <2>1 DEF ReserveTurn, Reserve, Release, Free, EndSynthesis
  <2>2. CASE Delegate \/ Clarify \/ CheckDraft \/ PlannerFails
    BY <2>2 DEF Delegate, Clarify, CheckDraft, PlannerFails, AskedFreely, Asked,
                Release, Free, EndSynthesis
  <2>3. CASE MarkSynthesizing \/ AwaitAnswer \/ CommitDraft \/ CommitFails \/ Fail
    BY <2>3 DEF MarkSynthesizing, AwaitAnswer, CommitDraft, CommitFails, Fail,
                Release, Free, EndSynthesis
  <2> QED
    BY <1>2, <2>1, <2>2, <2>3 DEF Locked
<1>3. CASE Reconciler
  <2>1. CASE LunaReserves
    BY <2>1 DEF LunaReserves, Reserve, Back
  <2>2. CASE LunaAsks \/ LunaRevises
    BY <2>2 DEF LunaAsks, LunaRevises, Back, EndTurn
  <2>3. CASE BeginTurn \/ LunaEnds \/ LunaBlocks \/ LunaReplans \/ LunaCommits
    BY <2>3 DEF BeginTurn, LunaEnds, LunaBlocks, LunaReplans, LunaCommits, Back, EndTurn
  <2>4. CASE SeeReady \/ Synthesize
    BY <2>4 DEF SeeReady, Synthesize, Take
  <2>5. CASE \E r \in DOMAIN research : \E s \in DOMAIN research[r] : PollScout(r, s)
    BY <2>5 DEF PollScout
  <2> QED
    BY <1>3, <2>1, <2>2, <2>3, <2>4, <2>5 DEF Reconciler, Luna
<1>4. CASE GitHub
  BY <1>4 DEF GitHub, EditBody, Approve, ReopenReview
<1>5. CASE Crash
  BY <1>5 DEF Crash, Free
<1>6. CASE UNCHANGED vars
  BY <1>6
<1> QED
  BY <1>1, <1>2, <1>3, <1>4, <1>5, <1>6 DEF Next

\* The account of turns and calls.
LEMMA AccountedInvariance == Spec => []Accounted
<1>1. Init => Accounted
  BY IntakeAssumption DEF Init, Accounted
<1> QED
  BY <1>1, AccountedStep, PTL DEF Spec

\* The planner is called at most Cap times for a plan, by the owner's thread and
\* the reconciler's together, whatever crashes come between reserving and calling.
THEOREM AstraBudgetHolds == Spec => []AstraBudget
<1>1. Accounted => AstraBudget
  BY IntakeAssumption DEF Accounted, AstraBudget
<1> QED
  BY <1>1, AccountedInvariance, PTL

-----------------------------------------------------------------------------
\* A draft that is written comes behind all the others.
LEMMA WriteDraftAppends ==
  ASSUME Numbered, NEW author \in Authors, NEW from \in 0..version, WriteDraft(author, from)
  PROVE  /\ drafts' \in Seq(Authors) /\ version' = Len(drafts') /\ version' = version + 1
         /\ IsPrefix(drafts, drafts')
<1>1. from = version
  BY DEF Numbered, WriteDraft
<1>2. drafts' = Append(drafts, author) /\ version' = version + 1
  BY <1>1 DEF WriteDraft
<1>3. /\ drafts' \in Seq(Authors) /\ Len(drafts') = Len(drafts) + 1
      /\ \A i \in 1..Len(drafts) : drafts'[i] = drafts[i]
  BY <1>2 DEF Numbered
<1>4. SubSeq(drafts, 1, Len(drafts)) = SubSeq(drafts', 1, Len(drafts))
  BY <1>3 DEF Numbered
<1> QED
  BY <1>2, <1>3, <1>4 DEF Numbered, IsPrefix

\* What a step may do to the versions, and to the numbers that were read.
Kept ==
  /\ \/ UNCHANGED <<drafts, version>>
     \/ \E author \in Authors : \E from \in {base, lunaBase, version} : WriteDraft(author, from)
  /\ base' \in {0, base, version} /\ lunaBase' \in {0, lunaBase, version}

\* No step changes or takes away a draft.
LEMMA StepKeeps == [Next]_vars => Kept
<1> SUFFICES ASSUME [Next]_vars PROVE Kept
  OBVIOUS
<1> USE DEF Kept, Authors, vars, planVars, lockVars, loopVars, boundVars
<1>1. CASE Owner
  BY <1>1 DEF Owner, StartPlan, Answer, Draft, Comment, Revise, Stop, ContinueIntake, Take
<1>2. CASE Locked
  <2>1. CASE CommitDraft
    BY <2>1 DEF CommitDraft, Release, Free, EndSynthesis
  <2>2. CASE ReserveTurn \/ Delegate \/ Clarify \/ CheckDraft \/ PlannerFails
    BY <2>2 DEF ReserveTurn, Reserve, Delegate, Clarify, CheckDraft, PlannerFails,
                AskedFreely, Asked, Release, Free, EndSynthesis
  <2>3. CASE MarkSynthesizing \/ AwaitAnswer \/ CommitFails \/ Fail
    BY <2>3 DEF MarkSynthesizing, AwaitAnswer, CommitFails, Fail, Release, Free, EndSynthesis
  <2> QED
    BY <1>2, <2>1, <2>2, <2>3 DEF Locked
<1>3. CASE Reconciler
  <2>1. CASE LunaCommits
    BY <2>1 DEF LunaCommits, Back, EndTurn
  <2>2. CASE LunaReserves \/ LunaAsks \/ LunaRevises
    BY <2>2 DEF LunaReserves, LunaAsks, LunaRevises, Reserve, Back, EndTurn
  <2>3. CASE BeginTurn \/ LunaEnds \/ LunaBlocks \/ LunaReplans
    BY <2>3 DEF BeginTurn, LunaEnds, LunaBlocks, LunaReplans, Back, EndTurn
  <2>4. CASE SeeReady \/ Synthesize
    BY <2>4 DEF SeeReady, Synthesize, Take
  <2>5. CASE \E r \in DOMAIN research : \E s \in DOMAIN research[r] : PollScout(r, s)
    BY <2>5 DEF PollScout
  <2> QED
    BY <1>3, <2>1, <2>2, <2>3, <2>4, <2>5 DEF Reconciler, Luna
<1>4. CASE GitHub
  BY <1>4 DEF GitHub, EditBody, Approve, ReopenReview
<1>5. CASE Crash
  BY <1>5 DEF Crash, Free
<1>6. CASE UNCHANGED vars
  BY <1>6
<1> QED
  BY <1>1, <1>2, <1>3, <1>4, <1>5, <1>6 DEF Next

\* A list with one more draft at its end has kept the others.
LEMMA KeptAppends ==
  ASSUME Numbered, Kept
  PROVE  /\ Numbered'
         /\ \/ UNCHANGED <<drafts, version>>
            \/ IsPrefix(drafts, drafts') /\ version' >= version
<1>1. CASE UNCHANGED <<drafts, version>>
  BY <1>1 DEF Numbered, Kept
<1>2. CASE \E author \in Authors : \E from \in {base, lunaBase, version} : WriteDraft(author, from)
  <2>1. PICK author \in Authors, from \in {base, lunaBase, version} : WriteDraft(author, from)
    BY <1>2
  <2>2. from \in 0..version
    BY DEF Numbered
  <2>3. /\ drafts' \in Seq(Authors) /\ version' = Len(drafts') /\ version' = version + 1
        /\ IsPrefix(drafts, drafts')
    BY <2>1, <2>2, WriteDraftAppends
  <2> QED
    BY <2>3 DEF Numbered, Kept
<1> QED
  BY <1>1, <1>2 DEF Kept

\* A version is never replaced nor taken back, although three threads write them
\* under numbers they read long before.
THEOREM DraftsKeptHolds == Spec => DraftsKept
<1>1. Init => Numbered
  BY DEF Init, Numbered
<1>2. Numbered /\ [Next]_vars => Numbered'
  BY StepKeeps, KeptAppends
<1>3. Numbered /\ [Next]_vars =>
        [IsPrefix(drafts, drafts') /\ version' >= version]_<<drafts, version>>
  BY StepKeeps, KeptAppends
<1> QED
  BY <1>1, <1>2, <1>3, PTL DEF Spec, DraftsKept

-----------------------------------------------------------------------------
\* Every step keeps what the lock guards.
LEMMA GuardedStep == Guarded /\ [Next]_vars => Guarded'
<1> SUFFICES ASSUME Guarded, [Next]_vars PROVE Guarded'
  OBVIOUS
<1> USE DEF Guarded, WriteDraft, vars, planVars, lockVars, loopVars, boundVars
<1>1. CASE Owner
  BY <1>1 DEF Owner, StartPlan, Answer, Draft, Comment, Revise, Stop, ContinueIntake, Take
<1>2. CASE Locked
  <2>1. CASE ReserveTurn \/ MarkSynthesizing \/ Clarify \/ PlannerFails \/ CommitFails
    BY <2>1 DEF ReserveTurn, Reserve, MarkSynthesizing, Clarify, PlannerFails, CommitFails,
                AskedFreely, Asked, Release, Free, EndSynthesis
  <2>2. CASE Delegate \/ AwaitAnswer \/ CheckDraft \/ CommitDraft \/ Fail
    BY <2>2 DEF Delegate, AwaitAnswer, CheckDraft, CommitDraft, Fail,
                AskedFreely, Asked, Release, Free
  <2> QED
    BY <1>2, <2>1, <2>2 DEF Locked
<1>3. CASE Reconciler
  <2>1. CASE LunaReserves \/ LunaAsks \/ LunaRevises \/ LunaCommits
    BY <2>1 DEF LunaReserves, LunaAsks, LunaRevises, LunaCommits, Reserve
  <2>2. CASE BeginTurn \/ LunaEnds \/ LunaBlocks \/ LunaReplans
    BY <2>2 DEF BeginTurn, LunaEnds, LunaBlocks, LunaReplans
  <2>3. CASE SeeReady \/ Synthesize
    BY <2>3 DEF SeeReady, Synthesize, Take
  <2>4. CASE \E r \in DOMAIN research : \E s \in DOMAIN research[r] : PollScout(r, s)
    BY <2>4 DEF PollScout
  <2> QED
    BY <1>3, <2>1, <2>2, <2>3, <2>4 DEF Reconciler, Luna
<1>4. CASE GitHub
  BY <1>4 DEF GitHub, EditBody, Approve, ReopenReview
<1>5. CASE Crash
  BY <1>5 DEF Crash, Free
<1>6. CASE UNCHANGED vars
  BY <1>6
<1> QED
  BY <1>1, <1>2, <1>3, <1>4, <1>5, <1>6 DEF Next

\* No synthesis works on a plan that was stopped, so none brings it back: a stop
\* waits for the lock and the synthesis looks again when it has it.
THEOREM StopEndsResearchHolds == Spec => StopEndsResearch
<1> DEFINE Planning == {"intake", "researching", "synthesizing", "research_failed"}
           Returns == plan = "cancelled" /\ plan' \in Planning
<1>1. Init => Guarded
  BY DEF Init, Guarded
<1>2. Guarded /\ [Next]_vars => [Returns => holder = "owner"]_vars
  <2> SUFFICES ASSUME Guarded, Next, Returns PROVE holder = "owner"
    BY DEF vars
  <2> USE DEF planVars, lockVars, loopVars, boundVars, WriteDraft
  <2>1. CASE Owner
    BY <2>1 DEF Owner, StartPlan, Answer, Draft, Comment, Revise, Stop
  <2>2. CASE Locked
    <3>1. pc # "idle"
      BY <2>2 DEF Locked, MarkSynthesizing, ReserveTurn, Delegate, Clarify, AwaitAnswer,
                  CheckDraft, CommitDraft, PlannerFails, CommitFails, Fail, AskedFreely, Asked
    <3> QED
      BY <3>1 DEF Guarded
  <2>3. CASE Reconciler
    BY <2>3 DEF Reconciler, Luna, BeginTurn, LunaEnds, LunaBlocks, LunaReplans, LunaReserves,
                Reserve, LunaAsks, LunaRevises, LunaCommits, SeeReady, Synthesize, PollScout
  <2>4. CASE GitHub
    BY <2>4 DEF GitHub, EditBody, Approve, ReopenReview
  <2>5. CASE Crash
    BY <2>5 DEF Crash
  <2> QED
    BY <2>1, <2>2, <2>3, <2>4, <2>5 DEF Next
<1> QED
  BY <1>1, GuardedStep, <1>2, PTL DEF Spec, StopEndsResearch

-----------------------------------------------------------------------------
Round == UNION {[1..n -> {"Pending"} \union Finished] : n \in 1..MaxScout}
LateQuestion == <<"synthesis", 1>>

\* Who may still ask, and what there is when it does.  The owner's thread looks at
\* both counts when it takes the lock; a synthesis only at the number of its round,
\* so the one of the first round may come after the second was sent out.
Open == Cardinality(questions) < 2 /\ Len(research) < 2
AtMostTwo == Len(research) <= 2

Counted ==
  /\ research \in Seq(Round) /\ Len(research) <= 3
  /\ IsFiniteSet(questions) /\ Cardinality(questions \ {LateQuestion}) <= 2

Controlled ==
  /\ ready \in Nat /\ (ready = 1 => AtMostTwo)
  /\ step = "waiting" => ready # 0
  /\ pc # "idle" => holder \in {"owner", "synthesis"}
  /\ pc = "starting" => holder = "synthesis"
  /\ holder = "owner" /\ pc \in {"reserving", "asking"} /\ ~force => Open
  /\ holder = "synthesis" => step = "synthesis" /\ (~force => ready = 1)

Gated == Counted /\ Controlled

\* A new round, unless the planner is told to draft.
LEMMA DelegateKeepsGate ==
  ASSUME Gated, Delegate
  PROVE  Gated'
<1>1. PICK n \in 1..MaxScout : research' = Append(research, [s \in 1..n |-> "Pending"])
  BY DEF Delegate
<1>2. [s \in 1..n |-> "Pending"] \in Round
  BY DEF Round
<1>3. research' \in Seq(Round) /\ Len(research') = Len(research) + 1
  BY <1>1, <1>2 DEF Gated, Counted, Controlled, Open, AtMostTwo
<1>4. ~force /\ pc = "asking" /\ holder \in {"owner", "synthesis"} /\ holder' = "none" /\ pc' = "idle"
  BY DEF Delegate, AskedFreely, Asked, Release, Free, Gated, Counted, Controlled
<1>5. CASE holder = "owner"
  BY <1>3, <1>4, <1>5 DEF Gated, Counted, Controlled, Open, AtMostTwo, Delegate, Release, EndSynthesis, loopVars
<1>6. CASE holder = "synthesis"
  <2>1. ready = 1 /\ ready' = 0 /\ step' = "idle"
    BY <1>4, <1>6 DEF Gated, Counted, Controlled, Open, AtMostTwo, Delegate, Release, EndSynthesis
  <2> QED
    BY <2>1, <1>3, <1>4 DEF Gated, Counted, Controlled, Open, AtMostTwo, Delegate
<1> QED
  BY <1>4, <1>5, <1>6

\* A new question, likewise: a synthesis has one that counts, the late one.
LEMMA ClarifyKeepsGate ==
  ASSUME Gated, Clarify
  PROVE  Gated'
<1> DEFINE asked == <<holder, IF holder = "owner" THEN messages ELSE ready>>
<1>1. questions' = questions \union {asked}
  BY DEF Clarify
<1>2. IsFiniteSet(questions') /\ Cardinality(questions') <= Cardinality(questions) + 1
  <2>1. IsFiniteSet(questions) /\ Cardinality(questions) \in Nat
    BY FS_CardinalityType DEF Gated, Counted, Controlled, Open, AtMostTwo
  <2> HIDE DEF asked
  <2>2. /\ IsFiniteSet(questions \union {asked})
        /\ \/ Cardinality(questions \union {asked}) = Cardinality(questions)
           \/ Cardinality(questions \union {asked}) = Cardinality(questions) + 1
    BY <2>1, FS_AddElement
  <2> QED
    BY <2>1, <2>2, <1>1
<1>3. ~force /\ pc = "asking" /\ holder \in {"owner", "synthesis"} /\ pc' = "answered"
      /\ UNCHANGED <<research, ready, step, force, holder>>
  BY DEF Clarify, AskedFreely, Asked, Gated, Controlled, loopVars
<1>4. Cardinality(questions' \ {LateQuestion}) <= 2
  <2>1. CASE holder = "owner"
    <3>1. questions' \ {LateQuestion} \subseteq questions'
      OBVIOUS
    <3>2. Cardinality(questions' \ {LateQuestion}) <= Cardinality(questions')
      BY <1>2, <3>1, FS_Subset
    <3>3. Cardinality(questions) \in Nat /\ Cardinality(questions) < 2
      BY <2>1, <1>3, FS_CardinalityType DEF Gated, Counted, Controlled, Open, AtMostTwo
    <3>4. Cardinality(questions') \in Nat /\ Cardinality(questions' \ {LateQuestion}) \in Nat
      BY <1>2, <3>1, FS_CardinalityType, FS_Subset
    <3> QED
      BY <1>2, <3>2, <3>3, <3>4
  <2>2. CASE holder = "synthesis"
    <3>1. asked = LateQuestion
      BY <2>2, <1>3 DEF Gated, Counted, Controlled, Open, AtMostTwo, LateQuestion
    <3>2. questions' \ {LateQuestion} = questions \ {LateQuestion}
      BY <1>1, <3>1
    <3> QED
      BY <3>2 DEF Gated, Counted, Controlled, Open, AtMostTwo
  <2> QED
    BY <1>3, <2>1, <2>2
<1> QED
  BY <1>2, <1>3, <1>4 DEF Gated, Counted, Controlled, Open, AtMostTwo

\* A scout's end leaves the number of rounds.
LEMMA PollKeepsGate ==
  ASSUME Gated, NEW r \in DOMAIN research, NEW s \in DOMAIN research[r], PollScout(r, s)
  PROVE  Gated'
<1>1. PICK end \in Finished : research' = [research EXCEPT ![r][s] = end]
  BY DEF PollScout
<1>2. research[r] \in Round
  BY DEF Gated, Counted, Controlled, Open, AtMostTwo
<1>3. PICK n \in 1..MaxScout : research[r] \in [1..n -> {"Pending"} \union Finished]
  BY <1>2 DEF Round
<1> DEFINE round == [research[r] EXCEPT ![s] = end]
<1>4. round \in Round
  BY <1>3 DEF Round
<1>5. research' = [research EXCEPT ![r] = round]
  BY <1>1
<1> HIDE DEF round
<1>6. research' \in Seq(Round) /\ Len(research') = Len(research)
  BY <1>4, <1>5 DEF Gated, Counted, Controlled, Open, AtMostTwo
<1> QED
  BY <1>6 DEF Gated, Counted, Controlled, Open, AtMostTwo, PollScout, lockVars, loopVars

\* Every step keeps what bounds the rounds and questions.
LEMMA GatedStep == Gated /\ [Next]_vars => Gated'
<1> SUFFICES ASSUME Gated, [Next]_vars PROVE Gated'
  OBVIOUS
<1>1. CASE Delegate \/ Clarify
  BY <1>1, DelegateKeepsGate, ClarifyKeepsGate
<1>2. CASE \E r \in DOMAIN research : \E s \in DOMAIN research[r] : PollScout(r, s)
  BY <1>2, PollKeepsGate
<1>3. ASSUME UNCHANGED <<research, questions>> PROVE Counted' /\ Open' = Open /\ AtMostTwo' = AtMostTwo
  BY <1>3 DEF Gated, Counted, Open, AtMostTwo
<1>4. \A must \in BOOLEAN : ContinueIntake(must) /\ ~force' => Open
  <2>1. Cardinality(questions) \in Nat /\ Len(research) \in Nat
    BY FS_CardinalityType DEF Gated, Counted
  <2>2. ASSUME NEW must \in BOOLEAN, ContinueIntake(must), ~force'
        PROVE  ~(Cardinality(questions) >= 2) /\ ~(Len(research) >= 2)
    BY <2>2, Zenon DEF ContinueIntake
  <2> QED
    BY <2>1, <2>2 DEF Open
<1>5. Len(research) = 1 => AtMostTwo
  BY DEF AtMostTwo
<1>6. research # <<>> => Len(research) \in Nat \ {0}
  BY DEF Gated, Counted
<1>7. ASSUME UNCHANGED <<research, questions>>, Controlled' PROVE Gated'
  BY <1>3, <1>7 DEF Gated
<1> USE DEF WriteDraft, vars, planVars, lockVars, loopVars, boundVars
<1>8. CASE Owner
  <2>1. CASE Comment \/ Stop
    BY <2>1, <1>3, <1>7 DEF Gated, Controlled, Comment, Stop
  <2>2. CASE StartPlan \/ Answer \/ Draft \/ Revise
    <3>1. PICK must \in BOOLEAN : ContinueIntake(must)
      BY <2>2 DEF StartPlan, Answer, Draft, Revise
    <3>2. UNCHANGED <<research, questions, loopVars>>
      BY <2>2 DEF StartPlan, Answer, Draft, Revise
    <3>3. holder' = "owner" /\ pc' = "reserving"
      BY <3>1 DEF ContinueIntake, Take
    <3> QED
      BY <3>1, <3>2, <3>3, <1>3, <1>4, <1>7 DEF Gated, Controlled
  <2> QED
    BY <1>8, <2>1, <2>2 DEF Owner
<1>9. CASE MarkSynthesizing \/ ReserveTurn \/ CheckDraft \/ PlannerFails \/ CommitFails
  BY <1>9, <1>3, <1>7 DEF Gated, Controlled, MarkSynthesizing, ReserveTurn, Reserve, CheckDraft,
                          PlannerFails, CommitFails, Asked, Release, Free, EndSynthesis
<1>10. CASE AwaitAnswer \/ CommitDraft \/ Fail
  BY <1>10, <1>3, <1>7 DEF Gated, Controlled, AwaitAnswer, CommitDraft, Fail, Release, Free, EndSynthesis
<1>11. CASE Luna
  <2>1. UNCHANGED <<research, questions, lockVars, ready>>
        /\ step \notin {"synthesis", "waiting"} /\ step' # "waiting"
    BY <1>11 DEF Luna, BeginTurn, LunaEnds, LunaBlocks, LunaReplans, LunaReserves, LunaAsks,
                 LunaRevises, LunaCommits, Reserve, Back, EndTurn
  <2> QED
    BY <2>1, <1>3, <1>7 DEF Gated, Controlled
<1>12. CASE SeeReady
  BY <1>12, <1>3, <1>5, <1>6, <1>7 DEF Gated, Controlled, SeeReady
<1>13. CASE Synthesize
  <2>1. ready >= 2 \/ ready = 1
    BY <1>13 DEF Gated, Controlled, Synthesize
  <2>2. CASE plan = "researching"
    <3>1. /\ UNCHANGED <<research, questions, ready>>
          /\ holder' = "synthesis" /\ pc' = "starting" /\ step' = "synthesis"
      BY <1>13, <2>2 DEF Synthesize, Take
    <3>2. ~force' => ~(ready >= 2)
      BY <1>13, <2>2, Zenon DEF Synthesize
    <3> QED
      BY <2>1, <3>1, <3>2, <1>3, <1>7 DEF Gated, Controlled
  <2>3. CASE plan # "researching"
    BY <1>13, <2>3, <1>3, <1>7 DEF Gated, Controlled, Synthesize
  <2> QED
    BY <2>2, <2>3
<1>14. CASE GitHub
  BY <1>14, <1>3, <1>7 DEF Gated, Controlled, GitHub, EditBody, Approve, ReopenReview
<1>15. CASE Crash
  BY <1>15, <1>3, <1>7 DEF Gated, Controlled, Crash, Free
<1>16. CASE UNCHANGED vars
  BY <1>16, <1>3, <1>7 DEF Gated, Controlled
<1> QED
  BY <1>1, <1>2, <1>8, <1>9, <1>10, <1>11, <1>12, <1>13, <1>14, <1>15, <1>16
     DEF Next, Locked, Reconciler

\* What bounds the rounds and questions.
LEMMA GatedInvariance == Spec => []Gated
<1>1. Init => Gated
  <2> SUFFICES ASSUME Init PROVE Gated
    OBVIOUS
  <2>1. questions = {} /\ questions \ {LateQuestion} = {}
    BY DEF Init
  <2>2. IsFiniteSet({}) /\ Cardinality({}) = 0
    BY FS_EmptySet
  <2> QED
    BY <2>1, <2>2 DEF Init, Gated, Counted, Controlled
<1> QED
  BY <1>1, GatedStep, PTL DEF Spec

\* The planner asks the owner three times and sends out three rounds at most, for
\* any number of messages, scouts, versions and crashes.
THEOREM NoEndlessGateHolds == Spec => []NoEndlessGate
<1>1. Gated => NoEndlessGate
  <2> SUFFICES ASSUME Gated PROVE NoEndlessGate
    OBVIOUS
  <2> DEFINE others == questions \ {LateQuestion}
  <2>1. IsFiniteSet(others) /\ Cardinality(others) \in Nat /\ Cardinality(others) <= 2
    BY FS_Subset, FS_CardinalityType DEF Gated, Counted
  <2>2. questions \subseteq others \union {LateQuestion}
    OBVIOUS
  <2> HIDE DEF others
  <2>3. /\ IsFiniteSet(others \union {LateQuestion})
        /\ \/ Cardinality(others \union {LateQuestion}) = Cardinality(others)
           \/ Cardinality(others \union {LateQuestion}) = Cardinality(others) + 1
    BY <2>1, FS_AddElement
  <2>4. Cardinality(questions) \in Nat
        /\ Cardinality(questions) <= Cardinality(others \union {LateQuestion})
    BY <2>2, <2>3, FS_Subset, FS_CardinalityType DEF Gated, Counted
  <2> QED
    BY <2>1, <2>3, <2>4 DEF Gated, Counted, NoEndlessGate
<1> QED
  BY <1>1, GatedInvariance, PTL

-----------------------------------------------------------------------------
(* The types: the numbers of versions, rounds and messages stay behind     *)
(* what there is of each.                                                  *)

Staged ==
  /\ plan \in PlanStates
  /\ pc \in {"idle", "starting", "reserving", "asking", "answered", "publishing", "failed"}
  /\ step \in {"idle", "waiting", "synthesis", "turn", "reserved", "publishing"}
  /\ holder \in {"none", "owner", "synthesis"}
  /\ commented \in BOOLEAN /\ force \in BOOLEAN

Bounded ==
  /\ version <= MaxVersion /\ approval \in 0..version
  /\ messages \in 0..MaxMessage /\ crashes \in 0..MaxCrash
  /\ ready <= Len(research) /\ questions \subseteq {"owner", "synthesis"} \X Nat

\* What a comparison is stored as.
LEMMA ComparisonIsBoolean == ASSUME NEW b, NEW n, NEW m, b = (n >= m) PROVE b \in BOOLEAN
  BY SMT

\* Every step leaves the plan and the program counters at one of their values.
LEMMA StagedStep == Staged /\ [Next]_vars => Staged'
<1> SUFFICES ASSUME Staged, [Next]_vars PROVE Staged'
  OBVIOUS
<1> USE DEF Staged, WriteDraft, PlanStates, vars, planVars, lockVars, loopVars, boundVars
<1>1. CASE Owner
  <2>1. \A must \in BOOLEAN : ContinueIntake(must) => holder' = "owner" /\ pc' = "reserving" /\ force' \in BOOLEAN
    BY Zenon DEF ContinueIntake, Take
  <2>2. CASE StartPlan \/ Answer \/ Draft \/ Revise
    <3>1. \E must \in BOOLEAN : ContinueIntake(must)
      BY <2>2 DEF StartPlan, Answer, Draft, Revise
    <3>2. holder' = "owner" /\ pc' = "reserving" /\ force' \in BOOLEAN
      BY <2>1, <3>1
    <3> QED
      BY <2>2, <3>2 DEF StartPlan, Answer, Draft, Revise
  <2>3. CASE Comment \/ Stop
    BY <2>3 DEF Comment, Stop
  <2> QED
    BY <1>1, <2>2, <2>3 DEF Owner
<1>2. CASE Locked
  <2>1. CASE ReserveTurn \/ MarkSynthesizing \/ Clarify \/ PlannerFails \/ CommitFails
    BY <2>1 DEF ReserveTurn, Reserve, MarkSynthesizing, Clarify, PlannerFails, CommitFails,
                AskedFreely, Asked, Release, Free, EndSynthesis
  <2>2. CASE Delegate \/ AwaitAnswer \/ CheckDraft \/ CommitDraft \/ Fail
    BY <2>2 DEF Delegate, AwaitAnswer, CheckDraft, CommitDraft, Fail,
                AskedFreely, Asked, Release, Free, EndSynthesis
  <2> QED
    BY <1>2, <2>1, <2>2 DEF Locked
<1>3. CASE Reconciler
  <2>1. CASE LunaReserves \/ LunaAsks \/ LunaRevises \/ LunaCommits
    BY <2>1 DEF LunaReserves, LunaAsks, LunaRevises, LunaCommits, Reserve, Back, EndTurn
  <2>2. CASE BeginTurn \/ LunaEnds \/ LunaBlocks \/ LunaReplans
    BY <2>2 DEF BeginTurn, LunaEnds, LunaBlocks, LunaReplans, Back, EndTurn
  <2>3. CASE SeeReady
    BY <2>3 DEF SeeReady
  <2>4. CASE Synthesize
    <3>1. CASE force' = (ready >= 2)
      <4>1. force' \in BOOLEAN
        BY <3>1, ComparisonIsBoolean
      <4> QED
        BY <2>4, <4>1 DEF Synthesize, Take
    <3>2. CASE UNCHANGED lockVars
      BY <2>4, <3>2 DEF Synthesize, Take
    <3> QED
      BY <2>4, <3>1, <3>2 DEF Synthesize
  <2>5. CASE \E r \in DOMAIN research : \E s \in DOMAIN research[r] : PollScout(r, s)
    BY <2>5 DEF PollScout
  <2> QED
    BY <1>3, <2>1, <2>2, <2>3, <2>4, <2>5 DEF Reconciler, Luna
<1>4. CASE GitHub
  BY <1>4 DEF GitHub, EditBody, Approve, ReopenReview
<1>5. CASE Crash
  BY <1>5 DEF Crash, Free
<1>6. CASE UNCHANGED vars
  BY <1>6
<1> QED
  BY <1>1, <1>2, <1>3, <1>4, <1>5, <1>6 DEF Next

\* What a step may do to the bounded numbers: an approval is of the version there
\* is, a round found is one there is, and nothing else goes up by more than one.
Goes ==
  /\ approval' \in {0, approval} \/ (approval' = version /\ version' = version)
  /\ \/ UNCHANGED <<messages, crashes>>
     \/ messages < MaxMessage /\ messages' = messages + 1 /\ UNCHANGED crashes
     \/ crashes < MaxCrash /\ crashes' = crashes + 1 /\ UNCHANGED messages
  /\ ready' \in {0, ready} \/ (ready' = Len(research) /\ research' = research)
  /\ \/ UNCHANGED questions
     \/ /\ pc = "asking"
        /\ questions' = questions \union {<<holder, IF holder = "owner" THEN messages ELSE ready>>}
  /\ \/ UNCHANGED research
     \/ \E round : research' = Append(research, round)
     \/ \E r \in DOMAIN research : \E round : research' = [research EXCEPT ![r] = round]

\* Every step goes so.
LEMMA StepGoes == [Next]_vars => Goes
<1> SUFFICES ASSUME [Next]_vars PROVE Goes
  OBVIOUS
<1> USE DEF Goes, WriteDraft, vars, planVars, lockVars, loopVars, boundVars
<1>1. CASE Owner
  BY <1>1 DEF Owner, StartPlan, Answer, Draft, Comment, Revise, Stop, Message
<1>2. CASE Locked
  <2>1. CASE ReserveTurn \/ MarkSynthesizing \/ PlannerFails \/ CommitFails
    BY <2>1 DEF ReserveTurn, Reserve, MarkSynthesizing, PlannerFails, CommitFails, Release, Free, EndSynthesis
  <2>2. CASE AwaitAnswer \/ CheckDraft \/ CommitDraft \/ Fail
    BY <2>2 DEF AwaitAnswer, CheckDraft, CommitDraft, Fail, Asked, Release, Free, EndSynthesis
  <2>3. CASE Clarify
    BY <2>3 DEF Clarify, AskedFreely, Asked
  <2>4. CASE Delegate
    <3>1. \E round : research' = Append(research, round)
      BY <2>4 DEF Delegate
    <3> QED
      BY <2>4, <3>1 DEF Delegate, Release, EndSynthesis
  <2> QED
    BY <1>2, <2>1, <2>2, <2>3, <2>4 DEF Locked
<1>3. CASE Reconciler
  <2>1. CASE LunaReserves \/ LunaAsks \/ LunaRevises \/ LunaCommits
    BY <2>1 DEF LunaReserves, LunaAsks, LunaRevises, LunaCommits, Reserve
  <2>2. CASE BeginTurn \/ LunaEnds \/ LunaBlocks \/ LunaReplans
    BY <2>2 DEF BeginTurn, LunaEnds, LunaBlocks, LunaReplans
  <2>3. CASE SeeReady \/ Synthesize
    BY <2>3 DEF SeeReady, Synthesize
  <2>4. ASSUME NEW r \in DOMAIN research, NEW s \in DOMAIN research[r], PollScout(r, s) PROVE Goes
    <3>1. \E round : research' = [research EXCEPT ![r] = round]
      BY <2>4 DEF PollScout
    <3> QED
      BY <2>4, <3>1 DEF PollScout
  <2> QED
    BY <1>3, <2>1, <2>2, <2>3, <2>4 DEF Reconciler, Luna
<1>4. CASE GitHub
  BY <1>4 DEF GitHub, EditBody, Approve, ReopenReview
<1>5. CASE Crash
  BY <1>5 DEF Crash
<1>6. CASE UNCHANGED vars
  BY <1>6
<1> QED
  BY <1>1, <1>2, <1>3, <1>4, <1>5, <1>6 DEF Next

\* The bounds hold.
LEMMA BoundedStep ==
  Bounded /\ Numbered /\ Gated /\ [Next]_vars => Bounded'
<1> SUFFICES ASSUME Bounded, Numbered, Gated, Kept, Goes PROVE Bounded'
  BY StepKeeps, StepGoes
<1>1. version \in Nat /\ MaxVersion \in Nat /\ MaxMessage \in Nat /\ MaxCrash \in Nat
  BY IntakeAssumption DEF Numbered
<1>2. version' \in {version, version + 1} /\ version' <= MaxVersion
  <2>1. CASE UNCHANGED version
    BY <1>1, <2>1 DEF Bounded
  <2>2. ASSUME NEW author \in Authors, NEW from \in {base, lunaBase, version}, WriteDraft(author, from)
        PROVE  version' = version + 1 /\ version' <= MaxVersion
    <3>1. from \in 0..version
      BY <1>1 DEF Numbered
    <3>2. version' = version + 1 /\ from < MaxVersion /\ version' = from + 1
      BY <2>2, <3>1, WriteDraftAppends DEF WriteDraft
    <3> QED
      BY <1>1, <3>1, <3>2
  <2> QED
    BY <2>1, <2>2 DEF Kept
<1>3. approval' \in 0..version'
  BY <1>1, <1>2 DEF Bounded, Goes
<1>4. messages' \in 0..MaxMessage /\ crashes' \in 0..MaxCrash
  BY <1>1 DEF Bounded, Goes
<1>5. Len(research') >= Len(research) /\ Len(research) \in Nat /\ Len(research') \in Nat /\ ready \in Nat
  <2>1. research \in Seq(Round) /\ ready \in Nat
    BY DEF Gated, Counted, Controlled
  <2>2. ASSUME NEW round, research' = Append(research, round)
        PROVE  Len(research') = Len(research) + 1
    BY <2>1, <2>2
  <2>3. ASSUME NEW r \in DOMAIN research, NEW round, research' = [research EXCEPT ![r] = round]
        PROVE  Len(research') = Len(research)
    BY <2>1, <2>3
  <2> QED
    BY <2>1, <2>2, <2>3 DEF Goes
<1>6. ready' <= Len(research')
  BY <1>5 DEF Bounded, Goes
<1>7. questions' \subseteq {"owner", "synthesis"} \X Nat
  <2>1. pc = "asking" => holder \in {"owner", "synthesis"}
    BY DEF Gated, Controlled
  <2>2. messages \in Nat /\ ready \in Nat
    BY <1>1, <1>5 DEF Bounded
  <2> QED
    BY <2>1, <2>2 DEF Bounded, Goes
<1> QED
  BY <1>2, <1>3, <1>4, <1>6, <1>7 DEF Bounded

\* Whatever the owner, the planner, Luna, GitHub and crashes do to each other,
\* versions, rounds, turns and program counters stay what the tables can hold.
THEOREM IntakeTypeCorrect == Spec => []TypeOK
<1>1. Init => Staged /\ Bounded /\ Numbered
  <2>1. 0 \in 0..MaxMessage /\ 0 \in 0..MaxCrash /\ 0 <= MaxVersion
    <3>1. MaxMessage \in Nat /\ MaxVersion \in Nat /\ MaxCrash \in Nat
      BY IntakeAssumption
    <3> QED
      BY <3>1
  <2> SUFFICES ASSUME Init PROVE Staged /\ Bounded /\ Numbered
    OBVIOUS
  <2>2. Staged
    BY DEF Init, Staged, PlanStates
  <2>3. Bounded
    BY <2>1 DEF Init, Bounded
  <2>4. Numbered
    BY DEF Init, Numbered
  <2> QED
    BY <2>2, <2>3, <2>4
<1>2. Staged /\ Bounded /\ Numbered /\ Gated /\ Accounted => TypeOK
  <2> SUFFICES ASSUME Staged, Bounded, Numbered, Gated, Accounted PROVE TypeOK
    OBVIOUS
  <2>1. version \in 0..MaxVersion /\ ready \in 0..Len(research)
    BY IntakeAssumption DEF Bounded, Numbered, Gated, Counted, Controlled
  <2>2. research \in Seq(UNION {[1..n -> {"Pending"} \union Finished] : n \in 1..MaxScout})
    BY DEF Gated, Counted, Round
  <2> QED
    BY <2>1, <2>2 DEF TypeOK, Staged, Bounded, Numbered, Accounted
<1>3. Numbered /\ [Next]_vars => Numbered'
  BY StepKeeps, KeptAppends
<1> QED
  BY <1>1, <1>2, <1>3, StagedStep, BoundedStep, GatedInvariance, AccountedInvariance, PTL DEF Spec
=============================================================================
