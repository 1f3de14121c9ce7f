-------------------------- MODULE ReviewGate_proofs --------------------------
(***************************************************************************)
(* Proofs about ReviewGate, for every number of reviewers, commits,        *)
(* reviews and faults, and every quorum.  The gateway never compares what  *)
(* a reviewer saw with what it merges.  What it compares are numbers: a    *)
(* counted review began after the coder's last task, so it saw that task's *)
(* commit or a later one; and the commit is still the head when the merge  *)
(* is asked for, so it saw no later one.                                   *)
(***************************************************************************)
EXTENDS ReviewGate, FiniteSetTheorems, TLAPS

\* Commits grow, and one of the coder's good tasks is the last.
Numbered ==
  /\ \A n \in DOMAIN coders : coders[n].sha <= head
  /\ \A n, m \in DOMAIN coders : n <= m => coders[n].sha <= coders[m].sha
  /\ GoCoders = {} \/ \E n \in GoCoders : \A m \in GoCoders : m <= n

\* A review sees what the last task before it left, or what was pushed since.
ReviewsFollow ==
  \A r \in DOMAIN reviews :
    /\ reviews[r].after \in DOMAIN coders
    /\ coders[reviews[r].after].sha <= reviews[r].saw
    /\ reviews[r].saw <= head

GreenWasGreen == \A c \in Commits : checks[c] = "green" => c \in passedOnce

\* A review is on the pull request once at most, and where its post is complete.
PostedOnce ==
  /\ \A p \in Commits \X Reviewers : posted[p] \in {0, 1}
  /\ \A p \in actionsDone : posted[p] = 1

\* The reviewers that agree about what the coder left.
Agreeing == Agents(GoReviews)

\* What a pass knows stays true until it ends: Foreman's tasks are over.
PassIsOf ==
  gate # NoGate =>
    /\ gate.pc # "idle"
    /\ workload = "Completed"
    /\ GoCoders # {} /\ gate.sha = coders[LastCoder].sha
    /\ Cardinality(Agreeing) >= Quorum
    /\ \A a \in Agreeing : a \in gate.packets \/ posted[<<gate.sha, a>>] = 1
    /\ gate.pc = "mark" => gate.agent \in Reviewers /\ posted[<<gate.sha, gate.agent>>] = 1
    /\ gate.pc \in {"request", "begin"} => gate.packets = {}
    /\ gate.pc = "request" /\ head = gate.sha => head \in passedOnce

MergedAfterwards == merge.by = "gateway" => workload = "Completed" /\ merge.sha \in Commits

GateInv ==
  /\ GateTypeOK
  /\ Numbered
  /\ ReviewsFollow
  /\ GreenWasGreen
  /\ PostedOnce
  /\ PassIsOf
  /\ MergedAfterwards
  /\ MergedWasReviewed

-----------------------------------------------------------------------------
\* What the tasks hold has its type.
LEMMA TasksAreTyped ==
  ASSUME GateTypeOK
  PROVE  /\ \A n \in DOMAIN coders : coders[n].sha \in Commits /\ coders[n].sha \in Nat
         /\ \A r \in DOMAIN reviews :
              /\ reviews[r].agent \in Reviewers /\ reviews[r].after \in Nat
              /\ reviews[r].saw \in Commits /\ reviews[r].saw \in Nat
<1>1. \A n \in DOMAIN coders : coders[n] \in CoderTask
  BY DEF GateTypeOK
<1>2. \A r \in DOMAIN reviews : reviews[r] \in ReviewTask
  BY DEF GateTypeOK
<1> QED
  BY <1>1, <1>2 DEF CoderTask, ReviewTask, Commits

\* LastCoder is the last of the coder's good tasks.
LEMMA LastIsLast ==
  ASSUME Numbered, GoCoders # {}
  PROVE  LastCoder \in GoCoders /\ \A m \in GoCoders : m <= LastCoder
  BY DEF Numbered, LastCoder

\* While the tasks stay, so does what is read from them.
LEMMA TasksStay ==
  ASSUME UNCHANGED <<coders, reviews>>
  PROVE  /\ GoCoders' = GoCoders /\ LastCoder' = LastCoder
         /\ GoReviews' = GoReviews /\ Agreeing' = Agreeing
         /\ \A c : GoodReviewsOf(c)' = GoodReviewsOf(c)
<1>1. GoCoders' = GoCoders
  BY DEF GoCoders
<1>2. LastCoder' = LastCoder
  BY <1>1, Zenon DEF LastCoder
<1>3. GoReviews' = GoReviews
  BY <1>1, <1>2 DEF GoReviews
<1> QED
  BY <1>1, <1>2, <1>3 DEF Agreeing, Agents, GoodReviewsOf

\* A review that counts saw the commit that is merged, or a later one.
LEMMA CountedSaw ==
  ASSUME GateTypeOK, Numbered, ReviewsFollow, NEW r \in GoReviews
  PROVE  /\ r \in DOMAIN reviews /\ reviews[r].verdict = "go"
         /\ LastCoder \in GoCoders /\ coders[LastCoder].sha \in Commits
         /\ coders[LastCoder].sha <= reviews[r].saw
<1>1. GoCoders # {} /\ r \in DOMAIN reviews /\ reviews[r].verdict = "go" /\ reviews[r].after >= LastCoder
  BY DEF GoReviews
<1>2. LastCoder \in GoCoders
  BY <1>1, LastIsLast
<1>3. LastCoder \in DOMAIN coders /\ reviews[r].after \in DOMAIN coders
  BY <1>1, <1>2 DEF GoCoders, ReviewsFollow
<1>4. coders[LastCoder].sha \in Nat /\ coders[reviews[r].after].sha \in Nat
      /\ coders[LastCoder].sha \in Commits /\ reviews[r].saw \in Nat
  BY <1>1, <1>3, TasksAreTyped
<1>5. coders[LastCoder].sha <= coders[reviews[r].after].sha
  BY <1>1, <1>3 DEF Numbered
<1>6. coders[reviews[r].after].sha <= reviews[r].saw
  BY <1>1 DEF ReviewsFollow
<1> QED
  BY <1>1, <1>2, <1>4, <1>5, <1>6

\* A commit with enough reviews keeps them.
LEMMA ReviewedStays ==
  ASSUME GateInv, merge.by = "gateway", UNCHANGED <<coders, reviews>>,
         merge'.sha = merge.sha, passedOnce \subseteq passedOnce',
         \A p \in Commits \X Reviewers : posted[p] = 1 => posted'[p] = 1
  PROVE  MergedWasReviewed'
<1> DEFINE good == GoodReviewsOf(merge.sha)
           there == {a \in good : posted[<<merge.sha, a>>] = 1}
           thereNext == {a \in good : posted'[<<merge.sha, a>>] = 1}
<1>1. merge.sha \in Commits /\ Cardinality(good) >= Quorum /\ merge.sha \in passedOnce
      /\ Cardinality(there) >= Quorum
  BY DEF GateInv, MergedAfterwards, MergedWasReviewed
<1>2. good' = good
  BY TasksStay
<1>3. good \subseteq Reviewers /\ IsFiniteSet(good) /\ IsFiniteSet(thereNext)
  BY GateAssumption, FS_Subset DEF GoodReviewsOf
<1>4. there \subseteq thereNext
  BY <1>1, <1>3
<1>5. Cardinality(there) <= Cardinality(thereNext)
      /\ Cardinality(there) \in Nat /\ Cardinality(thereNext) \in Nat
  BY <1>3, <1>4, FS_Subset, FS_CardinalityType
<1>6. Cardinality(thereNext) >= Quorum
  BY <1>1, <1>5, GateAssumption
<1>7. GoodReviewsOf(merge.sha)' = good
  BY DEF GoodReviewsOf
<1> QED
  BY <1>1, <1>6, <1>7 DEF MergedWasReviewed

-----------------------------------------------------------------------------
(* The steps of Foreman's pipeline. *)

\* While the pipeline runs there is no pass, and no merge of the gateway's.
LEMMA NoPassYet ==
  ASSUME GateInv, workload = "Running"
  PROVE  gate = NoGate /\ merge.by # "gateway"
  BY DEF GateInv, PassIsOf, MergedAfterwards

\* The coder ends its task.
LEMMA CoderEndsStep == ASSUME GateInv, NEW go \in BOOLEAN, CoderEnds(go) PROVE GateInv'
<1> DEFINE task == [sha |-> head + 1, go |-> go]
<1>1. head \in Nat /\ head + 1 \in Commits /\ head' = head + 1
  BY GateAssumption DEF CoderEnds, GateInv, GateTypeOK, Commits
<1>2. task \in CoderTask /\ coders \in Seq(CoderTask) /\ coders' = Append(coders, task)
  BY <1>1 DEF CoderTask, CoderEnds, GateInv, GateTypeOK
<1>3. /\ coders' \in Seq(CoderTask) /\ Len(coders') = Len(coders) + 1
      /\ coders'[Len(coders) + 1] = task
      /\ \A n \in DOMAIN coders : coders'[n] = coders[n]
      /\ DOMAIN coders' = DOMAIN coders \union {Len(coders) + 1}
  BY <1>2
<1>4. \A n \in DOMAIN coders : coders[n].sha \in Nat
  BY TasksAreTyped DEF GateInv
<1>5. UNCHANGED <<checks, passedOnce, reviews, workload, merge, posted, actionsDone,
                  gate, deliverable, gateFaults>>
  BY DEF CoderEnds
<1>6. GateTypeOK'
  BY <1>1, <1>3, <1>5, GateAssumption DEF GateInv, GateTypeOK, Commits
<1>7. Numbered'
  <2>1. \A n \in DOMAIN coders' : coders'[n].sha <= head'
    BY <1>1, <1>3, <1>4 DEF GateInv, Numbered
  <2>2. \A n, m \in DOMAIN coders' : n <= m => coders'[n].sha <= coders'[m].sha
    BY <1>1, <1>2, <1>3, <1>4 DEF GateInv, Numbered
  <2>3. GoCoders' = IF go THEN GoCoders \union {Len(coders) + 1} ELSE GoCoders
    BY <1>3 DEF GoCoders
  <2>4. \A m \in GoCoders' : m <= Len(coders) + 1
    BY <1>2, <1>3 DEF GoCoders
  <2>5. GoCoders' = {} \/ \E n \in GoCoders' : \A m \in GoCoders' : m <= n
    BY <2>3, <2>4 DEF GateInv, Numbered
  <2> QED
    BY <2>1, <2>2, <2>5 DEF Numbered
<1>8. ReviewsFollow'
  <2> SUFFICES ASSUME NEW r \in DOMAIN reviews
               PROVE  /\ reviews[r].after \in DOMAIN coders'
                      /\ coders'[reviews[r].after].sha <= reviews[r].saw
                      /\ reviews[r].saw <= head'
    BY <1>5 DEF ReviewsFollow
  <2>1. reviews[r].saw \in Nat
    BY TasksAreTyped DEF GateInv
  <2> QED
    BY <2>1, <1>1, <1>3 DEF GateInv, ReviewsFollow
<1>9. gate = NoGate /\ merge.by # "gateway"
  BY NoPassYet DEF CoderEnds
<1> QED
  BY <1>5, <1>6, <1>7, <1>8, <1>9
  DEF GateInv, GreenWasGreen, PostedOnce, PassIsOf, MergedAfterwards, MergedWasReviewed

\* A reviewer begins.
LEMMA ReviewBeginsStep == ASSUME GateInv, NEW a \in Reviewers, ReviewBegins(a) PROVE GateInv'
<1> DEFINE task == [agent |-> a, after |-> Len(coders), saw |-> head, verdict |-> "none"]
<1>1. /\ coders \in Seq(CoderTask) /\ Len(coders) \in DOMAIN coders /\ Len(coders) \in Nat
      /\ \A n \in DOMAIN coders : coders[n] \in CoderTask
  BY DEF ReviewBegins, GateInv, GateTypeOK
<1>2. coders[Len(coders)].sha <= head /\ head \in Commits
  BY <1>1, GateAssumption DEF GateInv, GateTypeOK, Numbered, CoderTask, Commits
<1>3. task \in ReviewTask /\ reviews \in Seq(ReviewTask) /\ reviews' = Append(reviews, task)
  BY <1>1, <1>2 DEF ReviewBegins, ReviewTask, GateInv, GateTypeOK
<1>4. /\ reviews' \in Seq(ReviewTask) /\ reviews'[Len(reviews) + 1] = task
      /\ \A r \in DOMAIN reviews : reviews'[r] = reviews[r]
      /\ DOMAIN reviews' = DOMAIN reviews \union {Len(reviews) + 1}
  BY <1>3
<1>5. UNCHANGED <<head, checks, passedOnce, coders, workload, merge, posted, actionsDone,
                  gate, deliverable, gateFaults>>
  BY DEF ReviewBegins
<1>6. GateTypeOK'
  BY <1>4, <1>5 DEF GateInv, GateTypeOK
<1>7. ReviewsFollow'
  <2>1. \A r \in DOMAIN reviews' : (r \in DOMAIN reviews /\ reviews'[r] = reviews[r]) \/ reviews'[r] = task
    BY <1>4
  <2>2. head \in Nat
    BY <1>2 DEF Commits
  <2> QED
    BY <1>1, <1>2, <1>5, <2>1, <2>2 DEF GateInv, ReviewsFollow
<1>8. gate = NoGate /\ merge.by # "gateway"
  BY NoPassYet DEF ReviewBegins
<1>9. Numbered'
  BY <1>5 DEF GateInv, Numbered, GoCoders
<1> QED
  BY <1>5, <1>6, <1>7, <1>8, <1>9
  DEF GateInv, GreenWasGreen, PostedOnce, PassIsOf, MergedAfterwards, MergedWasReviewed

\* A reviewer ends with its verdict.
LEMMA ReviewEndsStep ==
  ASSUME GateInv, NEW r \in DOMAIN reviews, NEW v \in {"go", "nogo"}, ReviewEnds(r, v)
  PROVE  GateInv'
<1>1. /\ reviews \in Seq(ReviewTask) /\ reviews[r] \in ReviewTask
      /\ reviews' = [reviews EXCEPT ![r].verdict = v]
  BY DEF ReviewEnds, GateInv, GateTypeOK
<1>2. [reviews[r] EXCEPT !.verdict = v] \in ReviewTask
  BY <1>1 DEF ReviewTask
<1>3. reviews' = [reviews EXCEPT ![r] = [reviews[r] EXCEPT !.verdict = v]]
  BY <1>1
<1>4. reviews' \in Seq(ReviewTask) /\ DOMAIN reviews' = DOMAIN reviews
  BY <1>1, <1>2, <1>3
<1>5. \A i \in DOMAIN reviews : reviews'[i].after = reviews[i].after /\ reviews'[i].saw = reviews[i].saw
  BY <1>1, <1>3 DEF ReviewTask
<1>6. UNCHANGED <<head, checks, passedOnce, coders, workload, merge, posted, actionsDone,
                  gate, deliverable, gateFaults>>
  BY DEF ReviewEnds
<1>7. GateTypeOK'
  BY <1>4, <1>6 DEF GateInv, GateTypeOK
<1>8. Numbered' /\ ReviewsFollow'
  BY <1>4, <1>5, <1>6 DEF GateInv, Numbered, GoCoders, ReviewsFollow
<1>9. gate = NoGate /\ merge.by # "gateway"
  BY NoPassYet DEF ReviewEnds
<1> QED
  BY <1>6, <1>7, <1>8, <1>9
  DEF GateInv, GreenWasGreen, PostedOnce, PassIsOf, MergedAfterwards, MergedWasReviewed

-----------------------------------------------------------------------------
(* What the other steps keep.  They leave Foreman's tasks alone. *)

\* Steps that leave the tasks alone and move the head forward at most.
LEMMA TasksKept ==
  ASSUME GateInv, UNCHANGED <<coders, reviews>>, head' \in Nat, head' >= head
  PROVE  Numbered' /\ ReviewsFollow'
<1>1. head \in Nat
  BY DEF GateInv, GateTypeOK
<1>2. GoCoders' = GoCoders
  BY TasksStay
<1> QED
  BY <1>1, <1>2, TasksAreTyped DEF GateInv, Numbered, ReviewsFollow

\* A merge that was queued before, or the owner's, needs no new reason.
LEMMA MergeKept ==
  ASSUME GateInv, UNCHANGED <<coders, reviews, workload>>, passedOnce \subseteq passedOnce',
         merge'.by = "gateway" => merge.by = "gateway" /\ merge'.sha = merge.sha,
         \A p \in Commits \X Reviewers : posted[p] = 1 => posted'[p] = 1
  PROVE  MergedAfterwards' /\ MergedWasReviewed'
<1>1. CASE merge'.by = "gateway"
  BY <1>1, ReviewedStays DEF GateInv, MergedAfterwards
<1>2. CASE merge'.by # "gateway"
  BY <1>2 DEF MergedAfterwards, MergedWasReviewed
<1> QED
  BY <1>1, <1>2

\* The commit of a pass is the branch's head or an earlier one.
LEMMA PassSha ==
  ASSUME GateInv, gate # NoGate
  PROVE  gate.sha \in Commits /\ gate.sha <= head /\ head \in Commits
<1>1. LastCoder \in DOMAIN coders /\ gate.sha = coders[LastCoder].sha
  BY LastIsLast DEF GateInv, PassIsOf, GoCoders
<1> QED
  BY <1>1, TasksAreTyped, GateAssumption DEF GateInv, Numbered, GateTypeOK, Commits

\* A pass that is not on its way goes on as it was, or has ended.
LEMMA PassKept ==
  ASSUME GateInv, UNCHANGED <<coders, reviews, workload, posted>>, gate' \in {gate, NoGate},
         passedOnce \subseteq passedOnce', head' \in Nat, head' >= head
  PROVE  PassIsOf'
<1> SUFFICES ASSUME gate # NoGate, gate' = gate PROVE PassIsOf'
  BY DEF PassIsOf
<1>1. gate.sha \in Nat /\ gate.sha <= head /\ head \in Nat
  BY PassSha DEF Commits
<1>2. gate.pc = "request" /\ head' = gate.sha => head' \in passedOnce'
  BY <1>1 DEF GateInv, PassIsOf
<1>3. GoCoders' = GoCoders /\ LastCoder' = LastCoder /\ Agreeing' = Agreeing
  BY TasksStay
<1>4. coders'[LastCoder'].sha = coders[LastCoder].sha
  BY <1>3
<1> QED
  BY <1>2, <1>3, <1>4 DEF GateInv, PassIsOf

-----------------------------------------------------------------------------
(* The steps of GitHub and its users. *)

\* Somebody else pushes.
LEMMA PushesStep == ASSUME GateInv, Pushes PROVE GateInv'
<1>1. UNCHANGED <<checks, passedOnce, coders, reviews, workload, merge, posted, actionsDone,
                  gate, deliverable, gateFaults>>
  BY DEF Pushes, pipelineVars
<1>2. head' \in 0..MaxCommits /\ head' \in Nat /\ head' >= head
  BY GateAssumption DEF Pushes, GateInv, GateTypeOK
<1>3. GateTypeOK' /\ GreenWasGreen' /\ PostedOnce'
  BY <1>1, <1>2 DEF GateInv, GateTypeOK, GreenWasGreen, PostedOnce
<1> QED
  BY <1>1, <1>2, <1>3, TasksKept, MergeKept, PassKept DEF GateInv

\* The checks of a commit end, or are started again.
LEMMA ChecksMoveStep ==
  ASSUME GateInv, NEW c \in Commits, NEW result \in {"pending", "green", "red"}, ChecksMove(c, result)
  PROVE  GateInv'
<1>1. UNCHANGED <<head, coders, reviews, workload, merge, posted, actionsDone,
                  gate, deliverable, gateFaults>>
  BY DEF ChecksMove, pipelineVars
<1>2. head \in Nat /\ passedOnce \subseteq passedOnce'
  BY DEF ChecksMove, GateInv, GateTypeOK
<1>3. GateTypeOK' /\ PostedOnce'
  BY <1>1 DEF ChecksMove, GateInv, GateTypeOK, PostedOnce
<1>4. GreenWasGreen'
  BY DEF ChecksMove, GateInv, GateTypeOK, GreenWasGreen
<1> QED
  BY <1>1, <1>2, <1>3, <1>4, TasksKept, MergeKept, PassKept DEF GateInv

\* GitHub merges what it was asked to.
LEMMA GitHubMergesStep == ASSUME GateInv, GitHubMerges PROVE GateInv'
<1>1. UNCHANGED <<head, checks, passedOnce, coders, reviews, workload, posted, actionsDone,
                  gate, deliverable, gateFaults>>
  BY DEF GitHubMerges, pipelineVars
<1>2. merge'.sha = merge.sha /\ merge'.by = merge.by
  BY DEF GitHubMerges, GateInv, GateTypeOK
<1>3. merge' \in Merge
  BY DEF GitHubMerges, GateInv, GateTypeOK, Merge
<1>4. GateTypeOK' /\ GreenWasGreen' /\ PostedOnce'
  BY <1>1, <1>3 DEF GateInv, GateTypeOK, GreenWasGreen, PostedOnce
<1>5. head \in Nat
  BY DEF GateInv, GateTypeOK
<1> QED
  BY <1>1, <1>2, <1>4, <1>5, TasksKept, MergeKept, PassKept DEF GateInv

\* The owner merges.
LEMMA OwnerMergesStep == ASSUME GateInv, OwnerMerges PROVE GateInv'
<1>1. UNCHANGED <<head, checks, passedOnce, coders, reviews, workload, posted, actionsDone,
                  gate, deliverable, gateFaults>>
  BY DEF OwnerMerges, pipelineVars
<1>2. merge'.by # "gateway" /\ head \in Nat
  BY DEF OwnerMerges, GateInv, GateTypeOK
<1>3. merge' \in Merge
  BY DEF OwnerMerges, GateInv, GateTypeOK, Merge
<1>4. GateTypeOK' /\ GreenWasGreen' /\ PostedOnce'
  BY <1>1, <1>3 DEF GateInv, GateTypeOK, GreenWasGreen, PostedOnce
<1> QED
  BY <1>1, <1>2, <1>4, TasksKept, MergeKept, PassKept DEF GateInv

\* The workload ends.
LEMMA PipelineEndsStep == ASSUME GateInv, PipelineEnds PROVE GateInv'
<1>1. UNCHANGED <<head, checks, passedOnce, coders, reviews, merge, posted, actionsDone,
                  gate, deliverable, gateFaults>>
  BY DEF PipelineEnds
<1>2. GateTypeOK' /\ GreenWasGreen' /\ PostedOnce'
  BY <1>1 DEF PipelineEnds, GateInv, GateTypeOK, GreenWasGreen, PostedOnce
<1>3. gate = NoGate /\ merge.by # "gateway" /\ head \in Nat
  BY NoPassYet DEF PipelineEnds, GateInv, GateTypeOK
<1>4. Numbered' /\ ReviewsFollow'
  BY <1>1, <1>3, TasksKept
<1> QED
  BY <1>1, <1>2, <1>3, <1>4 DEF GateInv, PassIsOf, MergedAfterwards, MergedWasReviewed

-----------------------------------------------------------------------------
(* The steps of a pass. *)

\* The reviewers that agree are reviewers.
LEMMA AgreeingAreReviewers == ASSUME GateInv PROVE Agreeing \subseteq Reviewers
  BY TasksAreTyped DEF GateInv, Agreeing, Agents, GoReviews

\* No pass is a pass.
LEMMA NoGateIsPass == NoGate \in Pass
  BY GateAssumption DEF NoGate, Pass

\* The gate looks for a candidate.
LEMMA CandidateStep == ASSUME GateInv, Candidate PROVE GateInv'
<1>1. UNCHANGED <<head, checks, passedOnce, coders, reviews, workload, merge, posted,
                  actionsDone, gateFaults>>
  BY DEF Candidate, pipelineVars
<1>2. head \in Nat
  BY DEF GateInv, GateTypeOK
<1>3. Numbered' /\ ReviewsFollow' /\ GreenWasGreen' /\ PostedOnce'
      /\ MergedAfterwards' /\ MergedWasReviewed'
  BY <1>1, <1>2, TasksKept, MergeKept DEF GateInv, GreenWasGreen, PostedOnce
<1>4. CASE BlockDeliverable
  <2>1. GateTypeOK'
    BY <1>1, <1>4, NoGateIsPass DEF BlockDeliverable, GateInv, GateTypeOK
  <2> QED
    BY <1>3, <1>4, <2>1 DEF BlockDeliverable, GateInv, PassIsOf
<1>5. CASE /\ Cardinality(Agents(GoReviews)) >= Quorum
           /\ gate' = [NoGate EXCEPT !.pc = "post", !.sha = coders[LastCoder].sha,
                                     !.packets = Agents(GoReviews)]
           /\ UNCHANGED deliverable
  <2>1. GoReviews # {}
    <3> SUFFICES ASSUME GoReviews = {} PROVE FALSE
      OBVIOUS
    <3>1. Cardinality(Agents(GoReviews)) = 0
      BY FS_EmptySet DEF Agents
    <3> QED
      BY <1>5, <3>1, GateAssumption
  <2>2. GoCoders # {} /\ coders[LastCoder].sha \in Commits
    BY <2>1, CountedSaw DEF GateInv
  <2>3. gate' = [pc |-> "post", sha |-> coders[LastCoder].sha, packets |-> Agreeing, agent |-> "-"]
    BY <1>5 DEF NoGate, Agreeing
  <2>4. GateTypeOK'
    <3>1. gate' \in Pass
      BY <2>2, <2>3, AgreeingAreReviewers, GateAssumption DEF Pass, Commits
    <3> QED
      BY <1>1, <1>5, <3>1 DEF GateInv, GateTypeOK
  <2>5. GoCoders' = GoCoders /\ LastCoder' = LastCoder /\ Agreeing' = Agreeing
    BY <1>1, TasksStay
  <2>6. workload' = "Completed" /\ Cardinality(Agreeing) >= Quorum
    BY <1>1, <1>5 DEF Candidate, Agreeing
  <2>7. PassIsOf'
    BY <1>1, <2>2, <2>3, <2>5, <2>6 DEF PassIsOf
  <2> QED
    BY <1>3, <2>4, <2>7 DEF GateInv
<1> QED
  BY <1>4, <1>5 DEF Candidate

\* A step of a pass at the commit leaves what is not the pass's alone.
LEMMA PostPacketsStep == ASSUME GateInv, NEW a \in Reviewers, PostPackets(a) PROVE GateInv'
<1> DEFINE p == <<gate.sha, a>>
<1>1. UNCHANGED <<head, checks, passedOnce, coders, reviews, workload, merge, actionsDone,
                  deliverable, gateFaults>>
  BY DEF PostPackets, pipelineVars
<1>2. gate.pc = "post" /\ gate # NoGate /\ a \in gate.packets /\ gate \in Pass
  BY DEF PostPackets, NoGate, GateInv, GateTypeOK
<1>3. gate.sha \in Commits /\ p \in Commits \X Reviewers /\ head \in Nat
  BY <1>2, PassSha DEF GateInv, GateTypeOK
<1>4. posted' = [posted EXCEPT ![p] = 1] /\ posted \in [Commits \X Reviewers -> Nat]
  <2>1. posted \in [Commits \X Reviewers -> Nat]
    BY DEF GateInv, GateTypeOK
  <2>2. posted[p] \in {0, 1} /\ (p \in actionsDone => posted[p] = 1)
    BY <1>3 DEF GateInv, PostedOnce
  <2>3. posted[p] = 1 => posted = [posted EXCEPT ![p] = 1]
    BY <1>3, <2>1
  <2>4. posted' = IF p \in actionsDone THEN posted ELSE Posts(a)
    BY DEF PostPackets
  <2> QED
    BY <2>1, <2>2, <2>3, <2>4 DEF Posts
<1>5. \A q \in Commits \X Reviewers : posted'[q] = IF q = p THEN 1 ELSE posted[q]
  BY <1>3, <1>4
<1>6. /\ gate'.pc \in {"post", "mark"} /\ gate'.sha = gate.sha /\ gate'.packets = gate.packets \ {a}
      /\ gate'.pc = "mark" => gate'.agent = a
      /\ gate' \in Pass
  BY <1>2 DEF PostPackets, Pass
<1>7. GateTypeOK' /\ GreenWasGreen'
  BY <1>1, <1>4, <1>6 DEF GateInv, GateTypeOK, GreenWasGreen
<1>8. PostedOnce'
  <2>1. actionsDone \subseteq Commits \X Reviewers
    BY DEF GateInv, GateTypeOK
  <2> QED
    BY <1>1, <1>5, <2>1 DEF GateInv, PostedOnce
<1>9. Numbered' /\ ReviewsFollow' /\ MergedAfterwards' /\ MergedWasReviewed'
  BY <1>1, <1>3, <1>5, TasksKept, MergeKept
<1>10. PassIsOf'
  <2>1. GoCoders' = GoCoders /\ LastCoder' = LastCoder /\ Agreeing' = Agreeing
        /\ coders'[LastCoder'].sha = coders[LastCoder].sha
    BY <1>1, TasksStay
  <2>2. \A b \in Agreeing : b \in gate'.packets \/ posted'[<<gate.sha, b>>] = 1
    <3> SUFFICES ASSUME NEW b \in Agreeing PROVE b \in gate'.packets \/ posted'[<<gate.sha, b>>] = 1
      OBVIOUS
    <3>1. <<gate.sha, b>> \in Commits \X Reviewers
      BY <1>3, AgreeingAreReviewers
    <3> QED
      BY <1>2, <1>5, <1>6, <3>1 DEF GateInv, PassIsOf
  <2>3. posted'[<<gate.sha, a>>] = 1
    BY <1>3, <1>5
  <2> QED
    BY <1>1, <1>2, <1>6, <2>1, <2>2, <2>3 DEF GateInv, PassIsOf
<1> QED
  BY <1>7, <1>8, <1>9, <1>10 DEF GateInv

\* The gate completes its action.
LEMMA MarkStep == ASSUME GateInv, Mark PROVE GateInv'
<1>1. UNCHANGED <<head, checks, passedOnce, coders, reviews, workload, merge, posted,
                  deliverable, gateFaults>>
  BY DEF Mark, pipelineVars
<1>2. gate.pc = "mark" /\ gate # NoGate /\ gate \in Pass /\ gate.agent \in Reviewers
      /\ posted[<<gate.sha, gate.agent>>] = 1 /\ gate.sha \in Commits /\ head \in Nat
  BY PassSha DEF Mark, NoGate, GateInv, GateTypeOK, PassIsOf
<1>3. gate'.pc = "post" /\ gate'.sha = gate.sha /\ gate'.packets = gate.packets /\ gate' \in Pass
  BY <1>2 DEF Mark, Pass
<1>4. actionsDone' = actionsDone \union {<<gate.sha, gate.agent>>}
  BY DEF Mark
<1>5. GateTypeOK' /\ GreenWasGreen' /\ PostedOnce'
  <2>1. <<gate.sha, gate.agent>> \in Commits \X Reviewers
    BY <1>2
  <2>2. GateTypeOK'
    BY <1>1, <1>3, <1>4, <2>1 DEF GateInv, GateTypeOK
  <2>3. GreenWasGreen' /\ PostedOnce'
    BY <1>1, <1>2, <1>4 DEF GateInv, GreenWasGreen, PostedOnce
  <2> QED
    BY <2>2, <2>3
<1>6. Numbered' /\ ReviewsFollow' /\ MergedAfterwards' /\ MergedWasReviewed'
  BY <1>1, <1>2, TasksKept, MergeKept
<1>7. PassIsOf'
  <2>1. GoCoders' = GoCoders /\ LastCoder' = LastCoder /\ Agreeing' = Agreeing
        /\ coders'[LastCoder'].sha = coders[LastCoder].sha
    BY <1>1, TasksStay
  <2> QED
    BY <1>1, <1>2, <1>3, <2>1 DEF GateInv, PassIsOf
<1> QED
  BY <1>5, <1>6, <1>7 DEF GateInv

\* Checks that are green now are the merged commit's if it is still the head.
LEMMA ChecksStep == ASSUME GateInv, Checks PROVE GateInv'
<1>1. UNCHANGED <<head, checks, passedOnce, coders, reviews, workload, merge, posted,
                  actionsDone, gateFaults>>
  BY DEF Checks, pipelineVars
<1>2. gate.pc = "post" /\ gate # NoGate /\ gate.packets = {} /\ gate \in Pass
      /\ head \in Commits /\ head \in Nat
  BY PassSha DEF Checks, NoGate, GateInv, GateTypeOK
<1>3. Numbered' /\ ReviewsFollow' /\ GreenWasGreen' /\ PostedOnce'
      /\ MergedAfterwards' /\ MergedWasReviewed'
  BY <1>1, <1>2, TasksKept, MergeKept DEF GateInv, GreenWasGreen, PostedOnce
<1>4. CASE checks[head] = "green" /\ GateGoes("request") /\ UNCHANGED deliverable
  <2>1. gate'.pc = "request" /\ gate'.sha = gate.sha /\ gate'.packets = {} /\ gate' \in Pass
    BY <1>2, <1>4 DEF GateGoes, Pass
  <2>2. GateTypeOK'
    BY <1>1, <1>4, <2>1 DEF GateInv, GateTypeOK
  <2>3. head \in passedOnce
    BY <1>2, <1>4 DEF GateInv, GreenWasGreen
  <2>4. GoCoders' = GoCoders /\ LastCoder' = LastCoder /\ Agreeing' = Agreeing
        /\ coders'[LastCoder'].sha = coders[LastCoder].sha
    BY <1>1, TasksStay
  <2>5. PassIsOf'
    BY <1>1, <1>2, <2>1, <2>3, <2>4 DEF GateInv, PassIsOf
  <2> QED
    BY <1>3, <2>2, <2>5 DEF GateInv
<1>5. CASE gate' = NoGate /\ deliverable' \in {deliverable, "failed"}
  <2>1. GateTypeOK'
    BY <1>1, <1>5, NoGateIsPass DEF GateInv, GateTypeOK
  <2> QED
    BY <1>3, <1>5, <2>1 DEF GateInv, PassIsOf
<1>6. checks[head] \in {"pending", "green", "red"}
  BY <1>2 DEF GateInv, GateTypeOK
<1> QED
  BY <1>4, <1>5, <1>6 DEF Checks, BlockDeliverable

\* What is queued is what was reviewed: its reviews saw no later commit, as the
\* commit is the head, and no earlier one.
LEMMA QueuedIsReviewed ==
  ASSUME GateInv, gate.pc = "request", head = gate.sha, merge.status # "merged", merge' = Queued,
         UNCHANGED <<coders, reviews, workload, passedOnce, posted>>
  PROVE  MergedAfterwards' /\ MergedWasReviewed' /\ merge' \in Merge
<1>1. gate # NoGate /\ gate.sha \in Commits /\ head \in passedOnce /\ gate.packets = {}
      /\ workload = "Completed" /\ gate.sha = coders[LastCoder].sha
  BY PassSha DEF NoGate, GateInv, PassIsOf
<1>2. CASE merge.status = "queued"
  BY <1>2, MergeKept DEF Queued, GateInv, GateTypeOK
<1>3. CASE merge.status # "queued"
  <2> DEFINE good == GoodReviewsOf(gate.sha)
             there == {a \in good : posted[<<gate.sha, a>>] = 1}
  <2>1. merge' = [status |-> "queued", sha |-> gate.sha, by |-> "gateway"]
    BY <1>3 DEF Queued
  <2>2. Agreeing \subseteq good
    <3> SUFFICES ASSUME NEW r \in GoReviews PROVE reviews[r].agent \in good
      BY DEF Agreeing, Agents
    <3>1. /\ r \in DOMAIN reviews /\ reviews[r].verdict = "go"
          /\ gate.sha <= reviews[r].saw
      BY <1>1, CountedSaw DEF GateInv
    <3>2. reviews[r].saw <= gate.sha /\ reviews[r].saw \in Nat /\ gate.sha \in Nat
          /\ reviews[r].agent \in Reviewers
      BY <1>1, <3>1, TasksAreTyped DEF GateInv, ReviewsFollow, Commits
    <3>3. reviews[r].saw = gate.sha
      BY <3>1, <3>2
    <3> QED
      BY <3>1, <3>2, <3>3 DEF GoodReviewsOf
  <2>3. Agreeing \subseteq there
    BY <1>1, <2>2 DEF GateInv, PassIsOf
  <2>4. good \subseteq Reviewers /\ there \subseteq Reviewers
    BY DEF GoodReviewsOf
  <2>5. IsFiniteSet(good) /\ IsFiniteSet(there) /\ IsFiniteSet(Agreeing)
    BY <2>4, AgreeingAreReviewers, GateAssumption, FS_Subset
  <2>6. /\ Cardinality(Agreeing) \in Nat /\ Cardinality(good) \in Nat /\ Cardinality(there) \in Nat
        /\ Cardinality(Agreeing) <= Cardinality(good) /\ Cardinality(Agreeing) <= Cardinality(there)
    BY <2>2, <2>3, <2>5, FS_Subset, FS_CardinalityType
  <2>7. Cardinality(good) >= Quorum /\ Cardinality(there) >= Quorum
    BY <1>1, <2>6, GateAssumption DEF GateInv, PassIsOf
  <2>8. merge'.sha = gate.sha /\ GoodReviewsOf(merge.sha)' = good
    BY <2>1 DEF GoodReviewsOf
  <2>9. MergedWasReviewed'
    BY <1>1, <2>7, <2>8 DEF MergedWasReviewed
  <2>10. MergedAfterwards'
    BY <1>1, <2>1 DEF MergedAfterwards
  <2> QED
    BY <1>1, <2>1, <2>9, <2>10, GateAssumption DEF Commits, Merge
<1> QED
  BY <1>2, <1>3

\* The gate asks for the merge.
LEMMA RequestMergeStep == ASSUME GateInv, RequestMerge PROVE GateInv'
<1>1. UNCHANGED <<head, checks, passedOnce, coders, reviews, workload, posted,
                  actionsDone, gateFaults>>
  BY DEF RequestMerge, pipelineVars
<1>2. gate.pc = "request" /\ gate # NoGate /\ gate \in Pass /\ head \in Nat
  BY DEF RequestMerge, NoGate, GateInv, GateTypeOK
<1>3. Numbered' /\ ReviewsFollow' /\ GreenWasGreen' /\ PostedOnce'
  BY <1>1, <1>2, TasksKept DEF GateInv, GreenWasGreen, PostedOnce
<1>4. MergedAfterwards' /\ MergedWasReviewed' /\ merge' \in Merge
  <2>1. CASE UNCHANGED merge
    BY <1>1, <2>1, MergeKept DEF GateInv, GateTypeOK
  <2>2. CASE merge.status # "merged" /\ head = gate.sha /\ merge' = Queued
    BY <1>1, <1>2, <2>2, QueuedIsReviewed
  <2> QED
    BY <2>1, <2>2 DEF RequestMerge
<1>5. CASE BlockDeliverable
  <2>1. GateTypeOK'
    BY <1>1, <1>4, <1>5, NoGateIsPass DEF BlockDeliverable, GateInv, GateTypeOK
  <2> QED
    BY <1>3, <1>4, <1>5, <2>1 DEF BlockDeliverable, GateInv, PassIsOf
<1>6. CASE GateGoes("begin") /\ UNCHANGED deliverable
  <2>1. gate'.pc = "begin" /\ gate'.sha = gate.sha /\ gate'.packets = gate.packets /\ gate' \in Pass
    BY <1>2, <1>6 DEF GateGoes, Pass
  <2>2. GateTypeOK'
    BY <1>1, <1>4, <1>6, <2>1 DEF GateInv, GateTypeOK
  <2>3. GoCoders' = GoCoders /\ LastCoder' = LastCoder /\ Agreeing' = Agreeing
        /\ coders'[LastCoder'].sha = coders[LastCoder].sha
    BY <1>1, TasksStay
  <2>4. PassIsOf'
    BY <1>1, <1>2, <2>1, <2>3 DEF GateInv, PassIsOf
  <2> QED
    BY <1>3, <1>4, <2>2, <2>4 DEF GateInv
<1> QED
  BY <1>5, <1>6 DEF RequestMerge

\* A pass that ends with its deliverable, or that finds the merge's result.
LEMMA EndsStep == ASSUME GateInv, BeginsMerge \/ FinishesMerge PROVE GateInv'
<1>1. UNCHANGED <<head, checks, passedOnce, coders, reviews, workload, merge, posted,
                  actionsDone, gateFaults>> /\ gate' \in {gate, NoGate}
      /\ deliverable' \in {"merge_pending", "merged", "failed"}
  BY DEF BeginsMerge, FinishesMerge, pipelineVars
<1>2. GateTypeOK' /\ GreenWasGreen' /\ PostedOnce'
  BY <1>1, NoGateIsPass DEF GateInv, GateTypeOK, GreenWasGreen, PostedOnce
<1>3. head \in Nat
  BY DEF GateInv, GateTypeOK
<1> QED
  BY <1>1, <1>2, <1>3, TasksKept, MergeKept, PassKept DEF GateInv

\* A pass is abandoned.
LEMMA FaultStep == ASSUME GateInv, GateFault PROVE GateInv'
<1>1. UNCHANGED <<head, checks, passedOnce, coders, reviews, workload, actionsDone, deliverable>>
      /\ gate' = NoGate /\ gateFaults' \in 0..MaxGateFaults
  BY GateAssumption DEF GateFault, pipelineVars, GateInv, GateTypeOK
<1>2. head \in Nat /\ posted \in [Commits \X Reviewers -> Nat] /\ merge \in Merge
      /\ actionsDone \subseteq Commits \X Reviewers
  BY DEF GateInv, GateTypeOK
<1>3. Numbered' /\ ReviewsFollow' /\ GreenWasGreen' /\ PassIsOf'
  BY <1>1, <1>2, TasksKept DEF GateInv, GreenWasGreen, PassIsOf
<1>4. CASE UNCHANGED merge /\ posted' \in [Commits \X Reviewers -> Nat]
           /\ \A p \in Commits \X Reviewers : posted'[p] = posted[p] \/ posted'[p] = 1
  <2>1. GateTypeOK'
    BY <1>1, <1>4, NoGateIsPass DEF GateInv, GateTypeOK
  <2>2. PostedOnce'
    BY <1>1, <1>2, <1>4 DEF GateInv, PostedOnce
  <2>3. MergedAfterwards' /\ MergedWasReviewed'
    BY <1>1, <1>4, MergeKept
  <2> QED
    BY <1>3, <2>1, <2>2, <2>3 DEF GateInv
<1>5. CASE gate.pc = "request" /\ UNCHANGED posted
           /\ merge.status # "merged" /\ head = gate.sha /\ merge' = Queued
  <2>1. MergedAfterwards' /\ MergedWasReviewed' /\ merge' \in Merge
    BY <1>1, <1>5, QueuedIsReviewed
  <2>2. GateTypeOK' /\ PostedOnce'
    BY <1>1, <1>5, <2>1, NoGateIsPass DEF GateInv, GateTypeOK, PostedOnce
  <2> QED
    BY <1>3, <2>1, <2>2 DEF GateInv
<1>6. ASSUME NEW a \in gate.packets, gate.pc = "post", UNCHANGED merge, posted' = Posts(a)
      PROVE  /\ posted' \in [Commits \X Reviewers -> Nat]
             /\ \A p \in Commits \X Reviewers : posted'[p] = posted[p] \/ posted'[p] = 1
  <2>1. gate.sha \in Commits /\ a \in Reviewers
    BY <1>6, PassSha DEF NoGate, GateInv, GateTypeOK, Pass
  <2>2. <<gate.sha, a>> \in Commits \X Reviewers
    BY <2>1
  <2> QED
    BY <1>2, <1>6, <2>2 DEF Posts
<1> QED
  BY <1>2, <1>4, <1>5, <1>6 DEF GateFault

-----------------------------------------------------------------------------
\* The invariant holds at the start.
LEMMA InitInv == GateInit => GateInv
<1> SUFFICES ASSUME GateInit PROVE GateInv
  OBVIOUS
<1>1. GateTypeOK
  BY GateAssumption, NoGateIsPass DEF GateInit, GateTypeOK, NoMerge, Merge
<1>2. Numbered /\ ReviewsFollow /\ GreenWasGreen /\ PostedOnce
  BY DEF GateInit, Numbered, GoCoders, ReviewsFollow, GreenWasGreen, PostedOnce
<1>3. PassIsOf /\ MergedAfterwards /\ MergedWasReviewed
  BY DEF GateInit, PassIsOf, MergedAfterwards, MergedWasReviewed, NoMerge
<1> QED
  BY <1>1, <1>2, <1>3 DEF GateInv

\* A step of nothing.
LEMMA StutterStep == ASSUME GateInv, UNCHANGED gateVars PROVE GateInv'
<1>1. UNCHANGED <<head, checks, passedOnce, coders, reviews, workload, merge, posted,
                  actionsDone, gate, deliverable, gateFaults>>
  BY DEF gateVars, pipelineVars
<1>2. GateTypeOK' /\ GreenWasGreen' /\ PostedOnce' /\ head \in Nat
  BY <1>1 DEF GateInv, GateTypeOK, GreenWasGreen, PostedOnce
<1> QED
  BY <1>1, <1>2, TasksKept, MergeKept, PassKept DEF GateInv

\* Every step keeps the invariant.
LEMMA InvStep == GateInv /\ [GateNext]_gateVars => GateInv'
<1> SUFFICES ASSUME GateInv, [GateNext]_gateVars PROVE GateInv'
  OBVIOUS
<1>1. CASE \/ \E go \in BOOLEAN : CoderEnds(go)
           \/ \E a \in Reviewers : ReviewBegins(a)
           \/ \E r \in DOMAIN reviews, v \in {"go", "nogo"} : ReviewEnds(r, v)
           \/ PipelineEnds
  BY <1>1, CoderEndsStep, ReviewBeginsStep, ReviewEndsStep, PipelineEndsStep
<1>2. CASE \/ Pushes \/ GitHubMerges \/ OwnerMerges
           \/ \E c \in Commits, result \in {"pending", "green", "red"} : ChecksMove(c, result)
  BY <1>2, PushesStep, GitHubMergesStep, OwnerMergesStep, ChecksMoveStep
<1>3. CASE Candidate \/ (\E a \in Reviewers : PostPackets(a)) \/ Mark \/ Checks
  BY <1>3, CandidateStep, PostPacketsStep, MarkStep, ChecksStep
<1>4. CASE RequestMerge \/ BeginsMerge \/ FinishesMerge \/ GateFault
  BY <1>4, RequestMergeStep, EndsStep, FaultStep
<1>5. CASE UNCHANGED gateVars
  BY <1>5, StutterStep
<1> QED
  BY <1>1, <1>2, <1>3, <1>4, <1>5 DEF GateNext

\* The variables of the gate have their types.
THEOREM GateTypeCorrect == GateSpec => []GateTypeOK
<1>1. GateInv => GateTypeOK
  BY DEF GateInv
<1> QED
  BY <1>1, InitInv, InvStep, PTL DEF GateSpec

\* What the gateway queues or merges was found good, at that very commit, by a
\* quorum whose reviews are on the pull request once each, and its checks were
\* green: for every quorum, and however pushes, repairs and restarts interleave.
THEOREM MergedWasReviewedHolds == GateSpec => []MergedWasReviewed
<1>1. GateInv => MergedWasReviewed
  BY DEF GateInv
<1> QED
  BY <1>1, InitInv, InvStep, PTL DEF GateSpec
=============================================================================
