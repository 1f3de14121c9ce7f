------------------------------ MODULE ReviewGate ------------------------------
(***************************************************************************)
(* The gate between a finished Workload and the main branch: the gateway   *)
(* reads from Foreman's tasks which commit the coder left and who reviewed *)
(* it, publishes the reviews on the pull request, looks at the required    *)
(* checks and queues a merge pinned to the commit.  Meanwhile anybody may  *)
(* push to the branch, checks run again, calls fail and the gateway        *)
(* restarts; a pass that did not end is begun again.                       *)
(*                                                                         *)
(* External: Foreman's pipeline and GitHub.  Commits are numbered in the   *)
(* order they are pushed.  What follows a merge or a failure is            *)
(* PlanDelivery's.                                                         *)
(***************************************************************************)
EXTENDS Naturals, Sequences, FiniteSets

CONSTANTS
  Reviewers,     \* the agents that review (two of them)
  Quorum,        \* how many of them must agree (2)
  MaxCommits,    \* bound: commits of the branch
  MaxReviews,    \* bound: review tasks
  MaxGateFaults  \* bound: failed calls and crashes, together

ASSUME GateAssumption ==
  /\ IsFiniteSet(Reviewers) /\ Quorum \in Nat \ {0}
  /\ {MaxCommits, MaxReviews, MaxGateFaults} \subseteq Nat

Commits == 1..MaxCommits

VARIABLES
  head,       \* external: the branch's last commit, 0 before there is one
  checks,     \* external: the required checks of each commit
  passedOnce, \* history: commits whose checks were green at some time
  coders,     \* external: the coder's tasks that ended, [sha, go], in order
  reviews,    \* external: the review tasks, [agent, after, saw, verdict];
              \*   after is the number of coder tasks that ended before it began
  workload,   \* external: the phase of the Workload
  merge,      \* external: the merge, [status, sha, by]
  posted,     \* external: how many reviews of a commit an agent has on the pull request
  actionsDone,\* external_actions: the posts that are complete
  gate,       \* the pass: [pc, sha, packets, agent]
  deliverable,\* plan_deliverables.state: "running", "merge_pending", "merged" or "failed"
  gateFaults  \* faults so far

pipelineVars == <<coders, reviews, workload>>
gateVars == <<head, checks, passedOnce, pipelineVars, merge, posted, actionsDone,
              gate, deliverable, gateFaults>>

NoGate == [pc |-> "idle", sha |-> 0, packets |-> {}, agent |-> "-"]
NoMerge == [status |-> "none", sha |-> 0, by |-> "nobody"]

CoderTask == [sha : Commits, go : BOOLEAN]
ReviewTask == [agent : Reviewers, after : Nat, saw : Commits, verdict : {"none", "go", "nogo"}]
Pass == [pc : {"idle", "post", "mark", "request", "begin"}, sha : 0..MaxCommits,
         packets : SUBSET Reviewers, agent : {"-"} \union Reviewers]
Merge == [status : {"none", "queued", "merged", "rejected"}, sha : 0..MaxCommits,
          by : {"nobody", "gateway", "owner"}]

GateTypeOK ==
  /\ head \in 0..MaxCommits
  /\ checks \in [Commits -> {"pending", "green", "red"}]
  /\ passedOnce \subseteq Commits
  /\ coders \in Seq(CoderTask)
  /\ reviews \in Seq(ReviewTask)
  /\ workload \in {"Running", "Completed"}
  /\ merge \in Merge
  /\ posted \in [Commits \X Reviewers -> Nat]
  /\ actionsDone \subseteq Commits \X Reviewers
  /\ gate \in Pass
  /\ deliverable \in {"running", "merge_pending", "merged", "failed"}
  /\ gateFaults \in 0..MaxGateFaults

\* The Workload as manifest asks for it: a coder, two reviewers, one pull
\* request for one issue.
GateInit ==
  /\ head = 0 /\ checks = [c \in Commits |-> "pending"] /\ passedOnce = {}
  /\ coders = <<>> /\ reviews = <<>> /\ workload = "Running"
  /\ merge = NoMerge /\ posted = [p \in Commits \X Reviewers |-> 0] /\ actionsDone = {}
  /\ gate = NoGate /\ deliverable = "running" /\ gateFaults = 0

-----------------------------------------------------------------------------
(* Foreman and GitHub. *)

\* The coder pushes and ends, content with its work or not.
CoderEnds(go) ==
  /\ workload = "Running" /\ head < MaxCommits
  /\ \A r \in DOMAIN reviews : reviews[r].verdict # "none"
  /\ head' = head + 1 /\ coders' = Append(coders, [sha |-> head', go |-> go])
  /\ UNCHANGED <<checks, passedOnce, reviews, workload, merge, posted, actionsDone,
                 gate, deliverable, gateFaults>>

\* Somebody else pushes.
Pushes ==
  /\ head \in 1..(MaxCommits - 1) /\ merge.status # "merged"
  /\ head' = head + 1
  /\ UNCHANGED <<checks, passedOnce, pipelineVars, merge, posted, actionsDone,
                 gate, deliverable, gateFaults>>

ReviewBegins(a) ==
  /\ workload = "Running" /\ coders # <<>> /\ Len(reviews) < MaxReviews
  /\ \A r \in DOMAIN reviews : reviews[r].agent = a => reviews[r].verdict # "none"
  /\ reviews' = Append(reviews, [agent |-> a, after |-> Len(coders), saw |-> head,
                                 verdict |-> "none"])
  /\ UNCHANGED <<head, checks, passedOnce, coders, workload, merge, posted, actionsDone,
                 gate, deliverable, gateFaults>>

ReviewEnds(r, verdict) ==
  /\ workload = "Running" /\ reviews[r].verdict = "none"
  /\ reviews' = [reviews EXCEPT ![r].verdict = verdict]
  /\ UNCHANGED <<head, checks, passedOnce, coders, workload, merge, posted, actionsDone,
                 gate, deliverable, gateFaults>>

PipelineEnds ==
  /\ workload = "Running" /\ coders # <<>>
  /\ \A r \in DOMAIN reviews : reviews[r].verdict # "none"
  /\ workload' = "Completed"
  /\ UNCHANGED <<head, checks, passedOnce, coders, reviews, merge, posted, actionsDone,
                 gate, deliverable, gateFaults>>

\* The checks of a commit end, or are started again.
ChecksMove(c, result) ==
  /\ c <= head /\ (checks[c] = "pending") # (result = "pending")
  /\ checks' = [checks EXCEPT ![c] = result]
  /\ passedOnce' = IF result = "green" THEN passedOnce \union {c} ELSE passedOnce
  /\ UNCHANGED <<head, pipelineVars, merge, posted, actionsDone, gate, deliverable, gateFaults>>

\* The queued merge happens while its commit is the head, or is rejected; the
\* owner may merge by hand.
GitHubMerges ==
  /\ merge.status = "queued"
  /\ merge' = IF head = merge.sha THEN [merge EXCEPT !.status = "merged"]
              ELSE [merge EXCEPT !.status = "rejected"]
  /\ UNCHANGED <<head, checks, passedOnce, pipelineVars, posted, actionsDone,
                 gate, deliverable, gateFaults>>

OwnerMerges ==
  /\ head # 0 /\ merge.status # "merged"
  /\ merge' = [status |-> "merged", sha |-> head, by |-> "owner"]
  /\ UNCHANGED <<head, checks, passedOnce, pipelineVars, posted, actionsDone,
                 gate, deliverable, gateFaults>>

-----------------------------------------------------------------------------
(* reconcile_once, for a Workload that is Completed. *)

GateGoes(pc) == gate' = [gate EXCEPT !.pc = pc]

\* merge_candidate: the last coder task that ended well ...
GoCoders == {n \in DOMAIN coders : coders[n].go}
LastCoder == CHOOSE n \in GoCoders : \A m \in GoCoders : m <= n

\* Mutant: a review of an earlier commit counts too.
EarlierReviews ==
  {r \in DOMAIN reviews : GoCoders # {} /\ reviews[r].verdict = "go"}

\* ... and the reviews that began after it and found it good.
GoReviews ==
  {r \in DOMAIN reviews : GoCoders # {} /\ reviews[r].verdict = "go" /\ reviews[r].after >= LastCoder}

Agents(rs) == {reviews[r].agent : r \in rs}

BlockDeliverable == deliverable' = "failed" /\ gate' = NoGate

\* The quorum is met by different agents.  They may have named different pull
\* requests, or one of another branch, which request_merge would refuse.
Candidate ==
  /\ gate = NoGate /\ workload = "Completed" /\ deliverable = "running"
  /\ \/ /\ Cardinality(Agents(GoReviews)) >= Quorum
        /\ gate' = [NoGate EXCEPT !.pc = "post", !.sha = coders[LastCoder].sha, !.packets = Agents(GoReviews)]
        /\ UNCHANGED deliverable
     \/ BlockDeliverable
  /\ UNCHANGED <<head, checks, passedOnce, pipelineVars, merge, posted, actionsDone, gateFaults>>

\* post_review_packet: the marker of the review tells whether it is there.
Posts(a) == IF posted[<<gate.sha, a>>] = 0 THEN [posted EXCEPT ![<<gate.sha, a>>] = 1] ELSE posted

PostPackets(a) ==
  /\ gate.pc = "post" /\ a \in gate.packets
  /\ gate' = [gate EXCEPT !.packets = @ \ {a},
                          !.pc = IF <<gate.sha, a>> \in actionsDone THEN "post" ELSE "mark",
                          !.agent = IF <<gate.sha, a>> \in actionsDone THEN "-" ELSE a]
  /\ posted' = IF <<gate.sha, a>> \in actionsDone THEN posted ELSE Posts(a)
  /\ UNCHANGED <<head, checks, passedOnce, pipelineVars, merge, actionsDone, deliverable, gateFaults>>

\* complete_action.
Mark ==
  /\ gate.pc = "mark"
  /\ actionsDone' = actionsDone \union {<<gate.sha, gate.agent>>}
  /\ gate' = [gate EXCEPT !.pc = "post", !.agent = "-"]
  /\ UNCHANGED <<head, checks, passedOnce, pipelineVars, merge, posted, deliverable, gateFaults>>

\* checks_status looks at the commit that is the head by now.
Checks ==
  /\ gate.pc = "post" /\ gate.packets = {}
  /\ CASE checks[head] = "green"   -> GateGoes("request") /\ UNCHANGED deliverable
       [] checks[head] = "pending" -> gate' = NoGate /\ UNCHANGED deliverable
       [] checks[head] = "red"     -> BlockDeliverable
  /\ UNCHANGED <<head, checks, passedOnce, pipelineVars, merge, posted, actionsDone, gateFaults>>

Queued == IF merge.status = "queued" THEN merge
          ELSE [status |-> "queued", sha |-> gate.sha, by |-> "gateway"]

\* request_merge: a merge that happened already is taken as it is; otherwise
\* the branch and its head must be those of the candidate.
RequestMerge ==
  /\ gate.pc = "request"
  /\ IF merge.status = "merged" THEN GateGoes("begin") /\ UNCHANGED <<merge, deliverable>>
     ELSE IF head # gate.sha THEN BlockDeliverable /\ UNCHANGED merge
     ELSE merge' = Queued /\ GateGoes("begin") /\ UNCHANGED deliverable
  /\ UNCHANGED <<head, checks, passedOnce, pipelineVars, posted, actionsDone, gateFaults>>

\* begin_merge; a merge that is there already is finished at once.
BeginsMerge ==
  /\ gate.pc = "begin" /\ gate' = NoGate
  /\ deliverable' = "merge_pending"
  /\ UNCHANGED <<head, checks, passedOnce, pipelineVars, merge, posted, actionsDone, gateFaults>>

\* merge_result and finish_merge.
FinishesMerge ==
  /\ gate = NoGate /\ deliverable = "merge_pending"
  /\ merge.status \in {"merged", "rejected"}
  /\ deliverable' = IF merge.status = "merged" THEN "merged" ELSE "failed"
  /\ UNCHANGED <<head, checks, passedOnce, pipelineVars, merge, posted, actionsDone, gate, gateFaults>>

\* A call of GitHub fails, or its answer is lost, and the pass is abandoned;
\* or the gateway restarts.
GateFault ==
  /\ gate # NoGate
  /\ gateFaults < MaxGateFaults /\ gateFaults' = gateFaults + 1
  /\ gate' = NoGate
  /\ \/ UNCHANGED <<merge, posted>>
     \/ gate.pc = "post" /\ UNCHANGED merge
        /\ \E a \in gate.packets : <<gate.sha, a>> \notin actionsDone /\ posted' = Posts(a)
     \/ gate.pc = "request" /\ UNCHANGED posted
        /\ merge.status # "merged" /\ head = gate.sha /\ merge' = Queued
  /\ UNCHANGED <<head, checks, passedOnce, pipelineVars, actionsDone, deliverable>>

GateNext ==
  \/ \E go \in BOOLEAN : CoderEnds(go)
  \/ Pushes
  \/ \E a \in Reviewers : ReviewBegins(a)
  \/ \E r \in DOMAIN reviews, verdict \in {"go", "nogo"} : ReviewEnds(r, verdict)
  \/ PipelineEnds
  \/ \E c \in Commits, result \in {"pending", "green", "red"} : ChecksMove(c, result)
  \/ GitHubMerges
  \/ OwnerMerges
  \/ Candidate
  \/ \E a \in Reviewers : PostPackets(a)
  \/ Mark
  \/ Checks
  \/ RequestMerge
  \/ BeginsMerge
  \/ FinishesMerge
  \/ GateFault

GateSpec == GateInit /\ [][GateNext]_gateVars

-----------------------------------------------------------------------------
(* Properties. *)

GoodReviewsOf(c) ==
  {a \in Reviewers : \E r \in DOMAIN reviews :
     reviews[r].agent = a /\ reviews[r].saw = c /\ reviews[r].verdict = "go"}

\* "Queue a squash merge, pinned to the exact branch revision reviewed"
\* (github.py:190): what the gateway queues or merges was found good by a
\* quorum of different agents that saw that commit, whose reviews are on the
\* pull request, once each, and its checks were green; however pushes, repair
\* rounds, late checks, lost answers and restarts interleave.
MergedWasReviewed ==
  merge.by = "gateway" =>
    LET good == GoodReviewsOf(merge.sha)
    IN /\ Cardinality(good) >= Quorum
       /\ merge.sha \in passedOnce
       /\ Cardinality({a \in good : posted[<<merge.sha, a>>] = 1}) >= Quorum
=============================================================================
