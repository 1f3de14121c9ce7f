----------------------------- MODULE PlanDelivery -----------------------------
(***************************************************************************)
(* The life of one plan in the Cogito gateway, from its review draft to    *)
(* its last merged pull request (services/gateway/coordinator).            *)
(*                                                                         *)
(* Three kinds of thread share the SQLite store.  Each transaction of the  *)
(* store is one action, and so is each call to Foreman or GitHub:          *)
(*   - the reconciler thread, whose program counter is `step': it watches  *)
(*     workloads and merges (matrix.py) and runs the tool calls of Luna's  *)
(*     turns (luna.py);                                                    *)
(*   - HTTP request threads: approvals (`phase'), edits of the plan body   *)
(*     (`editing'), owner commands (`resuming' is the only one in two      *)
(*     steps) and label removals;                                          *)
(*   - Foreman, GitHub and people with access to the repository, external. *)
(* Which event starts a Luna turn, and what the model says in it, is left  *)
(* open: a turn may begin in any coordinated state and call its tools in   *)
(* any order.                                                              *)
(***************************************************************************)
EXTENDS Naturals, FiniteSets

CONSTANTS
  Approvers,    \* request threads that may carry an approval at the same time
  Commands,     \* bound: the kinds of owner request of this instance
  MaxVersion,   \* bound: versions of the plan; a version stands for its content hash
  MaxPosition,  \* bound: deliverables in the longest version
  MaxAttempt,   \* bound: workload attempts for a deliverable
  Size          \* Size[v]: the number of checklist items of version v

ASSUME PlanAssumption ==
  /\ Commands \subseteq {"edit", "reopen", "cancel", "pause"}
  /\ MaxVersion \in Nat \ {0}
  /\ MaxPosition \in Nat \ {0}
  /\ MaxAttempt \in Nat \ {0}
  /\ Size \in [1..MaxVersion -> 1..MaxPosition]

Versions  == 1..MaxVersion
Positions == 1..MaxPosition
Attempts  == 1..MaxAttempt

\* A Foreman Workload, named by plan hash, deliverable position and attempt.
Workload == [version : Versions, position : Positions, attempt : Attempts]
NoWorkload == [version |-> 0, position |-> 0, attempt |-> 0]

PlanStates == {"review", "accepted", "decomposed", "running", "paused",
               "needs_input", "failed", "completed", "cancelled"}
Resolved     == {"completed", "cancelled"}
Terminal     == Resolved \union {"failed"}
Coordinated  == PlanStates \ Resolved
Dispatchable == {"decomposed", "running"}

VARIABLES
  plan,         \* plans.state
  previous,     \* plan_controls.previous_state, "none" without a row
  version,      \* plans.current_version
  approval,     \* approvals.content_hash, 0 without a row
  deliverable,  \* plan_deliverables.state by position, "absent" without a row
  attempt,      \* plan_deliverables.attempt
  workload,     \* plan_deliverables.workload_name, NoWorkload when NULL
  receipt,      \* plan_deliverables.merge_uuid IS NOT NULL
  step,         \* the reconciler thread's program counter
  job,          \* ... the workload it is working on, NoWorkload if none
  outcome,      \* ... what GitHub answered about the merge
  allowed,      \* ... whether the plan row read when Luna's turn began allows a dispatch
  phase,        \* each approval thread's program counter
  approves,     \* ... the version it approves, 0 when idle
  editing,      \* the version a body edit in progress replaces, 0 if none
  resuming,     \* a resume command has seen "paused" and not yet acted
  foreman,      \* external: the phase of each Workload
  pull          \* external: the state of each Workload's pull request

planVars   == <<plan, previous, version, approval>>
rowVars    == <<deliverable, attempt, workload, receipt>>
threadVars == <<step, job, outcome, allowed>>
httpVars   == <<phase, approves, editing, resuming>>
worldVars  == <<foreman, pull>>
vars == <<plan, previous, version, approval, deliverable, attempt, workload, receipt,
          step, job, outcome, allowed, phase, approves, editing, resuming, foreman, pull>>

TypeOK ==
  /\ plan \in PlanStates
  /\ previous \in PlanStates \union {"none"}
  /\ version \in Versions
  /\ approval \in Versions \union {0}
  /\ deliverable \in [Positions ->
       {"absent", "pending", "running", "merge_pending", "merged", "failed"}]
  /\ attempt \in [Positions -> Attempts]
  /\ workload \in [Positions -> Workload \union {NoWorkload}]
  /\ receipt \in [Positions -> BOOLEAN]
  /\ step \in {"idle", "failing", "gating", "merging", "recording",
               "turn", "refreshing", "creating", "registering"}
  /\ job \in Workload \union {NoWorkload}
  /\ outcome \in {"none", "merged", "queued", "rejected"}
  /\ allowed \in BOOLEAN
  /\ phase \in [Approvers -> {"idle", "creating", "decomposing", "registering"}]
  /\ approves \in [Approvers -> Versions \union {0}]
  /\ editing \in 0..(MaxVersion - 1)
  /\ resuming \in BOOLEAN
  /\ foreman \in [Workload -> {"absent", "active", "Completed", "Failed"}]
  /\ pull \in [Workload -> {"none", "open", "queued", "merged", "closed"}]

\* A first version has been drafted and its review issue published.
Init ==
  /\ plan = "review" /\ previous = "none" /\ version = 1 /\ approval = 0
  /\ deliverable = [p \in Positions |-> "absent"]
  /\ attempt = [p \in Positions |-> 1]
  /\ workload = [p \in Positions |-> NoWorkload]
  /\ receipt = [p \in Positions |-> FALSE]
  /\ step = "idle" /\ job = NoWorkload /\ outcome = "none" /\ allowed = FALSE
  /\ phase = [r \in Approvers |-> "idle"]
  /\ approves = [r \in Approvers |-> 0]
  /\ editing = 0 /\ resuming = FALSE
  /\ foreman = [w \in Workload |-> "absent"]
  /\ pull = [w \in Workload |-> "none"]

-----------------------------------------------------------------------------
(* Edits of the plan body: read and check, publish on GitHub, then commit. *)

\* record_github_edit: only the absence of an approval is checked.
BeginGitHubEdit ==
  /\ "edit" \in Commands
  /\ editing = 0 /\ version < MaxVersion
  /\ approval = 0
  /\ editing' = version
  /\ UNCHANGED <<planVars, rowVars, threadVars, phase, approves, resuming, worldVars>>

\* record_plan: only the plan state is checked.
BeginRevision ==
  /\ "edit" \in Commands
  /\ editing = 0 /\ version < MaxVersion
  /\ plan = "review"
  /\ editing' = version
  /\ UNCHANGED <<planVars, rowVars, threadVars, phase, approves, resuming, worldVars>>

\* The transaction of either.  Of two edits of one version the second violates the
\* primary key of plan_versions and writes nothing: one at a time is enough.
CommitEdit ==
  /\ editing # 0
  /\ plan' = "review"
  /\ version' = editing + 1
  /\ editing' = 0
  /\ UNCHANGED <<previous, approval, rowVars, threadVars, phase, approves, resuming, worldVars>>

-----------------------------------------------------------------------------
(* Approval: one transaction, the GitHub issues, and two more transactions. *)

AlreadyAdvanced == plan \in {"decomposed", "running", "completed", "paused",
                             "needs_input", "failed", "cancelled"}

\* An approval of the current version.  One of another hash, or of a hash other
\* than the recorded approval's, is refused and changes nothing.
Approve(r) ==
  /\ phase[r] = "idle"
  /\ \/ approval = 0
     \/ approval = version /\ ~AlreadyAdvanced
  /\ approval' = version
  /\ plan' = "accepted"
  /\ phase' = [phase EXCEPT ![r] = "creating"]
  /\ approves' = [approves EXCEPT ![r] = version]
  /\ UNCHANGED <<previous, version, rowVars, threadVars, editing, resuming, worldVars>>

\* The request of r ends.
Release(r) ==
  /\ phase' = [phase EXCEPT ![r] = "idle"]
  /\ approves' = [approves EXCEPT ![r] = 0]

CreateDeliverables(r) ==
  /\ phase[r] = "creating"
  /\ \/ phase' = [phase EXCEPT ![r] = "decomposing"] /\ UNCHANGED approves
     \/ Release(r)                                  \* GitHub failed: fail_action
  /\ UNCHANGED <<planVars, rowVars, threadVars, editing, resuming, worldVars>>

Decompose(r) ==
  /\ phase[r] = "decomposing"
  /\ plan' = "decomposed"
  /\ phase' = [phase EXCEPT ![r] = "registering"]
  /\ UNCHANGED <<previous, version, approval, rowVars, threadVars, approves, editing,
                 resuming, worldVars>>

\* Mutant: a later approval writes the rows anew.
RegisterAnew(r) ==
  /\ phase[r] = "registering"
  /\ deliverable' = [p \in Positions |-> IF p <= Size[approves[r]] THEN "pending" ELSE "absent"]
  /\ Release(r)
  /\ UNCHANGED <<planVars, attempt, workload, receipt, threadVars, editing, resuming, worldVars>>

\* The rows are written once; a later approval with as many items finds the same
\* issue urls, one with more or fewer raises after the plan was decomposed.
RegisterDeliverables(r) ==
  /\ phase[r] = "registering"
  /\ deliverable' = IF \A p \in Positions : deliverable[p] = "absent"
                    THEN [p \in Positions |->
                            IF p <= Size[approves[r]] THEN "pending" ELSE "absent"]
                    ELSE deliverable
  /\ Release(r)
  /\ UNCHANGED <<planVars, attempt, workload, receipt, threadVars, editing, resuming, worldVars>>

\* The approval label is removed, by the owner or by Luna's request_replan.
ReopenReview ==
  /\ "reopen" \in Commands
  /\ approval' = 0
  /\ plan' = "review"
  /\ UNCHANGED <<previous, version, rowVars, threadVars, httpVars, worldVars>>

-----------------------------------------------------------------------------
(* Owner commands, serialized by the Matrix coordinator's lock. *)

Cancel ==
  /\ "cancel" \in Commands
  /\ ~resuming
  /\ plan' = "cancelled"
  /\ UNCHANGED <<previous, version, approval, rowVars, threadVars, httpVars, worldVars>>

Pause ==
  /\ "pause" \in Commands
  /\ ~resuming
  /\ plan # "paused"
  /\ previous' = plan
  /\ plan' = "paused"
  /\ UNCHANGED <<version, approval, rowVars, threadVars, httpVars, worldVars>>

SeePaused ==
  /\ ~resuming
  /\ plan = "paused"
  /\ resuming' = TRUE
  /\ UNCHANGED <<planVars, rowVars, threadVars, phase, approves, editing, worldVars>>

Resume ==
  /\ resuming
  /\ resuming' = FALSE
  /\ plan' = IF previous = "none" THEN "review" ELSE previous
  /\ previous' = "none"
  /\ UNCHANGED <<version, approval, rowVars, threadVars, phase, approves, editing, worldVars>>

-----------------------------------------------------------------------------
(* The reconciler: workloads that finished, and merges. *)

\* Back in the loop: the locals of the step are gone.
ToLoop == step' = "idle" /\ job' = NoWorkload /\ outcome' = "none" /\ allowed' = FALSE

\* active_workloads, then the Workload's phase from Foreman.
PollWorkload(p) ==
  /\ step = "idle"
  /\ plan \in {"running", "needs_input"}
  /\ deliverable[p] = "running"
  /\ \/ foreman[workload[p]] = "Failed" /\ step' = "failing"
     \/ foreman[workload[p]] = "Completed" /\ step' = "gating"
  /\ job' = workload[p]
  /\ UNCHANGED <<planVars, rowVars, outcome, allowed, httpVars, worldVars>>

FailDeliverable ==
  /\ step = "failing"
  /\ deliverable' = [deliverable EXCEPT ![job.position] = "failed"]
  /\ plan' = "failed"
  /\ ToLoop
  /\ UNCHANGED <<previous, version, approval, attempt, workload, receipt, httpVars, worldVars>>

\* Quorum not met, a required check failed, the pull request is not the reviewed
\* one, or GitHub's answer to the merge request cannot be used.
GateRejects ==
  /\ step \in {"gating", "merging"}
  /\ step' = "failing"
  /\ UNCHANGED <<planVars, rowVars, job, outcome, allowed, httpVars, worldVars>>

\* Checks still pending, or a call failed or its reply was lost: the loop is abandoned.
GateWaits ==
  /\ step \in {"gating", "merging"}
  /\ ToLoop
  /\ UNCHANGED <<planVars, rowVars, httpVars, worldVars>>

\* request_merge: an already merged pull request is reported as such; otherwise
\* GitHub queues the merge or performs it at once.
RequestMerge ==
  /\ step = "gating"
  /\ pull[job] \in {"open", "queued", "merged"}
  /\ \/ pull[job] # "merged" /\ outcome' = "queued"
     \/ pull[job] # "queued" /\ outcome' = "merged"
  /\ pull' = [pull EXCEPT ![job] = outcome']
  /\ step' = "merging"
  /\ UNCHANGED <<planVars, rowVars, job, allowed, httpVars, foreman>>

\* A queued merge has a uuid, an immediate one may have none.
BeginMerge ==
  /\ step = "merging"
  /\ deliverable' = [deliverable EXCEPT ![job.position] = "merge_pending"]
  /\ \E uuid \in BOOLEAN :
       /\ outcome = "queued" => uuid
       /\ receipt' = [receipt EXCEPT ![job.position] = uuid]
  /\ \/ outcome = "merged" /\ step' = "recording" /\ UNCHANGED <<job, outcome, allowed>>
     \/ outcome = "queued" /\ ToLoop
  /\ UNCHANGED <<planVars, attempt, workload, httpVars, worldVars>>

\* Mutant: every answer but "still working" counts as merged.
PollMergeGullible(p) ==
  /\ step = "idle"
  /\ deliverable[p] = "merge_pending" /\ receipt[p]
  /\ pull[workload[p]] # "queued"
  /\ outcome' = "merged" /\ step' = "recording" /\ job' = workload[p]
  /\ UNCHANGED <<planVars, rowVars, allowed, httpVars, worldVars>>

\* Mutant: merges are polled for running plans only, as workloads are.
PollMergeOfRunning(p) ==
  /\ plan \in {"running", "needs_input"}
  /\ step = "idle"
  /\ deliverable[p] = "merge_pending" /\ receipt[p]
  /\ pull[workload[p]] # "queued"
  /\ outcome' = IF pull[workload[p]] = "merged" THEN "merged" ELSE "rejected"
  /\ step' = "recording" /\ job' = workload[p]
  /\ UNCHANGED <<planVars, rowVars, allowed, httpVars, worldVars>>

\* pending_merges skips a row without a uuid; merge_result while GitHub works changes nothing.
PollMerge(p) ==
  /\ step = "idle"
  /\ deliverable[p] = "merge_pending" /\ receipt[p]
  /\ pull[workload[p]] # "queued"
  /\ outcome' = IF pull[workload[p]] = "merged" THEN "merged" ELSE "rejected"
  /\ step' = "recording"
  /\ job' = workload[p]
  /\ UNCHANGED <<planVars, rowVars, allowed, httpVars, worldVars>>

\* Mutant: the last deliverable of the checklist completes the plan.
EarlierMerged(p) ==
  \A q \in Positions : q < p => deliverable[q] \in {"absent", "merged"}

AllMergedWith(p) ==
  \A q \in Positions : q # p => deliverable[q] \in {"absent", "merged"}

FinishMerge ==
  /\ step = "recording"
  /\ \/ /\ outcome = "merged"
        /\ deliverable' = [deliverable EXCEPT ![job.position] = "merged"]
        /\ plan' = IF AllMergedWith(job.position) THEN "completed" ELSE plan
     \/ /\ outcome # "merged"
        /\ deliverable' = [deliverable EXCEPT ![job.position] = "failed"]
        /\ plan' = "failed"
  /\ ToLoop
  /\ UNCHANGED <<previous, version, approval, attempt, workload, receipt, httpVars, worldVars>>

-----------------------------------------------------------------------------
(* The reconciler: a Luna turn and the tools that change the plan. *)

\* The plan row is read once, before the model is called; tools use that copy.
BeginTurn ==
  /\ step = "idle"
  /\ plan \in Coordinated
  /\ step' = "turn"
  /\ allowed' = (plan \in Dispatchable)
  /\ UNCHANGED <<planVars, rowVars, job, outcome, httpVars, worldVars>>

EndTurn ==
  /\ step = "turn"
  /\ ToLoop
  /\ UNCHANGED <<planVars, rowVars, httpVars, worldVars>>

\* An exception fails the turn; the last attempt of a turn blocks an open plan.
FailTurn ==
  /\ step \in {"turn", "refreshing", "creating", "registering"}
  /\ ToLoop
  /\ \/ plan' = plan
     \/ plan \notin Terminal /\ plan' = "needs_input"
  /\ UNCHANGED <<previous, version, approval, rowVars, httpVars, worldVars>>

\* ask_owner, escalate, the turn caps, and a guardrail collision, which a retry
\* meets as well.
NeedInput ==
  /\ \/ step = "turn"
     \/ step = "refreshing" /\ plan \in Dispatchable
  /\ plan' = "needs_input"
  /\ step' = "turn"
  /\ UNCHANGED <<previous, version, approval, rowVars, job, outcome, allowed, httpVars,
                 worldVars>>

\* Mutant: a predecessor whose merge was requested is good enough.
AfterRequestedMerge(p) ==
  /\ deliverable[p] = "pending"
  /\ \A q \in 1..(p - 1) : deliverable[q] \in {"merge_pending", "merged"}

\* next_deliverable: the first pending row, if every predecessor merged.
IsNext(p) ==
  /\ deliverable[p] = "pending"
  /\ \A q \in 1..(p - 1) : deliverable[q] = "merged"

\* The reads of create_workload.  A position beyond the current version's
\* checklist raises instead, as FailTurn.
ChooseWorkload(p) ==
  /\ \/ step = "turn" /\ allowed
     \/ step = "refreshing" /\ plan \in Dispatchable
  /\ IsNext(p)
  /\ p <= Size[version]
  /\ job' = [version |-> version, position |-> p, attempt |-> attempt[p]]
  /\ step' = "creating"
  /\ UNCHANGED <<planVars, rowVars, outcome, allowed, httpVars, worldVars>>

\* ensure_workload: creation is idempotent by name.
EnsureWorkload ==
  /\ step = "creating"
  /\ foreman' = [foreman EXCEPT ![job] = IF @ = "absent" THEN "active" ELSE @]
  /\ step' = "registering"
  /\ UNCHANGED <<planVars, rowVars, job, outcome, allowed, httpVars, pull>>

RegisterWorkload ==
  /\ step = "registering"
  /\ deliverable' = [deliverable EXCEPT ![job.position] = "running"]
  /\ workload' = [workload EXCEPT ![job.position] = job]
  /\ plan' = "running"
  /\ step' = "turn"
  /\ job' = NoWorkload
  /\ UNCHANGED <<previous, version, approval, attempt, receipt, outcome, allowed, httpVars,
                 worldVars>>

\* Mutant: any dispatched deliverable can be retried.
RetryAny(p) ==
  /\ step = "turn"
  /\ deliverable[p] \notin {"absent", "pending"} /\ attempt[p] < MaxAttempt
  /\ deliverable' = [deliverable EXCEPT ![p] = "pending"]
  /\ attempt' = [attempt EXCEPT ![p] = @ + 1]
  /\ workload' = [workload EXCEPT ![p] = NoWorkload]
  /\ receipt' = [receipt EXCEPT ![p] = FALSE]
  /\ plan' = "decomposed" /\ step' = "refreshing"
  /\ UNCHANGED <<previous, version, approval, job, outcome, allowed, httpVars, worldVars>>

\* retry_workload, first half: a failed deliverable becomes pending again.
PrepareRetry(p) ==
  /\ step = "turn"
  /\ deliverable[p] = "failed" /\ attempt[p] < MaxAttempt
  /\ deliverable' = [deliverable EXCEPT ![p] = "pending"]
  /\ attempt' = [attempt EXCEPT ![p] = @ + 1]
  /\ workload' = [workload EXCEPT ![p] = NoWorkload]
  /\ receipt' = [receipt EXCEPT ![p] = FALSE]
  /\ plan' = "decomposed"
  /\ step' = "refreshing"
  /\ UNCHANGED <<previous, version, approval, job, outcome, allowed, httpVars, worldVars>>

\* ... and the second when the refreshed plan row no longer allows a workload.
RetryRefused ==
  /\ step = "refreshing"
  /\ plan \notin Dispatchable
  /\ step' = "turn"
  /\ UNCHANGED <<planVars, rowVars, job, outcome, allowed, httpVars, worldVars>>

-----------------------------------------------------------------------------
(* Foreman, GitHub and the people who use it; and the process itself. *)

WorkloadEnds(w) ==
  /\ foreman[w] = "active"
  /\ \/ /\ foreman' = [foreman EXCEPT ![w] = "Completed"]
        /\ pull' = [pull EXCEPT ![w] = "open"]
     \/ /\ foreman' = [foreman EXCEPT ![w] = "Failed"]
        /\ UNCHANGED pull
  /\ UNCHANGED <<planVars, rowVars, threadVars, httpVars>>

\* The merge queue lands or rejects a queued pull request.
QueueSettles(w) ==
  /\ pull[w] = "queued"
  /\ \E result \in {"merged", "open"} : pull' = [pull EXCEPT ![w] = result]
  /\ UNCHANGED <<planVars, rowVars, threadVars, httpVars, foreman>>

\* A person merges or closes a pull request.
HandSettles(w) ==
  /\ pull[w] = "open"
  /\ \E result \in {"merged", "closed"} : pull' = [pull EXCEPT ![w] = result]
  /\ UNCHANGED <<planVars, rowVars, threadVars, httpVars, foreman>>

\* The process dies and restarts: every thread's progress is lost.
Crash ==
  /\ ToLoop
  /\ phase' = [r \in Approvers |-> "idle"]
  /\ approves' = [r \in Approvers |-> 0]
  /\ editing' = 0
  /\ resuming' = FALSE
  /\ UNCHANGED <<planVars, rowVars, worldVars>>

-----------------------------------------------------------------------------
Requests ==
  \/ BeginGitHubEdit \/ BeginRevision \/ CommitEdit \/ ReopenReview
  \/ Cancel \/ Pause \/ SeePaused \/ Resume
  \/ \E r \in Approvers : \/ Approve(r) \/ CreateDeliverables(r)
                          \/ Decompose(r) \/ RegisterDeliverables(r)

Reconciler ==
  \/ FailDeliverable \/ GateRejects \/ GateWaits \/ RequestMerge \/ BeginMerge \/ FinishMerge
  \/ BeginTurn \/ EndTurn \/ FailTurn \/ NeedInput
  \/ EnsureWorkload \/ RegisterWorkload \/ RetryRefused
  \/ \E p \in Positions : \/ PollWorkload(p) \/ PollMerge(p)
                          \/ ChooseWorkload(p) \/ PrepareRetry(p)

World == \E w \in Workload : WorkloadEnds(w) \/ QueueSettles(w) \/ HandSettles(w)

Next == Requests \/ Reconciler \/ World \/ Crash

Spec == Init /\ [][Next]_vars

-----------------------------------------------------------------------------
(* Properties. *)

Dispatched == {"running", "merge_pending", "merged", "failed"}

\* Serial order: a deliverable is dispatched, merging, merged or failed only if
\* every deliverable before it is merged.  next_deliverable looks at one moment;
\* register_workload writes two calls later, whatever happened in between.
SerialOrder ==
  \A p, q \in Positions : p < q /\ deliverable[q] \in Dispatched => deliverable[p] = "merged"

\* A row is marked merged only when GitHub merged the pull request of the very
\* workload the row names, across retries, replans and crashes of the merge path.
MergedForReal ==
  \A p \in Positions : deliverable[p] = "merged" => pull[workload[p]] = "merged"

\* A plan is completed, or will be completed again by a resume, only when it has
\* deliverables and every one of them is merged.
CompletedIsWhole ==
  "completed" \in {plan, previous} =>
    /\ deliverable[1] # "absent"
    /\ \A p \in Positions : deliverable[p] \in {"absent", "merged"}

\* However often a turn is replayed or a retry repeated, Foreman never executes
\* two workloads of one version of the plan at once.
OneLivePerVersion ==
  \A u, w \in Workload :
    foreman[u] = "active" /\ foreman[w] = "active" /\ u.version = w.version => u = w

\* A merged deliverable stays merged under the same workload, and only a failed
\* one is tried again, one attempt at a time.
Progress ==
  [][\A p \in Positions :
       /\ deliverable[p] = "merged" => deliverable'[p] = "merged" /\ workload'[p] = workload[p]
       /\ attempt'[p] # attempt[p] =>
            deliverable[p] = "failed" /\ attempt'[p] = attempt[p] + 1]_vars

\* Foreman starts a workload only when the pull requests of all the earlier
\* deliverables are merged on GitHub.
NoDispatchAhead ==
  [][\A w \in Workload : foreman[w] = "absent" /\ foreman'[w] = "active" =>
       \A q \in 1..(w.position - 1) : pull[workload[q]] = "merged"]_vars

\* The rows, seen as stages.  A deliverable whose merge is requested is still
\* active: no row skips a stage, whoever writes it.
Stage == [p \in Positions |->
            CASE deliverable[p] = "absent" -> "absent"
              [] deliverable[p] = "pending" -> "waiting"
              [] deliverable[p] \in {"running", "merge_pending"} -> "active"
              [] deliverable[p] = "failed" -> "broken"
              [] deliverable[p] = "merged" -> "done"]

Serial == INSTANCE SerialDelivery WITH stage <- Stage

\* The gateway implements the serial delivery it promises.
ImplementsSerial == Serial!Spec

-----------------------------------------------------------------------------
(* Fairness: the loop runs for ever, and survives every crash.  Each thread    *)
(* that started a call ends it, a workload and a queued merge end.             *)

\* The reconciler leaves a step it is in.
Leave == step # "idle" /\ Reconciler /\ step' # step

Fairness ==
  /\ WF_vars(Leave) /\ WF_vars(EndTurn)
  /\ SF_vars(FinishMerge)
  /\ \A p \in Positions : SF_vars(PollMerge(p))
  /\ \A w \in Workload : WF_vars(QueueSettles(w))

FairSpec == Spec /\ Fairness

\* A merge that GitHub gave a uuid for is settled, whatever crashes, edits and
\* owner commands come between.
MergeSettles ==
  \A p \in Positions :
    deliverable[p] = "merge_pending" /\ receipt[p] ~> deliverable[p] \in {"merged", "failed"}

\* ... and a merge in general.
EveryMergeSettles ==
  \A p \in Positions :
    deliverable[p] = "merge_pending" ~> deliverable[p] \in {"merged", "failed"}

=============================================================================
