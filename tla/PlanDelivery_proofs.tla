------------------------- MODULE PlanDelivery_proofs --------------------------
(***************************************************************************)
(* Proofs about PlanDelivery, for every set of approvers, every kind of    *)
(* owner request and every bound.                                          *)
(*                                                                         *)
(* The inductive invariant says what each program counter of the           *)
(* reconciler knows of the row it will write: the row is still as the      *)
(* thread read it, because the HTTP threads write a row only when there is *)
(* none (RegisterDeliverables), and a crash forgets the thread, not the    *)
(* row.                                                                    *)
(***************************************************************************)
EXTENDS PlanDelivery, TLAPS

\* A dispatched deliverable names a workload of its own position.
RowsNameTheirWorkload ==
  \A p \in Positions : deliverable[p] \in Dispatched =>
    workload[p] \in Workload /\ workload[p].position = p

\* The rows are those of a checklist: positions 1 to n.
Contiguous ==
  \A p, q \in Positions : p < q /\ deliverable[q] # "absent" => deliverable[p] # "absent"

\* There is a pull request only after the workload.
PullsFollowWork == \A w \in Workload : foreman[w] # "Completed" => pull[w] = "none"

\* An approval in progress carries a version.
ApprovalsCarryVersion == \A r \in Approvers : phase[r] # "idle" => approves[r] \in Versions

\* What the reconciler's program counter knows of the row and the pull request.
HoldsRow(state) ==
  /\ job \in Workload
  /\ deliverable[job.position] = state
  /\ workload[job.position] = job

ThreadKnows ==
  /\ step \in {"failing", "gating", "merging"} => HoldsRow("running")
  /\ step = "recording" => HoldsRow("merge_pending")
  /\ step \in {"creating", "registering"} => job \in Workload /\ IsNext(job.position)
  /\ step = "merging" => outcome \in {"merged", "queued"}
  /\ step \in {"merging", "recording"} /\ outcome = "merged" => pull[job] = "merged"

RowInv == RowsNameTheirWorkload /\ Contiguous /\ SerialOrder /\ MergedForReal

IInv ==
  /\ TypeOK
  /\ RowInv
  /\ PullsFollowWork
  /\ ApprovalsCarryVersion
  /\ ThreadKnows
  /\ CompletedIsWhole

-----------------------------------------------------------------------------
\* Every variable keeps its type.
LEMMA TypeStep == TypeOK /\ [Next]_vars => TypeOK'
<1> SUFFICES ASSUME TypeOK, [Next]_vars PROVE TypeOK'
  OBVIOUS
<1> USE DEF TypeOK, planVars, rowVars, threadVars, httpVars, worldVars, vars,
            PlanStates, Release, ToLoop
<1>1. CASE BeginGitHubEdit
  BY <1>1, PlanAssumption DEF BeginGitHubEdit, Versions
<1>2. CASE BeginRevision
  BY <1>2, PlanAssumption DEF BeginRevision, Versions
<1>3. CASE CommitEdit
  BY <1>3, PlanAssumption DEF CommitEdit, Versions
<1>4. CASE ReopenReview
  BY <1>4 DEF ReopenReview
<1>5. CASE Cancel
  BY <1>5 DEF Cancel
<1>6. CASE Pause
  BY <1>6 DEF Pause
<1>7. CASE SeePaused
  BY <1>7 DEF SeePaused
<1>8. CASE Resume
  BY <1>8 DEF Resume
<1>9. ASSUME NEW r \in Approvers, Approve(r) PROVE TypeOK'
  BY <1>9 DEF Approve
<1>10. ASSUME NEW r \in Approvers, CreateDeliverables(r) PROVE TypeOK'
  <2>1. CASE phase' = [phase EXCEPT ![r] = "decomposing"] /\ UNCHANGED approves
    BY <1>10, <2>1 DEF CreateDeliverables
  <2>2. CASE Release(r)
    BY <1>10, <2>2 DEF CreateDeliverables
  <2> QED
    BY <1>10, <2>1, <2>2 DEF CreateDeliverables
<1>11. ASSUME NEW r \in Approvers, Decompose(r) PROVE TypeOK'
  BY <1>11 DEF Decompose
<1>12. ASSUME NEW r \in Approvers, RegisterDeliverables(r) PROVE TypeOK'
  BY <1>12 DEF RegisterDeliverables
<1>13. CASE FailDeliverable
  BY <1>13 DEF FailDeliverable
<1>14. CASE GateRejects
  BY <1>14 DEF GateRejects
<1>15. CASE GateWaits
  BY <1>15 DEF GateWaits
<1>16. CASE RequestMerge
  <2>1. outcome' \in {"merged", "queued"}
    BY <1>16 DEF RequestMerge
  <2>2. pull' \in [Workload -> {"none", "open", "queued", "merged", "closed"}]
    BY <1>16, <2>1 DEF RequestMerge
  <2> QED
    BY <1>16, <2>1, <2>2 DEF RequestMerge
<1>17. CASE BeginMerge
  <2>1. receipt' \in [Positions -> BOOLEAN]
    BY <1>17 DEF BeginMerge
  <2>2. step' \in {"idle", "recording"} /\ job' \in Workload \union {NoWorkload}
        /\ outcome' \in {"none", "merged"} /\ allowed' \in BOOLEAN
    BY <1>17 DEF BeginMerge
  <2> QED
    BY <1>17, <2>1, <2>2 DEF BeginMerge
<1>18. CASE FinishMerge
  BY <1>18 DEF FinishMerge
<1>19. CASE BeginTurn
  BY <1>19 DEF BeginTurn
<1>20. CASE EndTurn
  BY <1>20 DEF EndTurn
<1>21. CASE FailTurn
  BY <1>21 DEF FailTurn
<1>22. CASE NeedInput
  BY <1>22 DEF NeedInput
<1>23. CASE EnsureWorkload
  <2>1. foreman' \in [Workload -> {"absent", "active", "Completed", "Failed"}]
    BY <1>23 DEF EnsureWorkload
  <2> QED
    BY <1>23, <2>1 DEF EnsureWorkload
<1>24. CASE RegisterWorkload
  BY <1>24 DEF RegisterWorkload
<1>25. CASE RetryRefused
  BY <1>25 DEF RetryRefused
<1>26. ASSUME NEW p \in Positions, PollWorkload(p) PROVE TypeOK'
  BY <1>26 DEF PollWorkload
<1>27. ASSUME NEW p \in Positions, PollMerge(p) PROVE TypeOK'
  BY <1>27 DEF PollMerge
<1>28. ASSUME NEW p \in Positions, ChooseWorkload(p) PROVE TypeOK'
  <2>1. job' \in Workload
    BY <1>28 DEF ChooseWorkload, Workload
  <2> QED
    BY <1>28, <2>1 DEF ChooseWorkload
<1>29. ASSUME NEW p \in Positions, PrepareRetry(p) PROVE TypeOK'
  <2>1. attempt[p] + 1 \in Attempts
    BY <1>29, PlanAssumption DEF PrepareRetry, Attempts
  <2>2. attempt' \in [Positions -> Attempts]
    BY <1>29, <2>1 DEF PrepareRetry
  <2> QED
    BY <1>29, <2>2 DEF PrepareRetry
<1>30. ASSUME NEW w \in Workload, WorkloadEnds(w) PROVE TypeOK'
  <2>1. foreman' \in [Workload -> {"absent", "active", "Completed", "Failed"}]
    BY <1>30 DEF WorkloadEnds
  <2>2. pull' \in [Workload -> {"none", "open", "queued", "merged", "closed"}]
    BY <1>30 DEF WorkloadEnds
  <2> QED
    BY <1>30, <2>1, <2>2 DEF WorkloadEnds
<1>31. ASSUME NEW w \in Workload, QueueSettles(w) PROVE TypeOK'
  BY <1>31 DEF QueueSettles
<1>32. ASSUME NEW w \in Workload, HandSettles(w) PROVE TypeOK'
  BY <1>32 DEF HandSettles
<1>33. CASE Crash
  <2>1. editing' \in 0..(MaxVersion - 1)
    BY <1>33, PlanAssumption DEF Crash
  <2>2. phase' \in [Approvers -> {"idle", "creating", "decomposing", "registering"}]
        /\ approves' \in [Approvers -> Versions \union {0}]
    BY <1>33 DEF Crash
  <2> QED
    BY <1>33, <2>1, <2>2 DEF Crash
<1>34. CASE UNCHANGED vars
  BY <1>34 DEF vars
<1> HIDE DEF TypeOK, vars
<1>35. QED
  BY <1>1, <1>2, <1>3, <1>4, <1>5, <1>6, <1>7, <1>8, <1>9, <1>10, <1>11, <1>12, <1>13, <1>14, <1>15, <1>16, <1>17, <1>18, <1>19, <1>20, <1>21, <1>22, <1>23, <1>24, <1>25, <1>26, <1>27, <1>28, <1>29, <1>30, <1>31, <1>32, <1>33, <1>34
  DEF Next, Requests, Reconciler, World

-----------------------------------------------------------------------------
(* What a step cannot disturb. *)

\* A step that writes no row and no pull request keeps what is said of them.
LEMMA RowFrame ==
  ASSUME RowInv, UNCHANGED <<deliverable, workload, pull>>
  PROVE  RowInv'
BY DEF RowInv, RowsNameTheirWorkload, Contiguous, SerialOrder, MergedForReal

\* ... one that leaves Foreman and GitHub alone, what is said of those.
LEMMA WorldFrame ==
  ASSUME PullsFollowWork, UNCHANGED worldVars
  PROVE  PullsFollowWork'
BY DEF PullsFollowWork, worldVars

\* ... one that leaves the approvals alone, what is said of them.
LEMMA HttpFrame ==
  ASSUME ApprovalsCarryVersion, UNCHANGED <<phase, approves>>
  PROVE  ApprovalsCarryVersion'
BY DEF ApprovalsCarryVersion

\* ... and one that leaves the reconciler and the rows alone, what it knows.
LEMMA ThreadFrame ==
  ASSUME ThreadKnows, UNCHANGED <<deliverable, workload, pull, step, job, outcome>>
  PROVE  ThreadKnows'
BY DEF ThreadKnows, HoldsRow, IsNext

\* A thread back in the loop, or in the turn, knows nothing of a row.
LEMMA ThreadForgets ==
  ASSUME step' \in {"idle", "turn", "refreshing"}
  PROVE  ThreadKnows'
BY DEF ThreadKnows

\* No step but FinishMerge completes a plan; a resume returns to a whole one.
LEMMA PlanFrame ==
  ASSUME CompletedIsWhole, UNCHANGED deliverable,
         "completed" \in {plan', previous'} => "completed" \in {plan, previous}
  PROVE  CompletedIsWhole'
BY DEF CompletedIsWhole

\* While a row is not merged no plan is completed.
LEMMA NotYetCompleted ==
  ASSUME CompletedIsWhole, NEW p \in Positions, deliverable[p] \notin {"absent", "merged"}
  PROVE  plan # "completed" /\ previous # "completed"
BY DEF CompletedIsWhole

-----------------------------------------------------------------------------
\* The invariant is inductive: no step of any thread breaks it.
LEMMA IInvStep == IInv /\ [Next]_vars => IInv'
<1> SUFFICES ASSUME IInv, [Next]_vars PROVE IInv'
  OBVIOUS
<1> USE DEF IInv
<1>0. TypeOK'
  BY TypeStep
<1> USE <1>0
<1>1. CASE BeginGitHubEdit
  BY <1>1, RowFrame, WorldFrame, HttpFrame, ThreadFrame, PlanFrame
  DEF BeginGitHubEdit, planVars, rowVars, threadVars, httpVars, worldVars
<1>2. CASE BeginRevision
  BY <1>2, RowFrame, WorldFrame, HttpFrame, ThreadFrame, PlanFrame
  DEF BeginRevision, planVars, rowVars, threadVars, httpVars, worldVars
<1>3. CASE CommitEdit
  BY <1>3, RowFrame, WorldFrame, HttpFrame, ThreadFrame, PlanFrame
  DEF CommitEdit, planVars, rowVars, threadVars, httpVars, worldVars
<1>4. CASE ReopenReview
  BY <1>4, RowFrame, WorldFrame, HttpFrame, ThreadFrame, PlanFrame
  DEF ReopenReview, planVars, rowVars, threadVars, httpVars, worldVars
<1>5. CASE Cancel
  BY <1>5, RowFrame, WorldFrame, HttpFrame, ThreadFrame, PlanFrame
  DEF Cancel, planVars, rowVars, threadVars, httpVars, worldVars
<1>6. CASE Pause
  BY <1>6, RowFrame, WorldFrame, HttpFrame, ThreadFrame, PlanFrame
  DEF Pause, planVars, rowVars, threadVars, httpVars, worldVars
<1>7. CASE SeePaused
  BY <1>7, RowFrame, WorldFrame, HttpFrame, ThreadFrame, PlanFrame
  DEF SeePaused, planVars, rowVars, threadVars, httpVars, worldVars
<1>8. CASE Resume
  BY <1>8, RowFrame, WorldFrame, HttpFrame, ThreadFrame, PlanFrame
  DEF Resume, planVars, rowVars, threadVars, httpVars, worldVars
<1>9. ASSUME NEW r \in Approvers, Approve(r) PROVE IInv'
  <2>1. ApprovalsCarryVersion'
    BY <1>9 DEF Approve, ApprovalsCarryVersion, Release, TypeOK, httpVars
  <2> QED
    BY <1>9, <2>1, RowFrame, WorldFrame, ThreadFrame, PlanFrame
    DEF Approve, planVars, rowVars, threadVars, httpVars, worldVars
<1>10. ASSUME NEW r \in Approvers, CreateDeliverables(r) PROVE IInv'
  <2>1. ApprovalsCarryVersion'
    BY <1>10 DEF CreateDeliverables, ApprovalsCarryVersion, Release, TypeOK, httpVars
  <2> QED
    BY <1>10, <2>1, RowFrame, WorldFrame, ThreadFrame, PlanFrame
    DEF CreateDeliverables, planVars, rowVars, threadVars, httpVars, worldVars
<1>11. ASSUME NEW r \in Approvers, Decompose(r) PROVE IInv'
  <2>1. ApprovalsCarryVersion'
    BY <1>11 DEF Decompose, ApprovalsCarryVersion, Release, TypeOK, httpVars
  <2> QED
    BY <1>11, <2>1, RowFrame, WorldFrame, ThreadFrame, PlanFrame
    DEF Decompose, planVars, rowVars, threadVars, httpVars, worldVars
<1>12. ASSUME NEW r \in Approvers, RegisterDeliverables(r) PROVE IInv'
  <2>1. ApprovalsCarryVersion'
    BY <1>12 DEF RegisterDeliverables, ApprovalsCarryVersion, Release, TypeOK, httpVars
  <2>2. CASE deliverable' = deliverable
    BY <1>12, <2>1, <2>2, RowFrame, WorldFrame, ThreadFrame, PlanFrame
    DEF RegisterDeliverables, planVars, rowVars, threadVars, httpVars, worldVars
  <2>3. CASE deliverable' # deliverable
    <3>1. /\ \A p \in Positions : deliverable[p] = "absent"
          /\ deliverable' = [p \in Positions |->
                               IF p <= Size[approves[r]] THEN "pending" ELSE "absent"]
      BY <1>12, <2>3 DEF RegisterDeliverables
    <3>2. Size[approves[r]] \in Positions
      BY <1>12, PlanAssumption
      DEF RegisterDeliverables, ApprovalsCarryVersion, Versions, Positions
    <3>3. RowInv'
      BY <3>1, <3>2 DEF RowInv, RowsNameTheirWorkload, Contiguous, SerialOrder, MergedForReal,
                        Dispatched, Positions
    <3>4. ThreadKnows'
      BY <1>12, <3>1
      DEF RegisterDeliverables, ThreadKnows, HoldsRow, IsNext, Workload, planVars, rowVars,
          threadVars, httpVars, worldVars
    <3>5. CompletedIsWhole'
      BY <1>12, <3>1, PlanAssumption
      DEF RegisterDeliverables, CompletedIsWhole, Positions, planVars, rowVars, threadVars,
          httpVars, worldVars
    <3> QED
      BY <1>12, <2>1, <3>3, <3>4, <3>5, WorldFrame
      DEF RegisterDeliverables, planVars, rowVars, threadVars, httpVars, worldVars
  <2> QED
    BY <2>2, <2>3
<1>13. CASE GateRejects
  <2>1. ThreadKnows'
    BY <1>13
    DEF GateRejects, ThreadKnows, HoldsRow, planVars, rowVars, threadVars, httpVars,
        worldVars
  <2> QED
    BY <1>13, <2>1, RowFrame, WorldFrame, HttpFrame, PlanFrame
    DEF GateRejects, ToLoop, planVars, rowVars, threadVars, httpVars, worldVars
<1>14. CASE GateWaits
  <2>1. ThreadKnows'
    BY <1>14, ThreadForgets DEF GateWaits, ToLoop
  <2> QED
    BY <1>14, <2>1, RowFrame, WorldFrame, HttpFrame, PlanFrame
    DEF GateWaits, ToLoop, planVars, rowVars, threadVars, httpVars, worldVars
<1>15. CASE EndTurn
  <2>1. ThreadKnows'
    BY <1>15, ThreadForgets DEF EndTurn, ToLoop
  <2> QED
    BY <1>15, <2>1, RowFrame, WorldFrame, HttpFrame, PlanFrame
    DEF EndTurn, ToLoop, planVars, rowVars, threadVars, httpVars, worldVars
<1>16. CASE BeginTurn
  <2>1. ThreadKnows'
    BY <1>16, ThreadForgets DEF BeginTurn, ToLoop
  <2> QED
    BY <1>16, <2>1, RowFrame, WorldFrame, HttpFrame, PlanFrame
    DEF BeginTurn, ToLoop, planVars, rowVars, threadVars, httpVars, worldVars
<1>17. CASE FailTurn
  <2>1. ThreadKnows'
    BY <1>17, ThreadForgets DEF FailTurn, ToLoop
  <2> QED
    BY <1>17, <2>1, RowFrame, WorldFrame, HttpFrame, PlanFrame
    DEF FailTurn, ToLoop, planVars, rowVars, threadVars, httpVars, worldVars
<1>18. CASE RetryRefused
  <2>1. ThreadKnows'
    BY <1>18, ThreadForgets DEF RetryRefused, ToLoop
  <2> QED
    BY <1>18, <2>1, RowFrame, WorldFrame, HttpFrame, PlanFrame
    DEF RetryRefused, ToLoop, planVars, rowVars, threadVars, httpVars, worldVars
<1>19. CASE NeedInput
  <2>1. ThreadKnows'
    BY <1>19, ThreadForgets DEF NeedInput
  <2> QED
    BY <1>19, <2>1, RowFrame, WorldFrame, HttpFrame, PlanFrame
    DEF NeedInput, planVars, rowVars, threadVars, httpVars, worldVars
<1>20. CASE Crash
  <2>1. ThreadKnows'
    BY <1>20, ThreadForgets DEF Crash, ToLoop
  <2>2. ApprovalsCarryVersion'
    BY <1>20 DEF Crash, ApprovalsCarryVersion
  <2> QED
    BY <1>20, <2>1, <2>2, RowFrame, WorldFrame, PlanFrame
    DEF Crash, planVars, rowVars, threadVars, httpVars, worldVars
<1>21. ASSUME NEW p \in Positions, PollWorkload(p) PROVE IInv'
  <2>1. ThreadKnows'
    BY <1>21
    DEF PollWorkload, ThreadKnows, HoldsRow, RowInv, RowsNameTheirWorkload, Dispatched,
        planVars, rowVars, threadVars, httpVars, worldVars
  <2> QED
    BY <1>21, <2>1, RowFrame, WorldFrame, HttpFrame, PlanFrame
    DEF PollWorkload, ToLoop, planVars, rowVars, threadVars, httpVars, worldVars
<1>22. ASSUME NEW p \in Positions, PollMerge(p) PROVE IInv'
  <2>1. ThreadKnows'
    BY <1>22
    DEF PollMerge, ThreadKnows, HoldsRow, RowInv, RowsNameTheirWorkload, Dispatched,
        planVars, rowVars, threadVars, httpVars, worldVars
  <2> QED
    BY <1>22, <2>1, RowFrame, WorldFrame, HttpFrame, PlanFrame
    DEF PollMerge, ToLoop, planVars, rowVars, threadVars, httpVars, worldVars
<1>23. ASSUME NEW p \in Positions, ChooseWorkload(p) PROVE IInv'
  <2>1. ThreadKnows'
    <3>1. job' \in Workload /\ job'.position = p
      BY <1>23 DEF ChooseWorkload, TypeOK, Workload
    <3> QED
      BY <1>23, <3>1
      DEF ChooseWorkload, ThreadKnows, IsNext, planVars, rowVars, threadVars, httpVars,
          worldVars
  <2> QED
    BY <1>23, <2>1, RowFrame, WorldFrame, HttpFrame, PlanFrame
    DEF ChooseWorkload, ToLoop, planVars, rowVars, threadVars, httpVars, worldVars
<1>24. CASE EnsureWorkload
  <2>1. PullsFollowWork'
    BY <1>24 DEF EnsureWorkload, PullsFollowWork, TypeOK
  <2>2. ThreadKnows'
    BY <1>24
    DEF EnsureWorkload, ThreadKnows, IsNext, planVars, rowVars, threadVars, httpVars,
        worldVars
  <2> QED
    BY <1>24, <2>1, <2>2, RowFrame, HttpFrame, PlanFrame
    DEF EnsureWorkload, planVars, rowVars, threadVars, httpVars, worldVars
<1>25. CASE RequestMerge
  <2>1. HoldsRow("running") /\ outcome' \in {"merged", "queued"}
    BY <1>25 DEF RequestMerge, ThreadKnows
  <2>2. pull' = [pull EXCEPT ![job] = outcome'] /\ (pull[job] = "merged" => outcome' = "merged")
    BY <1>25 DEF RequestMerge
  <2>3. RowInv'
    BY <1>25, <2>1, <2>2 DEF RequestMerge, HoldsRow, RowInv, RowsNameTheirWorkload, Contiguous,
       SerialOrder, MergedForReal, Dispatched, TypeOK, planVars, rowVars, threadVars, httpVars, worldVars
  <2>4. PullsFollowWork'
    BY <1>25, <2>1, <2>2
    DEF RequestMerge, HoldsRow, PullsFollowWork, TypeOK, planVars, rowVars, threadVars,
        httpVars, worldVars
  <2>5. ThreadKnows'
    BY <1>25, <2>1, <2>2
    DEF RequestMerge, HoldsRow, ThreadKnows, TypeOK, planVars, rowVars, threadVars, httpVars,
        worldVars
  <2> QED
    BY <1>25, <2>3, <2>4, <2>5, HttpFrame, PlanFrame
    DEF RequestMerge, planVars, rowVars, threadVars, httpVars, worldVars
<1>26. ASSUME NEW w \in Workload, WorkloadEnds(w) PROVE IInv'
  <2>1. \A u \in Workload : pull[u] = "merged" => pull'[u] = "merged"
    BY <1>26 DEF WorkloadEnds, PullsFollowWork, TypeOK
  <2>2. RowInv'
    BY <1>26, <2>1
    DEF WorkloadEnds, RowInv, RowsNameTheirWorkload, Contiguous, SerialOrder, MergedForReal,
       Dispatched, planVars, rowVars, threadVars, httpVars, worldVars
  <2>3. PullsFollowWork'
    BY <1>26 DEF WorkloadEnds, PullsFollowWork, TypeOK
  <2>4. ThreadKnows'
    BY <1>26, <2>1
    DEF WorkloadEnds, ThreadKnows, HoldsRow, IsNext, planVars, rowVars, threadVars, httpVars,
        worldVars
  <2> QED
    BY <1>26, <2>2, <2>3, <2>4, HttpFrame, PlanFrame
    DEF WorkloadEnds, planVars, rowVars, threadVars, httpVars, worldVars
<1>27. ASSUME NEW w \in Workload, QueueSettles(w) PROVE IInv'
  <2>1. \A u \in Workload : pull[u] = "merged" => pull'[u] = "merged"
    BY <1>27 DEF QueueSettles, PullsFollowWork, TypeOK
  <2>2. RowInv'
    BY <1>27, <2>1
    DEF QueueSettles, RowInv, RowsNameTheirWorkload, Contiguous, SerialOrder, MergedForReal,
       Dispatched, planVars, rowVars, threadVars, httpVars, worldVars
  <2>3. PullsFollowWork'
    BY <1>27 DEF QueueSettles, PullsFollowWork, TypeOK
  <2>4. ThreadKnows'
    BY <1>27, <2>1
    DEF QueueSettles, ThreadKnows, HoldsRow, IsNext, planVars, rowVars, threadVars, httpVars,
        worldVars
  <2> QED
    BY <1>27, <2>2, <2>3, <2>4, HttpFrame, PlanFrame
    DEF QueueSettles, planVars, rowVars, threadVars, httpVars, worldVars
<1>28. ASSUME NEW w \in Workload, HandSettles(w) PROVE IInv'
  <2>1. \A u \in Workload : pull[u] = "merged" => pull'[u] = "merged"
    BY <1>28 DEF HandSettles, PullsFollowWork, TypeOK
  <2>2. RowInv'
    BY <1>28, <2>1
    DEF HandSettles, RowInv, RowsNameTheirWorkload, Contiguous, SerialOrder, MergedForReal,
       Dispatched, planVars, rowVars, threadVars, httpVars, worldVars
  <2>3. PullsFollowWork'
    BY <1>28 DEF HandSettles, PullsFollowWork, TypeOK
  <2>4. ThreadKnows'
    BY <1>28, <2>1
    DEF HandSettles, ThreadKnows, HoldsRow, IsNext, planVars, rowVars, threadVars, httpVars,
        worldVars
  <2> QED
    BY <1>28, <2>2, <2>3, <2>4, HttpFrame, PlanFrame
    DEF HandSettles, planVars, rowVars, threadVars, httpVars, worldVars
<1>29. CASE FailDeliverable
  <2>1. HoldsRow("running") /\ job.position \in Positions
    BY <1>29 DEF FailDeliverable, ThreadKnows, HoldsRow, Workload
  <2>2. RowInv'
    BY <1>29, <2>1
    DEF FailDeliverable, HoldsRow, RowInv, RowsNameTheirWorkload, Contiguous, SerialOrder,
        MergedForReal, Dispatched, TypeOK, planVars, rowVars, threadVars, httpVars, worldVars
  <2>3. ThreadKnows'
    BY <1>29, ThreadForgets DEF FailDeliverable, ToLoop
  <2>4. CompletedIsWhole'
    BY <1>29, <2>1, NotYetCompleted DEF FailDeliverable, HoldsRow, CompletedIsWhole
  <2> QED
    BY <1>29, <2>2, <2>3, <2>4, WorldFrame, HttpFrame
    DEF FailDeliverable, planVars, rowVars, threadVars, httpVars, worldVars
<1>30. CASE BeginMerge
  <2>1. HoldsRow("running") /\ job.position \in Positions
    BY <1>30 DEF BeginMerge, ThreadKnows, HoldsRow, Workload
  <2>2. RowInv'
    BY <1>30, <2>1
    DEF BeginMerge, HoldsRow, RowInv, RowsNameTheirWorkload, Contiguous, SerialOrder,
        MergedForReal, Dispatched, TypeOK, planVars, rowVars, threadVars, httpVars, worldVars
  <2>3. ThreadKnows'
    BY <1>30, <2>1
    DEF BeginMerge, ThreadKnows, HoldsRow, ToLoop, TypeOK, planVars, rowVars, threadVars,
        httpVars, worldVars
  <2>4. CompletedIsWhole'
    BY <1>30, <2>1, NotYetCompleted
    DEF BeginMerge, HoldsRow, CompletedIsWhole, planVars, rowVars, threadVars, httpVars,
        worldVars
  <2> QED
    BY <1>30, <2>2, <2>3, <2>4, WorldFrame, HttpFrame
    DEF BeginMerge, planVars, rowVars, threadVars, httpVars, worldVars
<1>31. CASE FinishMerge
  <2>1. HoldsRow("merge_pending") /\ job.position \in Positions
    BY <1>31 DEF FinishMerge, ThreadKnows, HoldsRow, Workload
  <2>2. plan # "completed" /\ previous # "completed"
    BY <2>1, NotYetCompleted DEF HoldsRow
  <2>3. ThreadKnows'
    BY <1>31, ThreadForgets DEF FinishMerge, ToLoop
  <2>4. CASE outcome = "merged"
    <3>1. /\ deliverable' = [deliverable EXCEPT ![job.position] = "merged"]
          /\ pull[job] = "merged"
          /\ plan' = IF AllMergedWith(job.position) THEN "completed" ELSE plan
      BY <1>31, <2>4 DEF FinishMerge, ThreadKnows
    <3>2. RowInv'
      BY <1>31, <2>1, <3>1
      DEF FinishMerge, HoldsRow, RowInv, RowsNameTheirWorkload, Contiguous, SerialOrder,
          MergedForReal, Dispatched, TypeOK, planVars, rowVars, threadVars, httpVars,
          worldVars
    <3>3. deliverable'[1] # "absent"
      BY <2>1, <3>1, PlanAssumption DEF HoldsRow, RowInv, Contiguous, Positions, TypeOK
    <3>4. CompletedIsWhole'
      BY <1>31, <2>1, <2>2, <3>1, <3>3 DEF FinishMerge, CompletedIsWhole, AllMergedWith, TypeOK
    <3> QED
      BY <1>31, <2>3, <3>2, <3>4, WorldFrame, HttpFrame
      DEF FinishMerge, planVars, rowVars, threadVars, httpVars, worldVars
  <2>5. CASE outcome # "merged"
    <3>1. deliverable' = [deliverable EXCEPT ![job.position] = "failed"] /\ plan' = "failed"
      BY <1>31, <2>5 DEF FinishMerge
    <3>2. RowInv'
      BY <1>31, <2>1, <3>1
      DEF FinishMerge, HoldsRow, RowInv, RowsNameTheirWorkload, Contiguous, SerialOrder,
          MergedForReal, Dispatched, TypeOK, planVars, rowVars, threadVars, httpVars,
          worldVars
    <3>3. CompletedIsWhole'
      BY <1>31, <2>2, <3>1 DEF FinishMerge, CompletedIsWhole
    <3> QED
      BY <1>31, <2>3, <3>2, <3>3, WorldFrame, HttpFrame
      DEF FinishMerge, planVars, rowVars, threadVars, httpVars, worldVars
  <2> QED
    BY <2>4, <2>5
<1>32. CASE RegisterWorkload
  <2>1. job \in Workload /\ IsNext(job.position) /\ job.position \in Positions
    BY <1>32 DEF RegisterWorkload, ThreadKnows, Workload
  <2>2. plan # "completed" /\ previous # "completed"
    BY <2>1, NotYetCompleted DEF IsNext
  <2>3. RowInv'
    <3>1. /\ deliverable' = [deliverable EXCEPT ![job.position] = "running"]
          /\ workload' = [workload EXCEPT ![job.position] = job]
          /\ pull' = pull
      BY <1>32 DEF RegisterWorkload, worldVars
    <3>2. \A q \in Positions : q < job.position => deliverable[q] = "merged"
      BY <2>1 DEF IsNext, Positions
    <3>3. \A q \in Positions : job.position < q => deliverable[q] \notin Dispatched
      BY <2>1 DEF IsNext, RowInv, SerialOrder
    <3>4. SerialOrder'
      BY <2>1, <3>1, <3>2, <3>3 DEF RowInv, SerialOrder, Positions, TypeOK
    <3>5. RowsNameTheirWorkload' /\ Contiguous' /\ MergedForReal'
      BY <2>1, <3>1 DEF RowInv, RowsNameTheirWorkload, Contiguous, MergedForReal, IsNext,
                        Dispatched, TypeOK
    <3> QED
      BY <3>4, <3>5 DEF RowInv
  <2>4. ThreadKnows'
    BY <1>32, ThreadForgets DEF RegisterWorkload
  <2>5. CompletedIsWhole'
    BY <1>32, <2>2 DEF RegisterWorkload, CompletedIsWhole
  <2> QED
    BY <1>32, <2>3, <2>4, <2>5, WorldFrame, HttpFrame
    DEF RegisterWorkload, planVars, rowVars, threadVars, httpVars, worldVars
<1>33. ASSUME NEW p \in Positions, PrepareRetry(p) PROVE IInv'
  <2>1. plan # "completed" /\ previous # "completed"
    BY <1>33, NotYetCompleted DEF PrepareRetry
  <2>2. RowInv'
    BY <1>33
    DEF PrepareRetry, RowInv, RowsNameTheirWorkload, Contiguous, SerialOrder, MergedForReal,
        Dispatched, TypeOK, planVars, rowVars, threadVars, httpVars, worldVars
  <2>3. ThreadKnows'
    BY <1>33, ThreadForgets DEF PrepareRetry
  <2>4. CompletedIsWhole'
    BY <1>33, <2>1 DEF PrepareRetry, CompletedIsWhole
  <2> QED
    BY <1>33, <2>2, <2>3, <2>4, WorldFrame, HttpFrame
    DEF PrepareRetry, planVars, rowVars, threadVars, httpVars, worldVars
<1>34. CASE UNCHANGED vars
  BY <1>34, RowFrame, WorldFrame, HttpFrame, ThreadFrame, PlanFrame
  DEF vars, planVars, rowVars, threadVars, httpVars, worldVars
<1>35. QED
  BY <1>1, <1>2, <1>3, <1>4, <1>5, <1>6, <1>7, <1>8, <1>9, <1>10, <1>11, <1>12, <1>13, <1>14,
     <1>15, <1>16, <1>17, <1>18, <1>19, <1>20, <1>21, <1>22, <1>23, <1>24, <1>25, <1>26,
     <1>27, <1>28, <1>29, <1>30, <1>31, <1>32, <1>33, <1>34
  DEF Next, Requests, Reconciler, World

\* A reviewed draft without rows satisfies it.
LEMMA IInvInit == Init => IInv
<1> SUFFICES ASSUME Init PROVE IInv
  OBVIOUS
<1>1. TypeOK
  <2>1. 1 \in Versions /\ 1 \in Attempts /\ 0 \in 0..(MaxVersion - 1)
    BY PlanAssumption DEF Versions, Attempts
  <2> QED
    BY <2>1 DEF Init, TypeOK, PlanStates
<1>2. RowInv
  BY DEF Init, RowInv, RowsNameTheirWorkload, Contiguous, SerialOrder, MergedForReal, Dispatched
<1>3. PullsFollowWork /\ ApprovalsCarryVersion /\ ThreadKnows /\ CompletedIsWhole
  BY DEF Init, PullsFollowWork, ApprovalsCarryVersion, ThreadKnows, CompletedIsWhole
<1> QED
  BY <1>1, <1>2, <1>3 DEF IInv

\* The inductive invariant holds throughout.
THEOREM Invariance == Spec => []IInv
<1>1. Init => IInv
  BY IInvInit
<1>2. IInv /\ [Next]_vars => IInv'
  BY IInvStep
<1> QED
  BY <1>1, <1>2, PTL DEF Spec

-----------------------------------------------------------------------------
\* Every variable keeps its type, whatever the threads and the owner do.
THEOREM TypeCorrect == Spec => []TypeOK
<1>1. IInv => TypeOK
  BY DEF IInv
<1> QED
  BY <1>1, Invariance, PTL

\* Deliverables are dispatched in checklist order, one at a time: the write of
\* register_workload never overtakes a predecessor that is not merged.
THEOREM SerialOrderHolds == Spec => []SerialOrder
<1>1. IInv => SerialOrder
  BY DEF IInv, RowInv
<1> QED
  BY <1>1, Invariance, PTL

\* What is recorded as merged, GitHub has merged.
THEOREM MergedForRealHolds == Spec => []MergedForReal
<1>1. IInv => MergedForReal
  BY DEF IInv, RowInv
<1> QED
  BY <1>1, Invariance, PTL

\* A completed plan, or one that a resume completes, has every row merged.
THEOREM CompletedIsWholeHolds == Spec => []CompletedIsWhole
<1>1. IInv => CompletedIsWhole
  BY DEF IInv
<1> QED
  BY <1>1, Invariance, PTL

-----------------------------------------------------------------------------
(* Action properties. *)


\* The rows change in six steps only.
LEMMA RowWriters ==
  ASSUME [Next]_vars
  PROVE  \/ UNCHANGED rowVars
         \/ \E r \in Approvers : RegisterDeliverables(r)
         \/ FailDeliverable \/ BeginMerge \/ FinishMerge \/ RegisterWorkload
         \/ \E p \in Positions : PrepareRetry(p)
<1>1. Requests => UNCHANGED rowVars \/ \E r \in Approvers : RegisterDeliverables(r)
  BY DEF Requests, BeginGitHubEdit, BeginRevision, CommitEdit, ReopenReview, Cancel, Pause,
     SeePaused, Resume, Approve, CreateDeliverables, Decompose
<1>2. Reconciler => \/ UNCHANGED rowVars
                    \/ FailDeliverable \/ BeginMerge \/ FinishMerge \/ RegisterWorkload
                    \/ \E p \in Positions : PrepareRetry(p)
  BY DEF Reconciler, PollWorkload, GateRejects, GateWaits, RequestMerge, PollMerge, BeginTurn,
     EndTurn, FailTurn, NeedInput, ChooseWorkload, EnsureWorkload, RetryRefused
<1>3. World \/ Crash \/ UNCHANGED vars => UNCHANGED rowVars
  BY DEF World, WorkloadEnds, QueueSettles, HandSettles, Crash, vars, rowVars
<1> QED
  BY <1>1, <1>2, <1>3 DEF Next

\* A workload is created in one step only.
LEMMA WorkloadCreator ==
  ASSUME TypeOK, [Next]_vars, NEW w \in Workload, foreman[w] = "absent", foreman'[w] = "active"
  PROVE  EnsureWorkload /\ w = job
<1>1. ~UNCHANGED foreman
  OBVIOUS
<1>2. ~Requests
  BY <1>1 DEF Requests, BeginGitHubEdit, BeginRevision, CommitEdit, ReopenReview, Cancel, Pause,
     SeePaused, Resume, Approve, CreateDeliverables, Decompose, RegisterDeliverables, worldVars
<1>3. Reconciler => EnsureWorkload
  BY <1>1 DEF Reconciler, PollWorkload, GateRejects, GateWaits, RequestMerge, PollMerge, BeginTurn,
     EndTurn, FailTurn, NeedInput, ChooseWorkload, RetryRefused, FailDeliverable, BeginMerge,
     FinishMerge, RegisterWorkload, PrepareRetry, worldVars
<1>4. ~World
  BY <1>1 DEF World, WorkloadEnds, QueueSettles, HandSettles, TypeOK
<1>5. ~Crash /\ ~UNCHANGED vars
  BY <1>1 DEF Crash, vars, worldVars
<1>6. EnsureWorkload
  BY <1>2, <1>3, <1>4, <1>5 DEF Next
<1> QED
  BY <1>6 DEF EnsureWorkload, TypeOK

\* Foreman starts a workload only after the pull requests of all the earlier
\* deliverables are merged on GitHub.
THEOREM NoDispatchAheadHolds == Spec => NoDispatchAhead
<1>1. ASSUME IInv, [Next]_vars, NEW w \in Workload, foreman[w] = "absent", foreman'[w] = "active",
             NEW q \in 1..(w.position - 1)
      PROVE  pull[workload[q]] = "merged"
  <2>1. EnsureWorkload /\ w = job
    BY <1>1, WorkloadCreator DEF IInv
  <2>2. IsNext(w.position)
    BY <1>1, <2>1 DEF IInv, ThreadKnows, EnsureWorkload
  <2>3. q \in Positions /\ deliverable[q] = "merged"
    BY <1>1, <2>2, PlanAssumption DEF IsNext, Positions, Workload
  <2> QED
    BY <1>1, <2>3 DEF IInv, RowInv, MergedForReal
<1>2. IInv /\ [Next]_vars =>
        \A w \in Workload : foreman[w] = "absent" /\ foreman'[w] = "active" =>
          \A q \in 1..(w.position - 1) : pull[workload[q]] = "merged"
  BY <1>1
<1> QED
  BY <1>2, Invariance, PTL DEF Spec, NoDispatchAhead

\* A merged deliverable stays merged under its workload, and attempts are
\* counted one by one, from a failure.
THEOREM ProgressHolds == Spec => Progress
<1> DEFINE Step(p) ==
      /\ deliverable[p] = "merged" => deliverable'[p] = "merged" /\ workload'[p] = workload[p]
      /\ attempt'[p] # attempt[p] =>
           deliverable[p] = "failed" /\ attempt'[p] = attempt[p] + 1
<1>1. ASSUME IInv, [Next]_vars, NEW p \in Positions PROVE Step(p)
  <2> USE <1>1 DEF IInv
  <2>1. CASE UNCHANGED rowVars
    BY <2>1 DEF rowVars
  <2>2. CASE \E r \in Approvers : RegisterDeliverables(r)
    BY <2>2 DEF RegisterDeliverables, TypeOK
  <2>3. CASE FailDeliverable
    BY <2>3 DEF FailDeliverable, ThreadKnows, HoldsRow, TypeOK
  <2>4. CASE BeginMerge
    BY <2>4 DEF BeginMerge, ThreadKnows, HoldsRow, TypeOK
  <2>5. CASE FinishMerge
    BY <2>5 DEF FinishMerge, ThreadKnows, HoldsRow, TypeOK
  <2>6. CASE RegisterWorkload
    BY <2>6 DEF RegisterWorkload, ThreadKnows, IsNext, TypeOK
  <2>7. CASE \E q \in Positions : PrepareRetry(q)
    BY <2>7 DEF PrepareRetry, TypeOK
  <2> QED
    BY <2>1, <2>2, <2>3, <2>4, <2>5, <2>6, <2>7, RowWriters
<1>2. IInv /\ [Next]_vars => \A p \in Positions : Step(p)
  BY <1>1
<1> QED
  BY <1>2, Invariance, PTL DEF Spec, Progress

-----------------------------------------------------------------------------
(* Refinement: the rows, seen as stages, are a serial delivery. *)

\* Every step of the gateway is one of serial delivery, or no step of it.
LEMMA StageStep ==
  ASSUME IInv, [Next]_vars
  PROVE  [Serial!Next]_Stage
<1> USE DEF IInv
<1>1. CASE UNCHANGED rowVars
  BY <1>1 DEF rowVars, Stage
<1>2. ASSUME NEW r \in Approvers, RegisterDeliverables(r) PROVE [Serial!Next]_Stage
  <2>1. CASE deliverable' = deliverable
    BY <2>1 DEF Stage
  <2>2. CASE deliverable' # deliverable
    <3>1. /\ \A p \in Positions : deliverable[p] = "absent"
          /\ deliverable' = [p \in Positions |->
                               IF p <= Size[approves[r]] THEN "pending" ELSE "absent"]
      BY <1>2, <2>2 DEF RegisterDeliverables
    <3>2. Size[approves[r]] \in Positions
      BY <1>2, PlanAssumption DEF RegisterDeliverables, ApprovalsCarryVersion, Versions, Positions
    <3>3. Serial!Register(Size[approves[r]])
      BY <3>1 DEF Serial!Register, Stage, Positions, Serial!Positions
    <3> QED
      BY <3>2, <3>3 DEF Serial!Next, Positions, Serial!Positions
  <2> QED
    BY <2>1, <2>2
<1>3. CASE FailDeliverable
  <2>1. HoldsRow("running") /\ job.position \in Positions
    BY <1>3 DEF FailDeliverable, ThreadKnows, HoldsRow, Workload
  <2>2. Serial!Break(job.position)
    BY <1>3, <2>1 DEF FailDeliverable, HoldsRow, Serial!Break, Stage, TypeOK
  <2> QED
    BY <2>1, <2>2 DEF Serial!Next, Positions, Serial!Positions
<1>4. CASE BeginMerge
  <2>1. HoldsRow("running") /\ job.position \in Positions
    BY <1>4 DEF BeginMerge, ThreadKnows, HoldsRow, Workload
  <2> QED
    BY <1>4, <2>1 DEF BeginMerge, HoldsRow, Stage, TypeOK
<1>5. CASE FinishMerge
  <2>1. HoldsRow("merge_pending") /\ job.position \in Positions
    BY <1>5 DEF FinishMerge, ThreadKnows, HoldsRow, Workload
  <2>2. Serial!Finish(job.position) \/ Serial!Break(job.position)
    <3>1. PICK new \in {"merged", "failed"} :
            deliverable' = [deliverable EXCEPT ![job.position] = new]
      BY <1>5 DEF FinishMerge
    <3>2. CASE new = "merged"
      BY <2>1, <3>1, <3>2 DEF HoldsRow, Serial!Finish, Stage, TypeOK
    <3>3. CASE new = "failed"
      BY <2>1, <3>1, <3>3 DEF HoldsRow, Serial!Break, Stage, TypeOK
    <3> QED
      BY <3>1, <3>2, <3>3
  <2> QED
    BY <2>1, <2>2 DEF Serial!Next, Positions, Serial!Positions
<1>6. CASE RegisterWorkload
  <2>1. IsNext(job.position) /\ job.position \in Positions
    BY <1>6 DEF RegisterWorkload, ThreadKnows, Workload
  <2>2. Serial!Start(job.position)
    <3>1. deliverable' = [deliverable EXCEPT ![job.position] = "running"]
      BY <1>6 DEF RegisterWorkload
    <3>2. Stage[job.position] = "waiting" /\ Stage' = [Stage EXCEPT ![job.position] = "active"]
      BY <2>1, <3>1 DEF IsNext, Stage, TypeOK
    <3>3. \A q \in 1..(job.position - 1) : q \in Positions /\ deliverable[q] = "merged"
      BY <2>1, PlanAssumption DEF IsNext, Positions
    <3>4. \A q \in 1..(job.position - 1) : Stage[q] = "done"
      BY <3>3 DEF Stage
    <3> QED
      BY <3>2, <3>4 DEF Serial!Start
  <2> QED
    BY <2>1, <2>2 DEF Serial!Next, Positions, Serial!Positions
<1>7. ASSUME NEW p \in Positions, PrepareRetry(p) PROVE [Serial!Next]_Stage
  <2>1. Serial!Retry(p)
    BY <1>7 DEF PrepareRetry, Serial!Retry, Stage, TypeOK
  <2> QED
    BY <2>1 DEF Serial!Next, Positions, Serial!Positions
<1> QED
  BY <1>1, <1>2, <1>3, <1>4, <1>5, <1>6, <1>7, RowWriters

\* The gateway implements serial delivery: every step of every thread is a step
\* of SerialDelivery, or leaves the stages alone.
THEOREM Refinement == Spec => ImplementsSerial
<1>1. Init => Serial!Init
  BY DEF Init, Serial!Init, Stage, Positions, Serial!Positions
<1>2. IInv /\ [Next]_vars => [Serial!Next]_Stage
  BY StageStep
<1> QED
  BY <1>1, <1>2, Invariance, PTL DEF Spec, ImplementsSerial, Serial!Spec

-----------------------------------------------------------------------------
(* One live workload for a version of the plan.                            *)
(*                                                                         *)
(* The workload of a version that a turn may still dispatch is the one at  *)
(* the front of the rows, or there is none.  An abandoned dispatch leaves  *)
(* an active workload that no row names; it is found again by its name if  *)
(* the version is still the same, and is of an older version otherwise.    *)

Ended == {"Completed", "Failed"}
Dispatching == step \in {"creating", "registering"}

\* A version of which a workload may be dispatched from here.
Current(v) == v = version \/ (Dispatching /\ v = job.version)

\* The next row's workload, or that of the running row.
Front(u) ==
  /\ attempt[u.position] = u.attempt
  /\ \/ IsNext(u.position)
     \/ deliverable[u.position] = "running" /\ workload[u.position] = u

WorkEnded ==
  /\ \A p \in Positions :
       deliverable[p] \in {"merge_pending", "failed", "merged"} => foreman[workload[p]] \in Ended
  /\ step \in {"failing", "gating", "merging", "recording"} => foreman[job] \in Ended

NotAhead ==
  /\ editing \in {0, version}
  /\ \A u \in Workload : foreman[u] = "active" => u.version <= version
  /\ Dispatching =>
       /\ job.version <= version /\ job.attempt = attempt[job.position]
       /\ \A u \in Workload : foreman[u] = "active" => u.version <= job.version

AtFront == \A u \in Workload : foreman[u] = "active" /\ Current(u.version) => Front(u)

LiveInv == WorkEnded /\ NotAhead /\ AtFront /\ OneLivePerVersion

\* Beside a row that was dispatched and whose workload ended nothing is live.
LEMMA NothingLive ==
  ASSUME IInv, LiveInv, NEW p \in Positions, NEW u \in Workload,
         \/ deliverable[p] \in {"merge_pending", "failed"}
         \/ deliverable[p] = "running" /\ foreman[workload[p]] \in Ended,
         foreman[u] = "active"
  PROVE  ~Current(u.version)
<1> SUFFICES ASSUME Current(u.version) PROVE FALSE
  OBVIOUS
<1>1. Front(u)
  BY DEF LiveInv, AtFront
<1>2. u.position \in Positions /\ deliverable[p] \in Dispatched /\ deliverable[p] # "merged"
  BY DEF Workload, Dispatched
<1>3. CASE u.position = p
  BY <1>1, <1>3 DEF Front, IsNext, Ended
<1>4. CASE u.position < p
  <2>1. deliverable[u.position] = "merged"
    BY <1>2, <1>4 DEF IInv, RowInv, SerialOrder
  <2> QED
    BY <2>1, <1>1 DEF Front, IsNext
<1>5. CASE p < u.position
  <2>1. p \in 1..(u.position - 1)
    BY <1>2, <1>5 DEF Positions
  <2>2. CASE IsNext(u.position)
    BY <1>2, <2>1, <2>2 DEF IsNext
  <2>3. CASE deliverable[u.position] = "running"
    BY <1>2, <1>5, <2>3 DEF IInv, RowInv, SerialOrder, Dispatched
  <2> QED
    BY <1>1, <2>2, <2>3 DEF Front
<1> QED
  BY <1>2, <1>3, <1>4, <1>5 DEF Positions

\* Two workloads at the front are one.
LEMMA OneFront ==
  ASSUME IInv, NEW u \in Workload, NEW w \in Workload, Front(u), Front(w), u.version = w.version
  PROVE  u = w
<1> DEFINE p == u.position
           q == w.position
<1>1. p \in Positions /\ q \in Positions
  BY DEF Workload
<1>2. ASSUME NEW x \in Workload, NEW y \in Workload, Front(x), Front(y), x.position < y.position
      PROVE  FALSE
  <2>1. x.position \in Positions /\ y.position \in Positions
    BY DEF Workload
  <2>2. x.position \in 1..(y.position - 1)
    BY <1>2, <2>1 DEF Positions
  <2>3. deliverable[x.position] = "merged"
    <3>1. CASE IsNext(y.position)
      BY <2>2, <3>1 DEF IsNext
    <3>2. CASE deliverable[y.position] = "running"
      BY <1>2, <2>1, <3>2 DEF IInv, RowInv, SerialOrder, Dispatched
    <3> QED
      BY <1>2, <3>1, <3>2 DEF Front
  <2> QED
    BY <1>2, <2>3 DEF Front, IsNext
<1>3. p = q
  BY <1>1, <1>2 DEF Positions
<1> QED
  BY <1>3 DEF Front, Workload

\* A step that leaves the rows and Foreman alone, and dispatches nothing new.
LEMMA QuietKeepsLive ==
  ASSUME LiveInv, UNCHANGED <<deliverable, workload, attempt, version, foreman>>,
         editing' \in {0, version},
         UNCHANGED <<step, job>> \/ step' \notin {"creating", "registering"},
         step' \in {"failing", "gating", "merging", "recording"} => foreman[job'] \in Ended
  PROVE  LiveInv'
<1>1. WorkEnded'
  BY DEF LiveInv, WorkEnded
<1>2. NotAhead'
  BY DEF LiveInv, NotAhead, Dispatching
<1>3. AtFront'
  BY DEF LiveInv, AtFront, Current, Front, Dispatching, IsNext
<1> QED
  BY <1>1, <1>2, <1>3 DEF LiveInv, OneLivePerVersion

\* A step of one row whose workload ended: nothing current is live before or after.
LEMMA SettledKeepsLive ==
  ASSUME IInv, LiveInv, NEW p \in Positions,
         \/ deliverable[p] \in {"merge_pending", "failed"}
         \/ deliverable[p] = "running" /\ foreman[workload[p]] \in Ended,
         UNCHANGED <<version, foreman, editing>>, step' \notin {"creating", "registering"},
         WorkEnded'
  PROVE  LiveInv'
<1>1. NotAhead'
  BY DEF LiveInv, NotAhead, Dispatching
<1>2. AtFront'
  BY NothingLive DEF LiveInv, AtFront, Current, Dispatching
<1> QED
  BY <1>1, <1>2 DEF LiveInv, OneLivePerVersion

\* A new version: nothing of it is live.
LEMMA EditKeepsLive ==
  ASSUME IInv, LiveInv, CommitEdit
  PROVE  LiveInv'
<1>1. /\ version \in Nat /\ version' = version + 1 /\ editing' = 0
      /\ UNCHANGED <<deliverable, workload, attempt, foreman, step, job>>
  BY DEF IInv, TypeOK, Versions, LiveInv, NotAhead, CommitEdit, rowVars, threadVars, worldVars
<1>2. \A u \in Workload : u.version \in Nat
  BY DEF Workload, Versions
<1>3. WorkEnded'
  BY <1>1 DEF LiveInv, WorkEnded
<1>4. NotAhead'
  <2>1. Dispatching => job \in Workload
    BY DEF IInv, ThreadKnows, Dispatching
  <2> QED
    BY <2>1, <1>1, <1>2 DEF LiveInv, NotAhead, Dispatching
<1>5. AtFront'
  <2>1. ASSUME NEW u \in Workload, foreman[u] = "active", Current(u.version)' PROVE Current(u.version)
    BY <2>1, <1>1, <1>2 DEF LiveInv, NotAhead, Current, Dispatching
  <2> QED
    BY <2>1, <1>1 DEF LiveInv, AtFront, Front, IsNext
<1> QED
  BY <1>1, <1>3, <1>4, <1>5 DEF LiveInv, OneLivePerVersion

\* The rows are written when there are none, and so nothing at their front.
LEMMA RegisterKeepsLive ==
  ASSUME IInv, LiveInv, NEW r \in Approvers, RegisterDeliverables(r)
  PROVE  LiveInv'
<1>1. UNCHANGED <<workload, attempt, version, foreman, editing, step, job>>
  BY DEF RegisterDeliverables, planVars, threadVars, worldVars
<1>2. CASE UNCHANGED deliverable
  BY <1>1, <1>2, QuietKeepsLive DEF LiveInv, NotAhead, WorkEnded
<1>3. CASE /\ \A p \in Positions : deliverable[p] = "absent"
           /\ \A p \in Positions : deliverable'[p] \in {"pending", "absent"}
  <2>1. \A u \in Workload : ~Front(u)
    BY <1>3 DEF Front, IsNext, Workload
  <2>2. AtFront'
    BY <2>1, <1>1 DEF LiveInv, AtFront, Current, Dispatching
  <2>3. WorkEnded' /\ NotAhead'
    BY <1>1, <1>3 DEF LiveInv, WorkEnded, NotAhead, Dispatching
  <2> QED
    BY <1>1, <2>2, <2>3 DEF LiveInv, OneLivePerVersion
<1> QED
  BY <1>2, <1>3 DEF RegisterDeliverables

\* The reconciler without its dispatches.
LEMMA WatchKeepsLive ==
  ASSUME IInv, LiveInv,
         \/ FailDeliverable \/ GateRejects \/ GateWaits \/ RequestMerge \/ BeginMerge
         \/ FinishMerge \/ BeginTurn \/ EndTurn \/ FailTurn \/ NeedInput \/ RetryRefused
         \/ \E p \in Positions : PollWorkload(p) \/ PollMerge(p)
  PROVE  LiveInv'
<1>1. UNCHANGED <<version, foreman, editing, attempt>>
  BY DEF FailDeliverable, GateRejects, GateWaits, RequestMerge, BeginMerge, FinishMerge,
         BeginTurn, EndTurn, FailTurn, NeedInput, RetryRefused, PollWorkload, PollMerge,
         planVars, rowVars, httpVars, worldVars
<1>2. editing \in {0, version}
  BY DEF LiveInv, NotAhead
<1>3. CASE \E p \in Positions : PollWorkload(p) \/ PollMerge(p)
  <2>1. /\ UNCHANGED <<deliverable, workload>>
        /\ step' \in {"failing", "gating", "recording"} /\ foreman[job'] \in Ended
    BY <1>3 DEF PollWorkload, PollMerge, LiveInv, WorkEnded, Ended, rowVars
  <2> QED
    BY <2>1, <1>1, <1>2, QuietKeepsLive
<1>4. CASE GateRejects \/ GateWaits \/ RequestMerge \/ BeginTurn \/ EndTurn \/ FailTurn
           \/ NeedInput \/ RetryRefused
  <2>1. /\ UNCHANGED <<deliverable, workload>>
        /\ \/ step' \in {"idle", "turn"}
           \/ /\ step \in {"gating", "merging"} /\ step' \in {"failing", "merging"}
              /\ job' = job
    BY <1>4 DEF GateRejects, GateWaits, RequestMerge, BeginTurn, EndTurn, FailTurn, NeedInput,
                RetryRefused, ToLoop, rowVars
  <2>2. step' \in {"failing", "gating", "merging", "recording"} => foreman[job'] \in Ended
    BY <2>1 DEF LiveInv, WorkEnded
  <2> QED
    BY <2>1, <2>2, <1>1, <1>2, QuietKeepsLive
<1>5. CASE FailDeliverable \/ BeginMerge \/ FinishMerge
  <2> DEFINE p == job.position
  <2>1. /\ p \in Positions /\ workload[p] = job /\ foreman[job] \in Ended
        /\ deliverable[p] \in {"running", "merge_pending"}
    BY <1>5 DEF FailDeliverable, BeginMerge, FinishMerge, IInv, ThreadKnows, HoldsRow, Workload,
                LiveInv, WorkEnded
  <2>2. /\ UNCHANGED workload
        /\ \E state \in {"failed", "merge_pending", "merged"} :
             deliverable' = [deliverable EXCEPT ![p] = state]
        /\ step' = "idle" \/ (step' = "recording" /\ job' = job)
    BY <1>5 DEF FailDeliverable, BeginMerge, FinishMerge, ToLoop
  <2> HIDE DEF p
  <2>3. WorkEnded'
    BY <2>1, <2>2, <1>1 DEF LiveInv, WorkEnded, IInv, TypeOK
  <2> QED
    BY <2>1, <2>2, <2>3, <1>1, SettledKeepsLive
<1> QED
  BY <1>3, <1>4, <1>5

\* A dispatch: the workload is chosen for the current version, ...
LEMMA ChooseKeepsLive ==
  ASSUME IInv, LiveInv, NEW p \in Positions, ChooseWorkload(p)
  PROVE  LiveInv'
<1>1. /\ job' = [version |-> version, position |-> p, attempt |-> attempt[p]]
      /\ step' = "creating" /\ version \in Nat
      /\ UNCHANGED <<deliverable, workload, attempt, version, foreman, editing>>
  BY DEF ChooseWorkload, IInv, TypeOK, Versions, planVars, rowVars, httpVars, worldVars
<1>2. WorkEnded' /\ NotAhead'
  BY <1>1 DEF LiveInv, WorkEnded, NotAhead, Dispatching
<1>3. AtFront'
  BY <1>1 DEF LiveInv, AtFront, Current, Front, Dispatching, IsNext
<1> QED
  BY <1>1, <1>2, <1>3 DEF LiveInv, OneLivePerVersion

\* ... created, unless it exists, ...
LEMMA EnsureKeepsLive ==
  ASSUME IInv, LiveInv, EnsureWorkload
  PROVE  LiveInv'
<1>1. /\ step = "creating" /\ step' = "registering" /\ job \in Workload
      /\ UNCHANGED <<deliverable, workload, attempt, version, editing, job>>
      /\ foreman' = [foreman EXCEPT ![job] = IF @ = "absent" THEN "active" ELSE @]
      /\ foreman \in [Workload -> {"absent", "active", "Completed", "Failed"}]
      /\ version \in Nat /\ job.version \in Nat
  BY DEF EnsureWorkload, IInv, TypeOK, ThreadKnows, planVars, rowVars, httpVars, Workload, Versions
<1>2. Front(job) /\ Current(job.version) /\ Dispatching
  BY <1>1 DEF Front, Current, Dispatching, IInv, ThreadKnows, LiveInv, NotAhead
<1>3. /\ \A u \in Workload : foreman'[u] = "active" => u = job \/ foreman[u] = "active"
      /\ \A u \in Workload : foreman[u] \in Ended => foreman'[u] = foreman[u]
  BY <1>1 DEF Ended
<1>4. /\ \A u \in Workload : Front(u)' <=> Front(u)
      /\ \A u \in Workload : Current(u.version)' <=> Current(u.version)
      /\ Dispatching'
  BY <1>1 DEF Front, Current, Dispatching, IsNext
<1>5. WorkEnded'
  <2>1. ASSUME NEW p \in Positions, deliverable[p] \in {"merge_pending", "failed", "merged"}
        PROVE  foreman'[workload[p]] \in Ended
    <3>1. workload[p] \in Workload
      BY <2>1 DEF IInv, RowInv, RowsNameTheirWorkload, Dispatched
    <3> QED
      BY <2>1, <3>1, <1>3 DEF LiveInv, WorkEnded
  <2> QED
    BY <2>1, <1>1 DEF WorkEnded
<1>6. NotAhead'
  BY <1>1, <1>2, <1>3, <1>4 DEF LiveInv, NotAhead
<1>7. AtFront'
  BY <1>2, <1>3, <1>4 DEF LiveInv, AtFront
<1>8. OneLivePerVersion'
  <2>1. \A u \in Workload : foreman'[u] = "active" /\ u.version = job.version => u = job
    <3>1. ASSUME NEW u \in Workload, foreman[u] = "active", u.version = job.version
          PROVE  Front(u)
      BY <3>1, <1>2 DEF LiveInv, AtFront, Current
    <3> QED
      BY <3>1, <1>1, <1>2, <1>3, OneFront
  <2>2. ASSUME NEW u \in Workload, NEW w \in Workload, foreman'[u] = "active",
               foreman'[w] = "active", u.version = w.version
        PROVE  u = w
    <3>1. CASE u.version = job.version
      BY <2>1, <2>2, <3>1
    <3>2. CASE u.version # job.version
      BY <2>2, <3>2, <1>3 DEF LiveInv, OneLivePerVersion
    <3> QED
      BY <3>1, <3>2
  <2> QED
    BY <2>2 DEF OneLivePerVersion
<1> QED
  BY <1>5, <1>6, <1>7, <1>8 DEF LiveInv

\* ... and its row written.
LEMMA RegisterWorkloadKeepsLive ==
  ASSUME IInv, LiveInv, RegisterWorkload
  PROVE  LiveInv'
<1> DEFINE p == job.position
<1>1. /\ p \in Positions /\ job \in Workload /\ IsNext(p) /\ step' = "turn"
      /\ deliverable' = [deliverable EXCEPT ![p] = "running"]
      /\ workload' = [workload EXCEPT ![p] = job]
      /\ UNCHANGED <<attempt, version, foreman, editing>>
      /\ deliverable \in [Positions -> {"absent", "pending", "running", "merge_pending",
                                        "merged", "failed"}]
      /\ workload \in [Positions -> Workload \union {NoWorkload}]
  BY DEF RegisterWorkload, IInv, ThreadKnows, TypeOK, Workload, httpVars, worldVars
<1>2. Dispatching /\ Front(job) /\ Current(job.version)
  BY <1>1 DEF RegisterWorkload, Front, Current, Dispatching, LiveInv, NotAhead
<1>3. WorkEnded'
  BY <1>1 DEF LiveInv, WorkEnded, p
<1>4. NotAhead'
  BY <1>1 DEF LiveInv, NotAhead, Dispatching
<1>5. AtFront'
  <2> SUFFICES ASSUME NEW u \in Workload, foreman[u] = "active", Current(u.version)'
               PROVE  Front(u)'
    BY <1>1 DEF AtFront
  <2>1. u.version = version /\ Current(u.version)
    BY <1>1 DEF Current, Dispatching
  <2>2. Front(u)
    BY <2>1 DEF LiveInv, AtFront
  <2>3. u.version = job.version
    BY <2>1, <1>1, <1>2 DEF LiveInv, NotAhead, Workload, Versions
  <2>4. u = job
    BY <2>2, <2>3, <1>1, <1>2, OneFront
  <2>5. attempt[p] = job.attempt
    BY <1>2 DEF Front
  <2> QED
    BY <2>4, <2>5, <1>1 DEF Front
<1> QED
  BY <1>1, <1>3, <1>4, <1>5 DEF LiveInv, OneLivePerVersion

\* A failed row is taken back: what it named has ended.
LEMMA RetryKeepsLive ==
  ASSUME IInv, LiveInv, NEW p \in Positions, PrepareRetry(p)
  PROVE  LiveInv'
<1>1. /\ deliverable[p] = "failed" /\ step' = "refreshing"
      /\ deliverable' = [deliverable EXCEPT ![p] = "pending"]
      /\ workload' = [workload EXCEPT ![p] = NoWorkload]
      /\ UNCHANGED <<version, foreman, editing>>
  BY DEF PrepareRetry, httpVars, worldVars
<1>2. WorkEnded'
  BY <1>1 DEF LiveInv, WorkEnded, IInv, TypeOK
<1> QED
  BY <1>1, <1>2, SettledKeepsLive

\* Workloads end.
LEMMA WorldKeepsLive ==
  ASSUME IInv, LiveInv, World
  PROVE  LiveInv'
<1>1. /\ UNCHANGED <<deliverable, workload, attempt, version, editing, step, job>>
      /\ \A u \in Workload : foreman'[u] = "active" => foreman[u] = "active"
      /\ \A u \in Workload : foreman[u] \in Ended => foreman'[u] \in Ended
  BY DEF World, WorkloadEnds, QueueSettles, HandSettles, IInv, TypeOK, Ended,
         planVars, rowVars, threadVars, httpVars
<1>2. \A p \in Positions : deliverable[p] \in Dispatched => workload[p] \in Workload
  BY DEF IInv, RowInv, RowsNameTheirWorkload
<1>3. step \in {"failing", "gating", "merging", "recording"} => job \in Workload
  BY DEF IInv, ThreadKnows, HoldsRow
<1>4. WorkEnded'
  BY <1>1, <1>2, <1>3 DEF LiveInv, WorkEnded, Dispatched
<1>5. NotAhead'
  BY <1>1 DEF LiveInv, NotAhead, Dispatching
<1>6. AtFront'
  BY <1>1 DEF LiveInv, AtFront, Current, Front, Dispatching, IsNext
<1> QED
  BY <1>1, <1>4, <1>5, <1>6 DEF LiveInv, OneLivePerVersion

\* Every step keeps the facts about live workloads.
LEMMA LiveInvStep == IInv /\ LiveInv /\ [Next]_vars => LiveInv'
<1> SUFFICES ASSUME IInv, LiveInv, [Next]_vars PROVE LiveInv'
  OBVIOUS
<1>0. editing \in {0, version}
      /\ (step \in {"failing", "gating", "merging", "recording"} => foreman[job] \in Ended)
  BY DEF LiveInv, NotAhead, WorkEnded
<1>1. CASE Requests
  <2>1. CASE BeginGitHubEdit \/ BeginRevision \/ ReopenReview \/ Cancel \/ Pause \/ SeePaused
             \/ Resume \/ \E r \in Approvers : Approve(r) \/ CreateDeliverables(r) \/ Decompose(r)
    <3>1. /\ UNCHANGED <<deliverable, workload, attempt, version, foreman, step, job>>
          /\ editing' \in {0, version}
      BY <2>1, <1>0 DEF BeginGitHubEdit, BeginRevision, ReopenReview, Cancel, Pause, SeePaused,
         Resume, Approve, CreateDeliverables, Decompose, planVars, rowVars, threadVars, httpVars,
         worldVars
    <3> QED
      BY <3>1, <1>0, QuietKeepsLive
  <2>2. CASE CommitEdit
    BY <2>2, EditKeepsLive
  <2>3. CASE \E r \in Approvers : RegisterDeliverables(r)
    BY <2>3, RegisterKeepsLive
  <2> QED
    BY <1>1, <2>1, <2>2, <2>3 DEF Requests
<1>2. CASE Reconciler
  BY <1>2, WatchKeepsLive, ChooseKeepsLive, EnsureKeepsLive, RegisterWorkloadKeepsLive,
     RetryKeepsLive DEF Reconciler
<1>3. CASE World
  BY <1>3, WorldKeepsLive
<1>4. CASE Crash
  BY <1>4, QuietKeepsLive DEF Crash, ToLoop, planVars, rowVars, worldVars
<1>5. CASE UNCHANGED vars
  BY <1>5, <1>0, QuietKeepsLive DEF vars
<1> QED
  BY <1>1, <1>2, <1>3, <1>4, <1>5 DEF Next

\* Foreman never executes two workloads of one version at once, for any number of
\* deliverables, versions, attempts, approvals and crashes.
THEOREM OneLivePerVersionHolds == Spec => []OneLivePerVersion
<1>1. Init => LiveInv
  BY PlanAssumption DEF Init, LiveInv, WorkEnded, NotAhead, AtFront, OneLivePerVersion, Dispatching
<1>2. IInv /\ LiveInv /\ [Next]_vars => LiveInv'
  BY LiveInvStep
<1>3. LiveInv => OneLivePerVersion
  BY DEF LiveInv
<1> QED
  BY <1>1, <1>2, <1>3, Invariance, PTL DEF Spec
=============================================================================
