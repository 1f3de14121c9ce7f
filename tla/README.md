# Verification of the Cogito gateway and its neighbours

TLA+ specifications of the coordinator in `services/gateway`, the program that takes a plan from a
conversation in a Matrix room to merged pull requests, of the bot that shows its progress, and of the
smaller programs and scripts of the repository that keep state across failures: fan controllers,
benchmark campaigns, downloads, the knowledge service, the agents' bundle. TLC checks the specifications
on small instances; TLAPS proves the delivery protocol and the main promises of twenty other modules
for all instances.

    tlc -workers 2 -config DeliveryReplan.cfg MCPlanDelivery.tla
    tlapm PlanDelivery_proofs.tla

`PROJECT.json` lists the components, the runs with their modules and configurations, the mutants that
every property is known to reject, the source lines of every definition, the findings, the hazards and
the theorems.

## 1. The system

The repository holds a home cluster: Talos and Kubernetes manifests, patches, benchmarks, a number of
programs and scripts, and one program with a protocol of its own, the gateway. The gateway is where the
core logic is.

| Part | Source | State | Operations |
|---|---|---|---|
| Store | `coordinator/state.py` | SQLite: plans, versions, approvals, controls, deliverables, workloads, Luna events and turns, the Matrix outbox, intake and research, action keys, identities seen | one method, one transaction, one lock |
| Approval and versioning | `coordinator/core.py` | rows of plans, versions, approvals, actions | draft, revise, edit, approve, reopen |
| Delivery reconciler | `coordinator/matrix.py` | none but the store; one pass every 15 s | poll workloads, gate, request and poll merges, recover, follow research, close issues |
| Matrix commands | `coordinator/matrix.py` | a lock around every inbound event, saved results | intake, approve, revise, stop, pause, resume, retry, instruct |
| Luna | `coordinator/luna.py` | none but the store | claim a batch, run a turn of tool calls, finish or fail it |
| Outbox and bot | `state.py`, `cogito_bot.py` | `matrix_outbox`; the bot's sync token | enqueue; poll, write, pin, acknowledge |
| GitHub client | `coordinator/github.py` | none | issues with markers, edits, reviews, checks, merges |
| Foreman client | `coordinator/foreman.py` | none | create a Workload, its phase, its merge candidate and quorum; scouts' tasks and transcripts |
| Webhooks | `coordinator/webhooks.py` | the delivery ids it has seen | admit, route, release |
| Service | `coordinator/service.py` | threads | `ThreadingHTTPServer`, reconcile loop |
| Intake and research | `matrix.py`, `state.py` | intake rounds, scouts, their threads, Astra turns | question, answer, research, announce, publish, synthesize |
| Planner, models | `planner.py`, `models.py` | none | model calls; immutable values and hashes |
| Fan controllers | two `fanctl.py` | the duty, the sensors seen | read, curve, write, hand back |
| Host notifications | `scripts/agent-notify.sh` and its timer | a directory of events | write, flush, remove |
| Capability plugin | `litellm-caps/caps.py` | memory, a mirror on disk | look up, warm in threads |
| Agent bundle | `gen-bundle`, `configure.py` | the home of the agent, a stamp | pack, publish, seed |
| Knowledge service | `knowledge/app.py` | sources and chunks in PostgreSQL | ingest, catalog, search |
| Model catalogue | `scripts/validate-llm-catalogue.py` | none | nine checks over rendered manifests |
| Rooms, bootstrap | `scripts/matrix-rooms.py`, `bootstrap-apps.sh` | the room; the cluster | idempotent steps, run again |
| Dashboard layout | `scripts/llm/build_llm_serving_dashboard.py` | the cursor of a grid | place a row, place a panel |
| Campaigns, benchmark, shards, downloads | `plans/llm/artifacts/...`, `scripts/llm/` | the lane's and Flux's suspension; artifacts; partial files | measure and restore; search a prompt; verify; resume |
| Other scripts | the queries of dashboards, `bulk_remove.py` | none | one-shot |
| Manifests, patches | the rest | none | declarative |

How they interact:

* Everything in the gateway meets in the store. A `StateStore` method takes one lock and one
  transaction, so a transaction is atomic; two transactions of one caller are not. **One transaction is
  one action** of the specifications, and so is every call to GitHub, Foreman or Matrix.
* One reconciler thread runs `matrix.reconcile_once()` and then `luna.reconcile_once()`, for ever.
  Request threads run webhooks, Matrix events and the bot's polls at the same time. The Matrix lock
  orders the Matrix events among themselves, not against webhooks or the reconciler.
* Foreman executes Workloads and GitHub merges, neither in step with the gateway; a call to either may
  fail, or succeed and lose its reply. A person may merge, push, close, edit or relabel anything on
  GitHub.
* The process may die between any two transactions. What a thread knew is lost; the rows are not.
* The other programs share no state with the gateway or with each other. Each meets the world through
  files, a database, a cluster or hardware that somebody else changes at the same time.

What is hard, and what each part owes its users:

* *Delivery*: the choice of a deliverable, its Workload and its row are three steps, during which the
  plan may be edited, stopped, paused, reopened or approved again. Deliverables must go in order; merged
  must mean merged; completed must mean all; a retry must not run twice.
* *Approval*: four steps in each of several threads, a sub-issue of GitHub for each item of the
  checklist, each of which may be created without the gateway hearing of it.
* *The gate*: commit, reviews, checks and merge are read and made in calls minutes apart, on a branch to
  which people push. What is merged must be what was reviewed.
* *Luna's queue*: debounce, batches, back-off, a cap and a deduplication by id. An event must not be
  lost or handled twice, and a deliverable that can be dispatched must come to a turn. *Her turn* is
  replayed by a model that knows nothing of the first run and must not say a thing twice.
* *Outbox*: writes and acknowledgements that get lost. A message must be shown once.
* *Intake*: a message or a synthesis holds the Matrix lock for minutes, Luna and the webhooks do not
  wait for it, and what the reconciler found before the lock may be old with it. Questions and rounds
  must be bounded, a version must not be overwritten, research must end, a scout's thread must be closed
  whole.
* *Commands and webhooks*: a stop must stop; a message is about one plan however often it is forwarded;
  a delivery that GitHub takes for handled must have been.
* *The programs*: each is interrupted between two steps and run again on what it left. What has its
  final name must be whole, what was suspended must be resumed, what belongs to somebody else must stay.

`_dispatch_next` (`matrix.py:422`) is not called by anything: dispatch is a tool of Luna.

## 2. The modules

The gateway:

| Module | What it is |
|---|---|
| `PlanDelivery` | one plan from its review draft to its last merge: approval, edits, commands, reconciler, Luna's tools, Foreman, GitHub, crashes |
| `SerialDelivery` | what `PlanDelivery` promises: five stages per deliverable, one deliverable after the other |
| `PlanIntake` | one plan from its first message to its approval: questions, scouts, syntheses, drafts and revisions |
| `LunaQueue` | events, batches, turns, back-off, cap, and what wakes Luna |
| `TurnTools` | the tool calls of one turn, their action keys and markers, replays |
| `Webhooks` | deliveries of GitHub, in any order and again, handled by several threads |
| `RoomCommands` | the owner's messages: which plan they are about, saved results, forwarded again |
| `SubIssues` | what an approval makes of the checklist on GitHub |
| `ReviewGate` | commit, quorum of reviews, checks, and the pinned merge |
| `ScoutThreads` | the threads of the activity room, from announcement to transcript |
| `Closing` | the issues of a plan that ended |
| `MatrixOutbox` | cards, edits and pins from two threads of the gateway through the bot to the room |

The programs:

| Module | What it is |
|---|---|
| `FanControl` | both copies of `fanctl.py`: curve, failing sensors and writes, takeover, signal, restore |
| `Notify` | `agent-notify.sh` and its timer on one outbox directory |
| `Caps` | the capability cache: memory, mirror, warming threads |
| `Bundle` | the agent bundle from the repository to the agent's home |
| `Knowledge` | concurrent ingestion into two tables |
| `Catalogue` | validation of a catalogue, and LiteLLM's fallbacks in what was deployed |
| `RoomLayout`, `Bootstrap` | the two idempotent scripts, interrupted and run again |
| `Dashboard` | the grid on which the panels of the serving dashboard are placed |
| `Campaign`, `Bench` | the paired measurements with their restore; trials, prompt search and artifact |
| `Shards`, `Downloads` | verified copies and ranged downloads of model files |

Instances and proofs:

| Module | What it is |
|---|---|
| `MCPlanDelivery`, `MCSubIssues` | checklists |
| `MCRequests` | what the gateway is asked: `Webhooks`, `RoomCommands`, `SubIssues`, `ReviewGate`, `LunaQueue`, `TurnTools` |
| `MCReconciler` | what its passes must get done: `PlanIntake`, `LunaQueue`, `Closing` |
| `MCPrograms` | `ScoutThreads` and the programs, interrupted |
| `MCChannels` | what is repeated until it succeeds: `MatrixOutbox`, `ScoutThreads`, `FanControl`, `Notify`, `Caps` |
| `PlanDelivery_proofs`, `PlanIntake_proofs`, `LunaQueue_proofs`, `ReviewGate_proofs` | theorems about one module |
| `Requests_proofs` | theorems about `Webhooks`, `RoomCommands`, `SubIssues`, `TurnTools`, and about the composition `MCRequests` |
| `Channels_proofs` | theorems about `MatrixOutbox`, `FanControl`, `Notify`, `Caps`, `Closing` |
| `Experiments_proofs` | theorems about `Downloads`, `Campaign`, `Shards`, `Bench` |
| `Programs_proofs` | theorems about `ScoutThreads`, `Catalogue`, `Knowledge`, `Bundle`, `Bootstrap`, `RoomLayout`, `Dashboard`, and about the composition `MCPrograms` |

`MCRequests`, `MCReconciler`, `MCPrograms` and `MCChannels` are not interleavings: their parts share no
variable, and a variable chosen at the start says which one the behaviour is of. The interleavings that
matter, of the threads that share a plan, are inside the modules.

### PlanDelivery

The row variables are columns: `plan` is `plans.state`, `previous` is `plan_controls.previous_state`,
`version` is `plans.current_version`, `approval` is the approved hash, and `deliverable`, `attempt`,
`workload`, `receipt` (`merge_uuid IS NOT NULL`) are `plan_deliverables` by position. A version number
stands for its content hash, `Size[v]` for its checklist.

The threads are program counters. `step` is the reconciler's: `idle`, then either the merge path
(`failing`, `gating`, `merging`, `recording`) or a Luna turn (`turn`, `refreshing`, `creating`,
`registering`); `job`, `outcome` and `allowed` are its locals. `allowed` is the plan row as read when
the turn began, which is what `create_workload` decides on. `phase[r]` and `approves[r]` are an
approval's thread, `editing` a body edit's, `resuming` a resume that has seen `paused`. `foreman` and
`pull` are the external world, by Workload name (plan hash, position, attempt).

What the model says in a turn is left open: a turn may begin in any coordinated state and call its tools
in any order. This contains every behaviour of `LunaQueue`'s turns; whether a turn comes at all is the
question `LunaQueue` answers.

Abstractions: one plan; one edit at a time (of two edits of one version the second violates a primary
key); versions, positions and attempts bounded; intake states before the first draft left out; the pull
request of a Workload is named by it. An approval of another hash than the current one changes nothing
and is not an action. Commands ask for the plan's state only where the code does.

### SerialDelivery

A sequence of deliverables registers once, and each goes absent, waiting, active, then done or broken, a
broken one waiting again; one starts only when all before it are done. `PlanDelivery!Stage` maps
`running` and `merge_pending` to active. `ImplementsSerial` is `Serial!Spec` under this mapping, checked
by TLC and proved.

### PlanIntake

`drafts` is `plan_versions`, by author; `questions` the clarifying rows of `plan_intake`, by the message
or the round they answer (their ids); `research` is `plan_research` by round; `turns` counts the planner
turns in `audit_events`. `holder` is the Matrix lock and `pc` where its holder is: `starting` (a
synthesis before its mark), `reserving`, `asking`, `answered` (between the question and the state),
`publishing`, `failed`. `force` and `base` are its locals. `step` is the reconciler: `waiting` for the
lock with a `ready` round, `synthesis`, or a turn of Luna, whose `lunaBase` is the version in the row it
read when it began. A call of the planner and the transaction that follows it are one action, because
nothing is read in between.

Abstractions: a plan from its approval on is one state, `approved` (`PlanDelivery` has what follows, the
steps of an edit and the pauses); a message is not delivered twice; a planner told to draft drafts or
fails (it is given no tools then); scouts are pending, succeeded or failed.

### LunaQueue

`waiting`, `ready`, `claimed`, `done` partition `coordinator_events`: before and after `ready_at`, with
a `batch_id`, with a `processed_at`. `turns` is `luna_turns`. Each plan is reduced to a state (`open`
for decomposed and running, `closed` for completed and cancelled), the run of its next deliverable and
that deliverable's state. `pc` is the reconciler: claim, check the plan, check the cap, think, finish or
fail, continue, and the pass that settles runs and sends recovery events, each event in a transaction of
its own (`owed`), as an owner command's is (`promised`). The ids follow the code: recovery has one id
per run, so it is spent once; continue has one id per turn.

Abstractions: time is an action that ends a delay; the traffic about a plan is bounded (the code lets
steady traffic postpone a plan's events without end, see the hazards); merge failures are numbered by
run as workload failures are; a plan's draft edits and label removals are left to `PlanDelivery`.

### MatrixOutbox

`outbox` is `matrix_outbox` in the order of the poll, `created_at` then `notification_id`: a row may
enter anywhere among those of the current second that its id allows. A poll takes the first `Limit` of
the rows that are due. `writer[t]` is a gateway thread
inside `set_plan_state` and `enqueue_plan_card`: change, read, look up, card and pin or edit, unpin. The
bot polls a batch, writes its head under the notification's id, and acknowledges it; a write or an
acknowledgement may fail or lose its reply, and abandons the cycle; a pin that fails is left behind.

Abstractions: one sender; a card's text is the plan's state; Matrix deduplicates by transaction id, as
the bot relies on; thread replies, images and the bot's inbound side are not modelled.

### Webhooks, RoomCommands

`deliveries` is what happened to the issue, `response` how GitHub sees each delivery: `due`, `waiting`
for an answer, `failed` or `answered`. GitHub hands over a due or failed one at any time, again and in
any order, so a thread of `worker` may have a delivery that another has answered. `admitted` is
`inbound_events`; the program counter goes through the handler of the delivery's kind, one step per
transaction or call. `overtaken` is a history variable: the deliveries that were answered as duplicates
while their first attempt was still at work, and those lost in a crash.

In `RoomCommands` a handler is a member of `calls`, with the message, its step and the plan it chose;
`touched` remembers which plans a message had an effect on. `saved` is `matrix_event_results`.

### SubIssues, ReviewGate, TurnTools

All three have a call of GitHub that takes effect and loses its answer, and a marker in what it wrote.
`SubIssues` goes through the checklist in order (`CreateAnew` or `Child`, then `Order`), `TurnTools`
through a call of a tool (`BeginCall`, the tool, `CompleteCall`, `Audit`), `ReviewGate` through a pass
(`Candidate`, `PostPackets`, `Mark`, `Checks`, `RequestMerge`, `BeginsMerge`). Commits are numbered in
the order of pushing; a review saw the head at its start and again at its end, and `after` is the number
of coder tasks that had ended before it, which is how the code tells old reviews from new. `passedOnce`
is a history variable.

### ScoutThreads, Closing

`thread[i]` has the rows a scout's thread may have: root, queued, first, second, final. `pass` is the
reconciler, which polls each scout and publishes what has ended; a transcript is `named` in the status
before it is `stored`. A pass that fails in the middle begins anew. `Closing` is the pass over the ended
plans: keys of `external_actions`, each taken, performed and completed; a failed plan may come back and
end again under another key.

### The programs

`FanControl` has both copies under a constant choice of `card`; `fan` is `Firmware`, `Held` or a duty,
and a write may fail for any set of fans. `Notify` numbers events in the order of their names; a process
is a program counter and the files it has still to send. `Caps` has memory, mirror and one warming
thread per URL, which reads the mirror, changes it and replaces it in separate steps. `Bundle` has
version numbers for contents; `home` tells seeded, half-copied and the agent's own. `Knowledge` has a
transaction per request with the row lock of the upsert. `Catalogue` has a draft, the checks as
operators (`FallbacksResolve`, `ScopesHoldFallbacks`, ...), a deployment of what passes and a request
that falls back. `RoomLayout` and `Bootstrap` follow their script's order with a failure at each
request. `Dashboard` has the cursor and the line height of the script, and any list of its kinds of panel. `Campaign` has the lane's, Flux's and the bench pod's state and a signal at any step, in the
restore too. `Bench` chooses freely how many tokens the server counts in each prefix: a count may fall
where a cut word is completed. `Shards` and `Downloads` have a disk that may lose what was not synced.

## 3. The runs

All bounds are CONSTANTS of the instance. `CHECK_DEADLOCK FALSE` everywhere: a bounded instance of these
programs does come to rest, with everything merged, sent or used up.

| Run | Instance | What it shows |
|---|---|---|
| `DeliveryReplan` | one approval at a time, two versions (two items, then one), edits, reopening, pauses and resumes | `CompletedIsWhole`, through replans and resumes; `NoDispatchAhead` |
| `DeliveryRetry` | two racing approvals of two items, two attempts, cancel, fairness | `MergedForReal`, `OneLivePerVersion`, `Progress`, `ImplementsSerial`, `MergeSettles` |
| `Reconciler` | four messages, two versions, four planner turns, one crash; one plan and deliverable, one event of traffic, two attempts, cap of two turns, one crash; a plan with two issues, two faults; fairness | `NoEndlessGate`, `DraftsKept`, `StopEndsResearch`, `ResearchSettles`; `EventsAccounted` with replays, `EventSettles`, `TurnResolvesRunnable`; `EndedIsClosed` |
| `Requests` | see below; no fairness | types; `AnsweredIsRecorded`, `OneMessageOnePlan`, `OneIssueEach`, `MergedWasReviewed`, `WokenUnlessCrashed`, `SaidOnce` |
| `Programs` | see below; no fairness | types; `FinalClosesThread`, `RestoredAtEnd`, `VerifiedIsWhole`, `CompletedIsWritten`, `StoredIsWhole`, `ServedInScope`, `CleanRunLaysOut`, `FitFindsCrossing`, `AgentOwns`, `BoardIsReadable` |
| `Channels` | see below; fairness | `RoomIsFaithful`, `StoppedIsAuto`, `MessagesFlow`, `StoredIsPublished`, `HotGetsFull`, `WrittenIsDelivered`, `AskedGetsKnown` |

Why the bounds are enough:

* *Delivery*: order and completion relate two rows, so two deliverables show a violation if there is one
  (and the theorems hold for any number); two versions are the least with an edit between approval and
  dispatch, and the second being shorter reaches positions beyond the checklist; two attempts are the
  least with a retry; two approvals the least that race. What the two instances do not combine (a replan
  with a retry, a pause with racing approvals) the theorems cover, except for `MergeSettles`. The crash
  is not bounded.
* *Intake*: four messages are a plan, a draft, a comment and a revision, after which a late synthesis of
  the first round reaches the third; the third question needs six turns (`Cap` = 6 shows it, on a
  million states), and `NoEndlessGate` is proved for all. One crash is enough because a restart leaves
  nothing but rows.
* *Queue*: two attempts and a cap of two show replay, give-up and cap in one run; batches of one and of
  two events both occur. `Reconciler` has a crash and no owner's commands, `Requests` has the commands
  and no crash, because `WokenUnlessCrashed` is a promise to a process that lives.
* *Requests*: three deliveries in two threads are an edit, an approval and something between them; three
  messages are a plan, another one and a command about either; checklists of two and three items with a
  nested one, three faults in one approval; two commits, two reviews and a quorum of two; two ids of
  calls and two rounds, with two attempts.
* *Programs*: two units, requests, threads or campaigns are the least that interleave, two interruptions
  the least that hit a run and the run that repeats it; contents of one, three and five characters with
  pieces of three make one and two pieces, the first content one that ends where a piece does; three
  ranges and two threads leave one waiting; every tokenizer of a corpus of a few lengths, counts that fall
  included; four panels fill a line and begin the next one, under a row
  and without one, besides the script's own board.
* *Channels*: two threads show the card race; a poll takes two rows, so that the pin and the unpin of one
  plan, failing, fill it; two events of `Notify` with a timer show a file that two
  processes send; two URLs share a mirror. The scouts run without faults and their phase in progress is
  not told from the one before (`UnderWay` = {}), which their liveness does not depend on; `Programs`
  has their faults.

No symmetry is used. The compositions have one initial state for a part that is not chosen, so that
their states are the sum and not the product of the parts'.

### Disagreements between the code and its documents

Six runs expect a violation; each checks a sentence of the repository.

| Run | The sentence | What happens |
|---|---|---|
| `StuckMerge` | `matrix.py:518`: a reviewed SHA advances to its merge | an immediate merge has no uuid; a crash before `finish_merge` leaves a row that no pass looks at |
| `InterruptedTurn` | `state.py:308`: an interrupted turn is replayed | a turn that a crash interrupted stays `running`: running turns are reset only by a migration of schemas before version 11 |
| `StalledByPins` | `cogito_bot.py:122`: a pin never stalls the messages queued behind it | a pin that fails stays pending, and a poll takes the oldest pending rows, 20 at most (`cogito_bot.py:109`, `state.py:1104`): as many failing pins as that fill every poll. The run has a poll of two, the pin and the unpin of one plan, and the card of another that is never sent |
| `FrozenApproval` | `core.py:36`: an approved plan is immutable; `RUNBOOK.md:38`: approval freezes the current hash | a revision is checked, published and only then recorded; a webhook approves the current version in between, and the plan is back in review at a version that nobody approved |
| `DuplicateIssues` | `plans/archive/matrix_development_coordination.md:181`: duplicate deliveries must not create duplicate issues | `begin_action` refuses a completed action only; two approvals of one version list the issues before either has created one, and both create all |
| `CrdsBeforeCharts` | `scripts/bootstrap-apps.sh:87`: the definitions are applied before the charts are installed | `log fatal` prints and returns: `common.sh` knows no such level; the charts are synced without the definitions |

`ApprovedIsImmutable` is violated without a race too: `revise` looks at the comments and not at the
plan's state, so that of an approved plan may send out scouts, whose synthesis drafts. `OneIssueEach`
holds of any number of failed and repeated approvals one after the other (`Requests`), and fails for two
at once. The three liveness violations (`StuckMerge`, `InterruptedTurn`, `StalledByPins`) are under fair
specifications. `MessagesFlow` is what remains of the bot's sentence: a message is sent in the end if
again and again there is a poll that failing pins do not fill (`PinsFillPoll`).

`fit` looks for a prompt of a number of tokens by bisection, and the counts may fall as the prefix grows.
So it may miss a length that has exactly the tokens asked for: of the counts 2, 1, 3 it finds the 2 by
no probe, for it looks at the second length and then at the third. What it does promise is
`FitFindsCrossing`: the tokens asked for, or as near as both sides of a place where one more character
takes the count past them; and the number it reports is that of the prompt it returns, except for the
bare prefix, which it reports as 0 tokens without having counted it.

Met while modelling and no runs of their own (they stand with their hazards):

* A turn that began before a `stop` dispatches a Workload on its old copy of the plan row, and
  `register_workload` makes the plan `running`; `RUNBOOK.md:44` says that a stop cancels further
  orchestration.
* After a replan with more items, `approve` sets `decomposed`, then `register_deliverables` raises; the
  old rows are delivered and the plan completes; `RUNBOOK.md:59` says that a plan completes only after
  every approved PR merges.
* A pin that fails is skipped, the unpin behind it finds nothing and is acknowledged, and the next poll
  pins the finished plan's card, which `matrix.py:871` unpins.
* `services/gateway/README.md:11` permits two research rounds and `RUNBOOK.md:28` two rounds of
  questions. `NoEndlessGate` says three. The third round comes when a synthesis waits for the lock with
  the first round while the owner drafts, comments and revises; the third question when the process dies
  between recording the second and leaving research.

## 4. Fairness

* `PlanDelivery`: the loop never ends and catches what a pass raises, so the reconciler leaves each step
  (`Leave`, `EndTurn`: weak). `FinishMerge` and `PollMerge(p)` are strong: a crash or another row may
  disable them, but the loop comes back to every pending merge again and again. GitHub settles what it
  queued. Nothing is assumed of people, of Luna's choices, of approvals or of Foreman.
* `PlanIntake`: who holds the Matrix lock goes on, and so does the reconciler, whose scouts end (weak).
  The process dies a bounded number of times. Nothing is assumed of the owner, the planner's answers or
  GitHub.
* `LunaQueue`: a pass recovers and then claims, whatever else it does (`Recover`, `Claim`: strong), an
  event that is owed is written, a turn ends (in whatever way), delays end. `Dispatch` and `Retry` are
  *not* fair: `RunnableResolved` holds even of a Luna that never dispatches, because the cap is reached.
* `Closing`, `ScoutThreads`: the pass goes on (weak): each is a part of the loop. Nothing is assumed of
  Foreman, which may store a transcript late or never.
* `MatrixOutbox`: the bot does something for ever; sending and acknowledging do not fail for ever
  (strong). Pins may, and so `MessagesFlow` assumes that they do not fill every poll.
* `FanControl`: the loop goes on (weak). `Notify`: a process that runs goes on, and the timer starts the
  flush again (weak). `Caps`: requests keep asking and threads go on (weak). Refused sends, failed
  fetches and kills are bounded.

In `MCReconciler` and `MCChannels` the parts exclude each other. Each part keeps the fairness of its own
specification, stated for the behaviours of that part: where another one is chosen its actions are never
enabled.

## 5. The proofs

All liveness is left to TLC. Every proof assumes its module's named assumption on the constants and
nothing else. Every safety property of a passing run is a theorem, and so are the types of every module
(`SerialDelivery` is the abstraction, which `PlanDelivery` implements).

**`PlanDelivery_proofs`** (`PlanAssumption`: positive bounds, and every version has between 1 and
`MaxPosition` items; `Approvers` may be any set). `SerialOrder` is not inductive: `RegisterWorkload`
writes a row that the reconciler chose two steps before. The invariant must say that nobody has changed
it since:

    IInv = TypeOK
      /\ RowInv            -- rows name a workload of their position, are contiguous,
                              SerialOrder, MergedForReal
      /\ PullsFollowWork   -- no pull request before its workload has completed
      /\ ApprovalsCarryVersion
      /\ ThreadKnows       -- what each value of `step` implies of the row and the pull request:
                              in the merge path the row is the job's, `running` or `merge_pending`;
                              when a workload is created, its position is still the next one;
                              an outcome of "merged" is true on GitHub
      /\ CompletedIsWhole

It holds because request threads write rows only while there are none, so a row belongs to the
reconciler once it exists, and because a crash forgets the thread and not the row. `IInvStep` has one
step per action; frame lemmas (`RowFrame`, `ThreadFrame`, ...) dispose of the conjuncts an action does
not touch. `CompletedIsWhole` needs `NotYetCompleted`: while a row is not merged, neither the plan nor
its saved state is `completed`. `OneLivePerVersion` needs three more facts on top of `IInv` (`LiveInv`):
the workload of a row that is no longer running has ended (`WorkEnded`), no live workload is of a
version ahead of the plan's or of the dispatch in progress (`NotAhead`), and a live one of a version
that may still be dispatched is at the front of the rows (`AtFront`); so a dispatch that a crash
abandoned is found again under its name.

**`PlanIntake_proofs`** (`IntakeAssumption`: natural bounds, at least one scout) has five
inductive invariants. `Accounted`: the calls made and the reservations that a program counter still
holds never exceed the turns counted, so the cap bounds the calls. `Numbered`: versions are numbered by
their place and a number that was read is not ahead, so a draft that is written comes behind all others
(`WriteDraftAppends`). `Guarded`: who is at work under the lock holds it, and a plan under synthesis is
not a stopped one. `Gated`: while the owner's thread plans freely the count it made when it took the
lock still holds, a synthesis that plans freely is of the first round and began when there were at most
two, and so three rounds, and two questions besides that late synthesis', are the most there are.
The types rest on them: `Staged` (the program counters) holds by itself, and the bounds of the counts
(`Bounded`) follow from `Accounted`, `Numbered` and `Gated`.

**`ReviewGate_proofs`** (`GateAssumption`) has types, the numbering of commits and tasks, and three
facts that outlive the calls between which they were read: a commit that was seen green was green
(`GreenWasGreen`), reviews are of the commits and follow the coder tasks they name (`ReviewsFollow`), and
what the pass holds as its candidate has a quorum of reviews that were begun after its last push. The
branch may move on; that the merge is pinned to the commit is what carries the quorum over.

**`Requests_proofs`** has one invariant for each of its four modules:

* `Webhooks` (`HookInv`): a delivery that was admitted is recorded, at work, or was overtaken
  (`Settled`), and a handler at a step has done what its later steps take for done (`Promise`). A
  handler that raises forgets the identity it had admitted; that no two handlers have one delivery at
  once (`Handling`) is what makes this sound.
* `RoomCommands` (`RoomInv`): the plan that a message has touched, the one its handler has chosen and
  the one in the saved result are the same.
* `SubIssues` (`IssueInv`): every sub-issue carries the marker of its item, and the request has listed
  them all before it creates one. The theorem assumes that approvals are one after the other
  (`\A s, t \in Approvals : s = t`): for two at once the property is false (`DuplicateIssues`).
* `TurnTools`: a comment enters when the page that was read does not have it, and the page has all there
  are.

**The other three** carry one fact for each module, with the types it needs:

| Module | What the inductive invariant adds, and why it is needed |
|---|---|
| `LunaQueue` | an event is in one place (`Apart`) and the thread holds a running turn (`Held`): otherwise a claim could take an event that a turn has. For `WokenUnlessCrashed`, ids decide: an owner's promised event has an id that is not known (`Owes`), the recovery ids used are of runs up to the present one and the continuation ids of turns complete and over (`IdsUsed`), so the event a step queues is never taken for a duplicate; and a turn that ends at the cap leaves a plan that can be dispatched only when its owner's event is announced (`Waking`). Its types add that no row is attempted more often than `luna_max_attempts`, for which a pending one must be behind it (`QueueTypes`) |
| `Closing` | the key that is at GitHub is none of the complete ones, and no complete key's issue is open (`ClosedOnce`) |
| `MatrixOutbox` | what the bot has polled is a card, or its card is held for sent (`BatchIsDue`), and what it is about to acknowledge is in the room (`AckedIsWritten`). That a poll takes rows that are due needs that the n-th of finitely many numbers exists (`NthExists`). What the bot holds, writes or acknowledges is a row of the outbox (`NothingUnrecorded`), each row is there once wherever it was inserted (`RowsOnce`, `InsertAdds`), and a thread that writes a card's text has a state's (`TextIsState`) |
| `ScoutThreads` | a thread with a first event of a transcript has a stored transcript (`NoteIsStored`): so the pass that repeats the publishing finds it again |
| `FanControl` | the fans this controller does not drive are the firmware's (`OthersAreAuto`): the restore reaches only the driven ones. That the rounded curves stay in their range and never descend (`CurvesInRange`, `CurvesAscend`) is arithmetic, done for every temperature; with it, no card that is read gets less than it asks for (`HottestDecides`) |
| `Notify` | who is about to remove a file has had its event accepted, and a whole file was written once (`RemovedIsAccepted`): two flushes of one outbox then lose nothing (`WrittenIsKept`) |
| `Caps` | an endpoint that is not warmed again is being asked or is known (`WarmedIsKnown`): a failed fetch gives the endpoint back, and a restart forgets both at once |
| `Knowledge` | who is at work has a document and a content of it (`Requested`): one commit then replaces both tables |
| `Catalogue` | what was deployed was accepted (`Sound`), and a request is of a key that is rendered (`Keyed`): each fallback is one step of a checked list |
| `Bundle` | every unit has a place (`Housed`); the seeding writes only where there is none |
| `Bootstrap` | what the stages before have applied stays applied, and of the stage under way what it is not still to do (`Applied`) |
| `RoomLayout` | while the run is clean, the parts it is past are in place, the levels it is about to write fit, and who is neither welcome nor still to be looked at is out (`DoneSoFar`) |
| `Dashboard` | each panel placed ends above the line under way, or is on it and left of the cursor (`OnGrid`): what comes next is clear of all |
| `Downloads` | a listed range is done in this run and synced (`Running`), and the part is there with its list (`Parted`): what was lost by a power failure was not listed |
| `Campaign` | a restoring command that the script is past did its work or is listed as failed (`Tried`): no later command undoes it |
| `Shards` | the chunks of the copy and of the digest are in the places of the file or are bad, and the reads under way are of the chunks that follow (`InPlace`): a digest that is right is then the file's (`DigestOfSource`) |
| `Bench` | each bound of the search is an end of the corpus or stands next to a length that was probed, whose count is below the tokens asked for, or above them, and no nearer than the best one (`Bracketed`), and the best count is that of the best length (`NotedTogether`). Nothing is assumed of the counts: when the bounds have crossed, the two lengths are neighbours |

| Theorem | Property |
|---|---|
| `PlanDelivery_proofs!Invariance`, `TypeCorrect`, `SerialOrderHolds` | `IInv`, types, order of the rows |
| `MergedForRealHolds`, `CompletedIsWholeHolds`, `OneLivePerVersionHolds` | the invariants of the delivery runs |
| `NoDispatchAheadHolds`, `ProgressHolds` | the action properties, from `IInv` and who may write a row or create a workload |
| `Refinement` | `ImplementsSerial`: initial states map to initial states, every step to a step or a stutter (`StageStep`) |
| `PlanIntake_proofs!AstraBudgetHolds`, `DraftsKeptHolds`, `StopEndsResearchHolds`, `NoEndlessGateHolds` | the cap on the planner for every cap, and its properties in `Reconciler` for every number of messages, versions and crashes |
| `PlanIntake_proofs!IntakeTypeCorrect` | its types |
| `LunaQueue_proofs!EventsAccountedHolds`, `WokenUnlessCrashedHolds`, `QueueTypeCorrect` | `EventsAccounted` (`Reconciler` checks it of its instance of the queue), `WokenUnlessCrashed`, types |
| `ReviewGate_proofs!GateTypeCorrect`, `MergedWasReviewedHolds` | types, `MergedWasReviewed` |
| `Requests_proofs!AnsweredIsRecordedHolds`, `OneMessageOnePlanHolds`, `OneIssueEachHolds`, `SaidOnceHolds` | the invariants of `Requests` |
| `Requests_proofs!RequestsArePartsOf`, `RequestsTypeCorrect` | the composition is a behaviour of each part; `RequestsTypeOK` |
| `Channels_proofs!RoomIsFaithfulHolds`, `StoppedIsAutoHolds` | the invariants of `Channels` |
| `Channels_proofs!NothingUnrecordedHolds`, `HottestDecidesHolds`, `WrittenIsKeptHolds`, `WarmedIsKnownHolds`, `ClosedOnceHolds` | the safety that `MessagesFlow`, `HotGetsFull`, `WrittenIsDelivered`, `AskedGetsKnown` and `EndedIsClosed` rest on |
| `Channels_proofs!OutboxTypeCorrect`, `FanTypeCorrect`, `NotifyTypeCorrect`, `CapsTypeCorrect`, `ClosingTypeCorrect` | types |
| `Programs_proofs!FinalClosesThreadHolds`, `ServedInScopeHolds`, `StoredIsWholeHolds`, `AgentOwnsHolds`, `CleanRunLaysOutHolds`, `BoardIsReadableHolds` | the properties of `Programs` |
| `Programs_proofs!ChartsComeLastHolds` | the order of the bootstrap, which no run repeats |
| `Experiments_proofs!CompletedIsWrittenHolds`, `RestoredAtEndHolds`, `VerifiedIsWholeHolds`, `FitFindsCrossingHolds` | the properties of `Programs` |
| `Programs_proofs!ProgramsArePartsOf`, `ProgramsTypeCorrect` | the composition is a behaviour of each part; `ProgramsTypeOK`, from the types of the eleven parts |

**The compositions.** `RequestsTypeOK` and `ProgramsTypeOK` are about the specifications that the runs
check, in which one part moves and the others stay as they started. A behaviour of the composition is a
behaviour of every part (`RequestsArePartsOf`, `ProgramsArePartsOf`: its first states are, and a step of
it is a step of each part or leaves that part alone), so the types of the parts add up, and each part's
theorem holds of the composition as well.

Two assumptions the types need: a benchmark tries at least once to clear the cache (the code tries five
times) and a prefix with text has a token, and the repository has at least one version of the bundle (`BenchAssumption`,
`BundleAssumption`). Two types were corrected where the proof showed that they said too little: the
context of a manifest may be a deployed entry's own number of tokens (`Catalogue`), and the temporary file
of the capability mirror is a record (`Caps`).

Only model-checked: every liveness property (`MergeSettles`, `ResearchSettles`, `EventSettles`,
`TurnResolvesRunnable`, `EndedIsClosed`, `MessagesFlow`, `StoredIsPublished`, `HotGetsFull`,
`WrittenIsDelivered`, `AskedGetsKnown`), which is out of the prover's reach. `NothingUnrecorded`,
`HottestDecides`, `WrittenIsKept`, `WarmedIsKnown` and `ClosedOnce` are defined in the proof modules: they
are what those properties need to be safe from, and no run repeats them.

Induction over numbers is within reach where it is needed: every set of numbers has a least one
(`LeastNumber`, from the well-foundedness of the library). What a recursive function computes for every
input is not.

## 6. Not modelled

* Planner and model clients: requests to language models and decoding of their answers. Their content is
  arbitrary in every module and they keep no state. Immutable values and hashes: a version stands for
  its hash.
* Wording and layout of messages and issues, images and thread replies; signatures and parsing; metrics
  and the audit log as such.
* Pauses during intake; what users do to the issues of an ended plan; the status command, which only
  reads.
* The queries of the dashboards, `bulk_remove.py`, vendored communicators and wrappers, the programs that the
  campaigns measure.
* Manifests, patches and machine configuration: declarative, or changes to programs that are not in the
  repository.

Two hazards have no property, because it would be false by the mere timing the hazard names: a crash
between `fail_deliverable` and its event (`matrix.py:551`), after which Luna is not told of the failed
plan, and the echo of `request_replan` (`luna.py:425`), which takes away an approval given before it
arrives.

Unbounded things that the models bound: the traffic about a plan (steady traffic postpones its prompt
events without end, `state.py:300`), the comments of an issue (`github.py:284` lists the first 100
only), a poll of the outbox (20 rows, two in the runs).

## 7. Plan

1. Done: the gateway's modules and the programs above, their runs, and theorems for every safety
   property that a run checks and for the types of every module.
2. Proofs: the step lemmas behind the liveness properties, such as what each fair action makes less.
3. The composition of `PlanDelivery` with `LunaQueue`: which turns come, and what they do. Today a turn
   of `PlanDelivery` may begin in any coordinated state, which contains every behaviour of the
   composition; liveness of a whole plan would need it.
4. `deliverable_specs` as a function of the body's lines, against a reference definition; pauses in
   `PlanIntake`.
