----------------------------- MODULE ScoutThreads -----------------------------
(***************************************************************************)
(* The threads of the activity room: what the owner sees of a round of     *)
(* planning scouts.  The command that delegates the round announces each   *)
(* scout; the reconciler follows their tasks in Foreman, posts what        *)
(* changes, and closes each thread with the scout's transcript.  The       *)
(* planning room gets links to the threads.                                *)
(*                                                                         *)
(* Foreman is external: it may store a transcript long after it refers to  *)
(* it, or never.  A row of the outbox is inserted once and never changes.  *)
(***************************************************************************)
EXTENDS Naturals

CONSTANTS
  Scouts,          \* how many scouts the round has (1 to 4)
  UnderWay,        \* {"Running"}, or {} where a task at work counts as pending
  MaxScoutFaults   \* bound: failed calls and crashes, together

ASSUME ScoutAssumption ==
  Scouts \in 1..4 /\ UnderWay \subseteq {"Running"} /\ MaxScoutFaults \in Nat

Positions == 1..Scouts
Ended == {"Succeeded"}   \* a failed scout is treated as a successful one
Phases == {"Pending"} \union UnderWay \union Ended

VARIABLES
  task,        \* external: phase of the task, "none" before it is created
  transcript,  \* external: "none", "named" in the status, or "stored"
  run,         \* plan_research: the phase last seen
  registered,  \* whether register_research committed
  researching, \* whether the plan is in state researching
  next,        \* the command: the announcement it makes next; 0 when it is done
  thread,      \* matrix_outbox: the rows of each thread
  statuses,    \* matrix_outbox: the status rows
  shown,       \* roots with a sent_event_id
  links,       \* matrix_outbox: the row with the links
  pass,        \* the reconciler, [pc, i, trace]
  scoutFaults  \* faults so far

threadVars == <<thread, statuses, links>>
scoutVars  == <<task, transcript, run, registered, researching, next,
                threadVars, shown, pass, scoutFaults>>

NoPass == [pc |-> "idle", i |-> 0, trace |-> "-"]
NoRows == [root |-> FALSE, queued |-> FALSE, first |-> "-", second |-> FALSE, final |-> FALSE]

ScoutTypeOK ==
  /\ task \in [Positions -> {"none"} \union Phases]
  /\ transcript \in [Positions -> {"none", "named", "stored"}]
  /\ run \in [Positions -> Phases]
  /\ registered \in BOOLEAN /\ researching \in BOOLEAN
  /\ next \in 0..(2 * Scouts)
  /\ thread \in [Positions -> [root : BOOLEAN, queued : BOOLEAN, second : BOOLEAN,
                               final : BOOLEAN, first : {"-", "note", "undecodable"}]]
  /\ statuses \subseteq Positions \X Phases
  /\ shown \subseteq Positions
  /\ links \in BOOLEAN
  /\ pass \in [pc : {"idle", "poll", "status", "publish", "first", "second", "final", "link"},
               i : 0..(Scouts + 1), trace : {"-", "note", "undecodable"}]
  /\ scoutFaults \in 0..MaxScoutFaults

ScoutInit ==
  /\ task = [i \in Positions |-> "none"] /\ transcript = [i \in Positions |-> "none"]
  /\ run = [i \in Positions |-> "Pending"]
  /\ registered = FALSE /\ researching = FALSE /\ next = 0
  /\ thread = [i \in Positions |-> NoRows] /\ statuses = {} /\ shown = {} /\ links = FALSE
  /\ pass = NoPass /\ scoutFaults = 0

-----------------------------------------------------------------------------
(* Foreman, the owner and the bot. *)

TaskMoves(i, phase) ==
  /\ \/ task[i] = "Pending" /\ phase \in UnderWay
     \/ task[i] \in {"Pending"} \union UnderWay /\ phase \in Ended
  /\ task' = [task EXCEPT ![i] = phase]
  /\ UNCHANGED <<transcript, run, registered, researching, next, threadVars, shown, pass, scoutFaults>>

TranscriptMoves(i) ==
  /\ task[i] \in Ended
  /\ \/ transcript[i] = "none" /\ transcript' = [transcript EXCEPT ![i] = "named"]
     \/ transcript[i] = "named" /\ transcript' = [transcript EXCEPT ![i] = "stored"]
  /\ UNCHANGED <<task, run, registered, researching, next, threadVars, shown, pass, scoutFaults>>

\* The plan leaves the state researching: it is drafted or stopped.
ResearchStops ==
  /\ researching /\ researching' = FALSE
  /\ UNCHANGED <<task, transcript, run, registered, next, threadVars, shown, pass, scoutFaults>>

RootIsSent(i) ==
  /\ thread[i].root /\ shown' = shown \union {i}
  /\ UNCHANGED <<task, transcript, run, registered, researching, next, threadVars, pass, scoutFaults>>

-----------------------------------------------------------------------------
(* The command that delegates. *)

Delegate ==
  /\ ~registered /\ registered' = TRUE
  /\ researching' = TRUE /\ next' = 1
  /\ UNCHANGED <<task, transcript, run, threadVars, shown, pass, scoutFaults>>

\* _enqueue_research_threads: a root and "Queued" for each scout.
Announce ==
  LET i == (next + 1) \div 2
  IN /\ next # 0
     /\ thread' = IF next % 2 = 1 THEN [thread EXCEPT ![i].root = TRUE]
                  ELSE [thread EXCEPT ![i].queued = TRUE]
     /\ next' = IF next = 2 * Scouts THEN 0 ELSE next + 1
     /\ UNCHANGED <<task, transcript, run, registered, researching, statuses, links,
                    shown, pass, scoutFaults>>

-----------------------------------------------------------------------------
(* reconcile_once, as far as research goes. *)

PassGoes(pc, i) == pass' = [pc |-> pc, i |-> i, trace |-> "-"]

BeginPass ==
  /\ pass = NoPass /\ registered
  /\ PassGoes("poll", 1)
  /\ UNCHANGED <<task, transcript, run, registered, researching, next, threadVars, shown, scoutFaults>>

\* The task is created while its row is pending and read otherwise; what
\* changed is saved, and posted in the next step.
PollTask ==
  LET i == pass.i
  IN /\ pass.pc = "poll"
     /\ IF i > Scouts THEN PassGoes("publish", 1) /\ UNCHANGED <<task, run>>
        ELSE IF ~researching \/ run[i] \in Ended
        THEN PassGoes("poll", i + 1) /\ UNCHANGED <<task, run>>
        ELSE /\ task' = [task EXCEPT ![i] = IF @ = "none" THEN "Pending" ELSE @]
             /\ run' = [run EXCEPT ![i] = task'[i]]
             /\ IF run'[i] # run[i] THEN PassGoes("status", i) ELSE PassGoes("poll", i + 1)
     /\ UNCHANGED <<transcript, registered, researching, next, threadVars, shown, scoutFaults>>

PostStatus ==
  /\ pass.pc = "status"
  /\ statuses' = statuses \union {<<pass.i, run[pass.i]>>}
  /\ PassGoes("poll", pass.i + 1)
  /\ UNCHANGED <<task, transcript, run, registered, researching, next, thread, links, shown, scoutFaults>>

Unpublished(i) == run[i] \in Ended /\ thread[i].root /\ ~thread[i].final

\* Mutant: a transcript that is not there ends the loop.
PublishUntilMissing ==
  LET i == pass.i
  IN /\ pass.pc = "publish"
     /\ IF i > Scouts THEN PassGoes("link", 0)
        ELSE IF ~Unpublished(i) THEN PassGoes("publish", i + 1)
        ELSE IF transcript[i] = "named" THEN PassGoes("link", 0)
        ELSE pass' = [pc |-> "first", i |-> i,
                      trace |-> IF transcript[i] = "stored" THEN "note" ELSE "undecodable"]
     /\ UNCHANGED <<task, transcript, run, registered, researching, next, threadVars, shown, scoutFaults>>

\* _publish_terminal_research: a transcript that is named and not stored is
\* left for another pass; one that is not named cannot be decoded.
PublishEnded ==
  LET i == pass.i
  IN /\ pass.pc = "publish"
     /\ IF i > Scouts THEN PassGoes("link", 0)
        ELSE IF ~Unpublished(i) \/ transcript[i] = "named" THEN PassGoes("publish", i + 1)
        ELSE pass' = [pc |-> "first", i |-> i,
                      trace |-> IF transcript[i] = "stored" THEN "note" ELSE "undecodable"]
     /\ UNCHANGED <<task, transcript, run, registered, researching, next, threadVars, shown, scoutFaults>>

\* Mutant: the thread is closed before its transcript is posted.
TraceLast ==
  LET i == pass.i
      Row(r) == thread' = [thread EXCEPT ![i] = r]
  IN /\ \/ /\ pass.pc = "first"
           /\ Row([thread[i] EXCEPT !.final = TRUE])
           /\ pass' = [pass EXCEPT !.pc = "second"]
        \/ /\ pass.pc = "second"
           /\ Row([thread[i] EXCEPT !.first = IF @ = "-" THEN pass.trace ELSE @,
                                    !.second = @ \/ pass.trace = "note"])
           /\ PassGoes("publish", i + 1)
     /\ UNCHANGED <<task, transcript, run, registered, researching, next, statuses, links,
                    shown, scoutFaults>>

\* The events of the transcript, by number, and the final summary.
Trace ==
  LET i == pass.i
      Row(r) == thread' = [thread EXCEPT ![i] = r]
  IN /\ \/ /\ pass.pc = "first"
           /\ Row([thread[i] EXCEPT !.first = IF @ = "-" THEN pass.trace ELSE @])
           /\ pass' = [pass EXCEPT !.pc = IF pass.trace = "note" THEN "second" ELSE "final"]
        \/ /\ pass.pc = "second"
           /\ Row([thread[i] EXCEPT !.second = TRUE])
           /\ pass' = [pass EXCEPT !.pc = "final"]
        \/ /\ pass.pc = "final"
           /\ Row([thread[i] EXCEPT !.final = TRUE])
           /\ PassGoes("publish", i + 1)
     /\ UNCHANGED <<task, transcript, run, registered, researching, next, statuses, links,
                    shown, scoutFaults>>

\* _announce_research_links: once every root of the round is in the room.
AnnounceLinks ==
  /\ pass.pc = "link"
  /\ links' = (links \/ shown = Positions)
  /\ pass' = NoPass
  /\ UNCHANGED <<task, transcript, run, registered, researching, next, thread, statuses, shown, scoutFaults>>

\* A call of Foreman fails: the pass ends, or the scout is left for another one.
CallOfForemanFails ==
  /\ scoutFaults < MaxScoutFaults /\ scoutFaults' = scoutFaults + 1
  /\ \/ pass.pc = "poll" /\ pass' = NoPass
     \/ pass.pc = "publish" /\ pass.i <= Scouts /\ PassGoes("publish", pass.i + 1)
  /\ UNCHANGED <<task, transcript, run, registered, researching, next, threadVars, shown>>

ScoutCrash ==
  /\ scoutFaults < MaxScoutFaults /\ scoutFaults' = scoutFaults + 1
  /\ next' = 0 /\ pass' = NoPass
  /\ UNCHANGED <<task, transcript, run, registered, researching, threadVars, shown>>

Reconciles == BeginPass \/ PollTask \/ PostStatus \/ PublishEnded \/ Trace \/ AnnounceLinks

ScoutNext ==
  \/ \E i \in Positions, phase \in UnderWay \union Ended : TaskMoves(i, phase)
  \/ \E i \in Positions : TranscriptMoves(i)
  \/ ResearchStops
  \/ \E i \in Positions : RootIsSent(i)
  \/ Delegate
  \/ Announce
  \/ Reconciles
  \/ CallOfForemanFails
  \/ ScoutCrash

ScoutSpec == ScoutInit /\ [][ScoutNext]_scoutVars
ScoutFairSpec == ScoutSpec /\ WF_scoutVars(Reconciles)

-----------------------------------------------------------------------------
(* Properties. *)

\* A closed thread has its transcript, all of it or the note that there was
\* none, although the gateway may crash between any two rows: the final row
\* is what stops the publishing from being repeated.
FinalClosesThread ==
  \A i \in Positions : thread[i].final =>
    thread[i].first # "-" /\ (thread[i].first = "note" => thread[i].second)

\* A scout whose transcript is stored gets it published, whatever becomes of
\* the other scouts' transcripts, as long as passes go on: there always comes a
\* time when no stored transcript is missing from its thread.
StoredIsPublished ==
  []<>(\A i \in Positions : ~(Unpublished(i) /\ transcript[i] = "stored"))
=============================================================================
