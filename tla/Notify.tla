-------------------------------- MODULE Notify --------------------------------
(***************************************************************************)
(* agent-notify.sh: an event is written to an outbox directory, then the   *)
(* whole directory is sent in the order of the file names; a file is       *)
(* removed once ntfy has accepted it.  Several agents publish at once and  *)
(* a timer flushes, without a lock.  Each event has an id of its own, and  *)
(* the ids are numbered in the order of their names.  ntfy is external.    *)
(***************************************************************************)
EXTENDS Naturals

CONSTANTS
  Events,          \* the publishers, and the ids of their events
  MaxNotifyFaults  \* bound: refused sends and killed processes, together

ASSUME NotifyAssumption == Events \subseteq Nat \ {0} /\ MaxNotifyFaults \in Nat

TIMER == 0         \* the job that runs agent-notify.sh --flush, again and again
Processes == Events \union {TIMER}

VARIABLES
  file,        \* the outbox: each event's file is "none", "half" or "full"
  proc,        \* each process: [pc, todo]; todo is what is left of its glob
  accepted,    \* external: the events that ntfy accepted
  written,     \* history: the events whose file was complete
  notifyFaults \* faults so far

notifyVars == <<file, proc, accepted, written, notifyFaults>>

NotifyTypeOK ==
  /\ file \in [Events -> {"none", "half", "full"}]
  /\ proc \in [Processes -> [pc : {"ready", "writing", "flush", "send", "rm", "gone"}, todo : SUBSET Events]]
  /\ accepted \subseteq written /\ written \subseteq Events
  /\ notifyFaults \in 0..MaxNotifyFaults

NotifyInit ==
  /\ file = [e \in Events |-> "none"]
  /\ proc = [p \in Processes |-> [pc |-> IF p = TIMER THEN "flush" ELSE "ready", todo |-> {}]]
  /\ accepted = {} /\ written = {} /\ notifyFaults = 0

NotifyGoes(p, pc, todo) == proc' = [proc EXCEPT ![p] = [pc |-> pc, todo |-> todo]]
NotifyFault == notifyFaults < MaxNotifyFaults /\ notifyFaults' = notifyFaults + 1
FirstOf(p) == CHOOSE e \in proc[p].todo : \A d \in proc[p].todo : e <= d

\* The publisher opens its file, then jq writes the event in it.
Publishes(p) ==
  /\ p \in Events
  /\ \/ /\ proc[p].pc = "ready"
        /\ file' = [file EXCEPT ![p] = "half"] /\ NotifyGoes(p, "writing", {}) /\ UNCHANGED written
     \/ /\ proc[p].pc = "writing"
        /\ file' = [file EXCEPT ![p] = "full"] /\ written' = written \union {p}
        /\ NotifyGoes(p, "flush", {})
  /\ UNCHANGED <<accepted, notifyFaults>>

\* flush_outbox: the names are listed once.
ListsOutbox(p) ==
  /\ proc[p].pc = "flush"
  /\ NotifyGoes(p, "send", {e \in Events : file[e] # "none"})
  /\ UNCHANGED <<file, accepted, written, notifyFaults>>

\* The publisher is done; the timer starts another flush.
FlushEnds(p) == NotifyGoes(p, IF p = TIMER THEN "flush" ELSE "gone", {})

\* Mutant: a send that fails does not end the flush, and its file is removed.
RemovesUnsent(p) ==
  /\ proc[p].pc = "send"
  /\ IF proc[p].todo = {} THEN FlushEnds(p) /\ UNCHANGED <<accepted, notifyFaults>>
     ELSE \/ file[FirstOf(p)] = "full" /\ accepted' = accepted \union {FirstOf(p)}
             /\ NotifyGoes(p, "rm", proc[p].todo) /\ UNCHANGED notifyFaults
          \/ file[FirstOf(p)] = "full" /\ NotifyFault /\ NotifyGoes(p, "rm", proc[p].todo) /\ UNCHANGED accepted
          \/ file[FirstOf(p)] # "full" /\ FlushEnds(p) /\ UNCHANGED <<accepted, notifyFaults>>
  /\ UNCHANGED <<file, written>>

\* send_file: what jq cannot read is sent to no topic and refused; a refusal
\* or a lost answer ends the flush.
Sends(p) ==
  /\ proc[p].pc = "send"
  /\ IF proc[p].todo = {} THEN FlushEnds(p) /\ UNCHANGED <<accepted, notifyFaults>>
     ELSE \/ file[FirstOf(p)] = "full" /\ accepted' = accepted \union {FirstOf(p)}
             /\ NotifyGoes(p, "rm", proc[p].todo) /\ UNCHANGED notifyFaults
          \/ file[FirstOf(p)] = "full" /\ NotifyFault /\ FlushEnds(p)
             /\ accepted' \in {accepted, accepted \union {FirstOf(p)}}
          \/ file[FirstOf(p)] # "full" /\ FlushEnds(p) /\ UNCHANGED <<accepted, notifyFaults>>
  /\ UNCHANGED <<file, written>>

\* rm of a file that another process removed fails: it ends the timer's flush
\* (set -e), not the publisher's, which runs as a condition.
Removes(p) ==
  LET e == FirstOf(p)
  IN /\ proc[p].pc = "rm"
     /\ file' = [file EXCEPT ![e] = "none"]
     /\ IF file[e] = "none" /\ p = TIMER THEN FlushEnds(p) ELSE NotifyGoes(p, "send", proc[p].todo \ {e})
     /\ UNCHANGED <<accepted, written, notifyFaults>>

\* A publisher is killed; a flush of the timer is, and starts again later.
NotifyKilled(p) ==
  /\ proc[p].pc # "gone" /\ NotifyFault /\ FlushEnds(p)
  /\ UNCHANGED <<file, accepted, written>>

Flushes(p) == ListsOutbox(p) \/ Sends(p) \/ Removes(p)

NotifyNext == \E p \in Processes : Publishes(p) \/ Flushes(p) \/ NotifyKilled(p)

NotifySpec == NotifyInit /\ [][NotifyNext]_notifyVars
NotifyFairSpec ==
  NotifySpec /\ \A p \in Processes : WF_notifyVars(Publishes(p) /\ proc[p].pc = "writing") /\ WF_notifyVars(Flushes(p))

-----------------------------------------------------------------------------
(* Properties. *)

\* A file that its publisher left half written stays at the head of the queue.
Blocked == \E e \in Events : file[e] = "half" /\ proc[e].pc = "gone"

\* A complete event is accepted in the end: it is not lost to a refused send,
\* to a process that dies, nor to two processes that flush at once.
WrittenIsDelivered == \A e \in Events : (e \in written) ~> (e \in accepted \/ Blocked)
=============================================================================
