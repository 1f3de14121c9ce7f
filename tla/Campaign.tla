------------------------------- MODULE Campaign -------------------------------
(***************************************************************************)
(* The paired benchmarks of the serving lane: run-abba (two versions of    *)
(* the engine) and run-coupling (two settings of a flag, after a probe).   *)
(* A campaign takes the lane down, measures four fresh bench pods in the   *)
(* order A, B, B, A, and puts the lane back, whatever happened.            *)
(*                                                                         *)
(* Flux, the lane's operator and the scheduler are external: Flux reverts  *)
(* the lane's suspension unless its Kustomization is suspended too; the    *)
(* two cards go to the lane's pod or to the bench pod, never to both.      *)
(***************************************************************************)
EXTENDS Naturals, Sequences

CONSTANTS
  MaxCampaigns,   \* bound: campaigns started
  MaxCampFaults,  \* bound: failed commands
  MaxSignals      \* bound: SIGTERM or SIGINT received

ASSUME CampaignAssumption == {MaxCampaigns, MaxCampFaults, MaxSignals} \subseteq Nat

RUNS == <<"A", "B", "B", "A">>
Steps == DOMAIN RUNS
PROBE == 5
LEFT == 6     \* a bench pod that an earlier campaign left

Script == {"suspendKs", "suspendLane", "waitGone", "probeDelete", "probeApply", "probeRead",
           "probeClean", "delete", "apply", "ready", "suite"}
Restoring == {"rDelete", "rUnsuspend", "rResume", "rReconcile", "rWait"}

VARIABLES
  kind,       \* which script runs, "abba" or "coupling"
  campPc,     \* what it does next; "ended" when it does not run
  step,       \* the run of RUNS it is at
  results,    \* STATE["runs"]: for each run, the pod that was measured
  engaged,    \* whether the probe saw the flag engaged
  ks,         \* external: whether Flux's Kustomization is active
  suspended,  \* external: the lane's spec.suspend
  lane,       \* external: whether the lane's pod is there, and Ready
  bench,      \* external: the bench pod, [for, arm, ready]
  failed,     \* history: the restoring commands that failed
  cut,        \* history: a signal came while restoring
  campaigns, campFaults, signals   \* counters

world == <<ks, suspended, lane, bench>>
campVars == <<kind, campPc, step, results, engaged, world, failed, cut, campaigns, campFaults, signals>>

NoPod == [for |-> 0, arm |-> "-", ready |-> FALSE]

CampTypeOK ==
  /\ kind \in {"abba", "coupling"}
  /\ campPc \in Script \union Restoring \union {"ended"}
  /\ step \in 1..5
  /\ results \in Seq(Steps \union {PROBE, LEFT}) /\ Len(results) <= 4
  /\ engaged \in BOOLEAN
  /\ ks \in BOOLEAN /\ suspended \in BOOLEAN
  /\ lane \in {"none", "starting", "ready"}
  /\ bench \in [for : 0..6, arm : {"-", "A", "B"}, ready : BOOLEAN]
  /\ failed \subseteq Restoring /\ cut \in BOOLEAN
  /\ campaigns \in 0..MaxCampaigns /\ campFaults \in 0..MaxCampFaults /\ signals \in 0..MaxSignals

CampInit ==
  /\ kind \in {"abba", "coupling"} /\ campPc = "ended" /\ step = 1 /\ results = <<>>
  /\ engaged = FALSE /\ ks = TRUE /\ suspended = FALSE /\ lane = "ready"
  /\ bench \in {NoPod} \union [for : {LEFT}, arm : {"A", "B"}, ready : {FALSE}]
  /\ failed = {} /\ cut = FALSE /\ campaigns = 0 /\ campFaults = 0 /\ signals = 0

-----------------------------------------------------------------------------
(* The cluster. *)

FluxReconciles ==
  /\ ks /\ suspended' = FALSE
  /\ UNCHANGED <<kind, campPc, step, results, engaged, ks, lane, bench, failed, cut,
                 campaigns, campFaults, signals>>

OperatorActs ==
  /\ \/ suspended /\ lane' = "none"
     \/ ~suspended /\ lane = "none" /\ lane' = "starting"
     \/ lane = "starting" /\ bench = NoPod /\ lane' = "ready"
  /\ UNCHANGED <<kind, campPc, step, results, engaged, ks, suspended, bench, failed, cut,
                 campaigns, campFaults, signals>>

BenchStarts ==
  /\ bench # NoPod /\ lane # "ready"
  /\ bench' = [bench EXCEPT !.ready = TRUE]
  /\ UNCHANGED <<kind, campPc, step, results, engaged, ks, suspended, lane, failed, cut,
                 campaigns, campFaults, signals>>

-----------------------------------------------------------------------------
(* The script. *)

\* lane_pods of run-abba takes the bench pod for one of the lane's.
LanePods(k) == lane # "none" \/ (k = "abba" /\ bench # NoPod)
LaneReady(k) == lane = "ready" \/ (k = "abba" /\ bench.ready)

\* preflight: the lane serves, the specs differ by the flag alone.
Begin(k) ==
  /\ campPc = "ended" /\ campaigns < MaxCampaigns /\ campaigns' = campaigns + 1
  /\ kind' = k /\ LaneReady(k)
  /\ campPc' = "suspendKs" /\ step' = 1 /\ results' = <<>> /\ engaged' = FALSE
  /\ failed' = {} /\ cut' = FALSE
  /\ UNCHANGED <<world, campFaults, signals>>

\* A command at pc: it takes effect and the script goes on, or it fails, with
\* its effect or without, and the script goes where on says.
Command(pc, effect, on, otherwise) ==
  /\ campPc = pc
  /\ \/ effect /\ campPc' = on /\ UNCHANGED <<campFaults, failed>>
     \/ /\ campFaults < MaxCampFaults /\ campFaults' = campFaults + 1
        /\ effect \/ UNCHANGED world
        /\ campPc' = otherwise
        /\ failed' = IF pc \in Restoring THEN failed \union {pc} ELSE failed
  /\ UNCHANGED <<kind, step, results, cut, campaigns, signals>>

\* The commands on the cluster.
SetKs(v)        == ks' = v /\ UNCHANGED <<suspended, lane, bench>>
SetSuspended(v) == suspended' = v /\ UNCHANGED <<ks, lane, bench>>
DeleteBench     == bench' = NoPod /\ UNCHANGED <<ks, suspended, lane>>

\* kubectl apply: an existing pod of the same arm is left as it is; the image
\* of an existing pod can be changed, its arguments cannot.
ApplyBench(i, arm) ==
  /\ bench = NoPod \/ bench.arm = arm \/ kind = "abba"
  /\ bench' = IF bench = NoPod THEN [for |-> i, arm |-> arm, ready |-> FALSE]
              ELSE [bench EXCEPT !.arm = arm, !.ready = @ /\ bench.arm = arm]
  /\ UNCHANGED <<ks, suspended, lane>>

Suspends ==
  /\ \/ Command("suspendKs", SetKs(FALSE), "suspendLane", "rDelete")
     \/ Command("suspendLane", SetSuspended(TRUE), "waitGone", "rDelete")
     \/ Command("waitGone", ~LanePods(kind) /\ UNCHANGED world,
                IF kind = "abba" THEN "delete" ELSE "probeDelete", "rDelete")
  /\ UNCHANGED engaged

\* probe_coupling: the pod with the flag comes up and engages it, or refuses.
Probes ==
  \/ Command("probeDelete", DeleteBench, "probeApply", "rDelete") /\ UNCHANGED engaged
  \/ Command("probeApply", ApplyBench(PROBE, "B"), "probeRead", "rDelete") /\ UNCHANGED engaged
  \/ Command("probeRead", UNCHANGED world, "probeClean", "rDelete") /\ engaged' \in {FALSE, bench.ready}
  \/ Command("probeClean", DeleteBench, IF engaged THEN "delete" ELSE "rDelete",
             IF engaged THEN "delete" ELSE "rDelete") /\ UNCHANGED engaged

\* A fresh pod for each run.
Measures ==
  /\ \/ Command("delete", DeleteBench, "apply", "rDelete")
     \/ Command("apply", ApplyBench(step, RUNS[step]), "ready", "rDelete")
     \/ Command("ready", bench.ready /\ UNCHANGED world, "suite", "rDelete")
  /\ UNCHANGED engaged

\* run-profile.py measures the bench pod; a run that fails ends the campaign.
Suite ==
  /\ campPc = "suite"
  /\ \/ /\ bench # NoPod
        /\ results' = Append(results, bench.for) /\ step' = step + 1
        /\ campPc' = IF step = Len(RUNS) THEN "rDelete" ELSE "delete"
        /\ UNCHANGED campFaults
     \/ /\ campFaults < MaxCampFaults /\ campFaults' = campFaults + 1
        /\ campPc' = "rDelete" /\ UNCHANGED <<results, step>>
  /\ UNCHANGED <<kind, engaged, world, failed, cut, campaigns, signals>>

\* Mutant: a failing command of the restore ends it.
RestoresChecked ==
  /\ \/ Command("rDelete", DeleteBench, "rUnsuspend", "ended")
     \/ Command("rUnsuspend", SetSuspended(FALSE), "rResume", "ended")
     \/ Command("rResume", SetKs(TRUE), "rReconcile", "ended")
     \/ Command("rReconcile", SetSuspended(IF ks THEN FALSE ELSE suspended), "rWait", "ended")
     \/ Command("rWait", UNCHANGED world, "ended", "ended")
  /\ UNCHANGED engaged

\* restore, in the finally block: no command of it is checked, the last wait
\* may give up.
Restores ==
  /\ \/ Command("rDelete", DeleteBench, "rUnsuspend", "rUnsuspend")
     \/ Command("rUnsuspend", SetSuspended(FALSE), "rResume", "rResume")
     \/ Command("rResume", SetKs(TRUE), "rReconcile", "rReconcile")
     \/ Command("rReconcile", SetSuspended(IF ks THEN FALSE ELSE suspended), "rWait", "rWait")
     \/ Command("rWait", UNCHANGED world, "ended", "ended")
  /\ UNCHANGED engaged

\* The handler calls sys.exit wherever the script is: in the try block that
\* starts the restore, in the restore it ends it.
Signal ==
  /\ campPc # "ended" /\ signals < MaxSignals /\ signals' = signals + 1
  /\ campPc' = IF campPc \in Script THEN "rDelete" ELSE "ended"
  /\ cut' = (campPc \in Restoring)
  /\ UNCHANGED <<kind, step, results, engaged, world, failed, campaigns, campFaults>>

CampNext ==
  \/ FluxReconciles
  \/ OperatorActs
  \/ BenchStarts
  \/ \E k \in {"abba", "coupling"} : Begin(k)
  \/ Suspends
  \/ Probes
  \/ Measures
  \/ Suite
  \/ Restores
  \/ Signal

CampSpec == CampInit /\ [][CampNext]_campVars

-----------------------------------------------------------------------------
(* Properties. *)

\* However the campaign went, once it has ended the bench pod is gone, Flux
\* is active and the lane is not suspended; each of them fails only with the
\* command that restores it, and not with the commands before it.
RestoredAtEnd ==
  (campPc = "ended" /\ ~cut) =>
    /\ bench # NoPod => "rDelete" \in failed \/ campaigns = 0
    /\ ~ks => "rResume" \in failed
    /\ suspended => "rUnsuspend" \in failed

=============================================================================
