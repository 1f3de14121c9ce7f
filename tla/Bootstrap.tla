------------------------------- MODULE Bootstrap -------------------------------
(***************************************************************************)
(* scripts/bootstrap-apps.sh: what is put into a new cluster before Flux   *)
(* takes over: namespaces, secrets, custom resource definitions and the    *)
(* first charts, in this order.  The script may be interrupted and run     *)
(* again; each step looks at what is there already.                        *)
(*                                                                         *)
(* External: the cluster, whose nodes come and go, and the operator, who   *)
(* starts the script and adds files that were missing.                     *)
(***************************************************************************)
EXTENDS Naturals, FiniteSets

CONSTANTS
  Namespaces,   \* the directories of kubernetes/apps
  Secrets,      \* the three files of apply_sops_secrets
  MaxRuns,      \* bound: runs of the script
  MaxBootFaults \* bound: failed calls and interruptions

ASSUME BootstrapAssumption == {MaxRuns, MaxBootFaults} \subseteq Nat

VARIABLES
  nodes,     \* the nodes' conditions: "away", "joined" (Ready=False), "mixed", "ready"
  files,     \* the files of secrets that are there
  cluster,   \* what is applied: namespaces, secrets, "crds", "charts"
  stage,     \* where the script is, or "down"
  left,      \* what is left of the loop of a stage
  bootStatus,     \* how the last run ended: "none", "failed", "congrats"
  runs, bootFaults

bootVars == <<nodes, files, cluster, stage, left, bootStatus, runs, bootFaults>>

BootTypeOK ==
  /\ nodes \in {"away", "joined", "mixed", "ready"}
  /\ files \subseteq Secrets
  /\ cluster \subseteq Namespaces \union Secrets \union {"crds", "charts"}
  /\ stage \in {"down", "checks", "wait", "unready", "namespaces", "secrets", "crds", "charts"}
  /\ left \subseteq Namespaces \union Secrets
  /\ bootStatus \in {"none", "failed", "congrats"}
  /\ runs \in 0..MaxRuns /\ bootFaults \in 0..MaxBootFaults

BootInit ==
  /\ nodes = "away" /\ files \in SUBSET Secrets
  /\ cluster = {} /\ stage = "down" /\ left = {} /\ bootStatus = "none"
  /\ runs = 0 /\ bootFaults = 0

-----------------------------------------------------------------------------
(* The world. *)

NodesChange ==
  /\ nodes' \in {"away", "joined", "mixed", "ready"} \ {nodes}
  /\ UNCHANGED <<files, cluster, stage, left, bootStatus, runs, bootFaults>>

AddsFile ==
  /\ stage = "down" /\ files # Secrets /\ files' = Secrets
  /\ UNCHANGED <<nodes, cluster, stage, left, bootStatus, runs, bootFaults>>

StartsScript ==
  /\ stage = "down" /\ runs < MaxRuns /\ runs' = runs + 1
  /\ stage' = "checks" /\ bootStatus' = "none"
  /\ UNCHANGED <<nodes, files, cluster, left, bootFaults>>

\* What a run that ended left unfinished is no part of the next.
BootEnds(how) == stage' = "down" /\ left' = {} /\ bootStatus' = how

BootInterrupted ==
  /\ stage # "down" /\ bootFaults < MaxBootFaults /\ bootFaults' = bootFaults + 1
  /\ BootEnds("failed") /\ UNCHANGED <<nodes, files, cluster, runs>>

-----------------------------------------------------------------------------
(* log. *)

\* Only the level "error" exits.
Errors == BootEnds("failed")

\* "fatal" is no level of log: it is printed, and the script goes on.
Fatal(next) == stage' = next /\ left' = {}

-----------------------------------------------------------------------------
(* The stages. *)

Fault == bootFaults < MaxBootFaults /\ bootFaults' = bootFaults + 1

\* check_env and check_cli.
Checks ==
  /\ stage = "checks"
  /\ \/ stage' = "wait" /\ UNCHANGED <<left, bootStatus, bootFaults>>
     \/ Fault /\ Errors
  /\ UNCHANGED <<nodes, files, cluster, runs>>

\* All nodes ready ends the wait at once; otherwise only all nodes unready does.
Waits ==
  /\ \/ stage = "wait" /\ nodes = "ready" /\ stage' = "namespaces" /\ left' = Namespaces
     \/ stage = "wait" /\ nodes # "ready" /\ stage' = "unready" /\ UNCHANGED left
     \/ stage = "unready" /\ nodes = "joined" /\ stage' = "namespaces" /\ left' = Namespaces
  /\ UNCHANGED <<nodes, files, cluster, bootStatus, runs, bootFaults>>

\* Each namespace is looked for and created.
AppliesNamespace(n) ==
  /\ stage = "namespaces" /\ n \in left
  /\ \/ /\ cluster' = cluster \union {n} /\ left' = left \ {n}
        /\ UNCHANGED <<stage, bootStatus, bootFaults>>
     \/ /\ n \notin cluster /\ Fault /\ Errors /\ UNCHANGED cluster
  /\ UNCHANGED <<nodes, files, runs>>

\* A secret's file that is not there is passed over.
AppliesSecret(s) ==
  /\ stage = "secrets" /\ s \in left
  /\ \/ /\ cluster' = IF s \in files THEN cluster \union {s} ELSE cluster
        /\ left' = left \ {s} /\ UNCHANGED <<stage, bootStatus, bootFaults>>
     \/ /\ s \in files \ cluster /\ Fault /\ Errors /\ UNCHANGED cluster
  /\ UNCHANGED <<nodes, files, runs>>

LoopEnds ==
  /\ left = {}
  /\ \/ stage = "namespaces" /\ stage' = "secrets" /\ left' = Secrets
     \/ stage = "secrets" /\ stage' = "crds" /\ UNCHANGED left
  /\ UNCHANGED <<nodes, files, cluster, bootStatus, runs, bootFaults>>

\* The definitions are rendered, compared with the cluster's and applied; that
\* their file is missing, renders nothing or is not applied is "fatal".
AppliesCrds ==
  /\ stage = "crds"
  /\ \/ /\ cluster' = cluster \union {"crds"}
        /\ stage' = "charts" /\ UNCHANGED <<left, bootFaults>>
     \/ Fault /\ Fatal("charts") /\ UNCHANGED cluster
  /\ UNCHANGED <<nodes, files, bootStatus, runs>>

SyncsCharts ==
  /\ stage = "charts"
  /\ \/ cluster' = cluster \union {"charts"} /\ BootEnds("congrats") /\ UNCHANGED bootFaults
     \/ Fault /\ Errors /\ UNCHANGED cluster
  /\ UNCHANGED <<nodes, files, runs>>

BootNext ==
  \/ NodesChange \/ AddsFile \/ StartsScript \/ BootInterrupted
  \/ Checks \/ Waits
  \/ \E n \in Namespaces : AppliesNamespace(n)
  \/ \E s \in Secrets : AppliesSecret(s)
  \/ LoopEnds \/ AppliesCrds \/ SyncsCharts

BootSpec == BootInit /\ [][BootNext]_bootVars

-----------------------------------------------------------------------------
(* Properties. *)

\* "Namespaces to be applied before the SOPS secrets are installed", and those
\* "before the helmfile charts": when the charts are synced, every namespace and
\* every secret whose file is there is in the cluster, whatever failed or was
\* interrupted in this run or an earlier one.
ChartsComeLast ==
  [][stage = "charts" /\ bootStatus' = "congrats" => Namespaces \union files \subseteq cluster]_bootVars

\* "CRDs to be applied before the helmfile charts are installed" (the code's
\* comment): charts are synced only to a cluster that has the definitions.
CrdsBeforeCharts == "charts" \in cluster => "crds" \in cluster
=============================================================================
