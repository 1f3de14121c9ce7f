-------------------------------- MODULE Bundle --------------------------------
(***************************************************************************)
(* The agent bundle of Hermes, from the repository to the agent's home.    *)
(* gen-bundle packs the tree into generated files and stamps a digest into *)
(* the pod's annotation; a published change of the annotation restarts the *)
(* pod; configure.py seeds the home before every start.  The agent owns    *)
(* the home afterwards.                                                    *)
(*                                                                         *)
(* Versions are numbers.  A unit of the bundle (a skill, a seed file) is   *)
(* absent from the home, partly copied, as some version seeded it, or as   *)
(* the agent left it.                                                      *)
(***************************************************************************)
EXTENDS Naturals

CONSTANTS
  Units,            \* the units of the bundle
  MaxTreeEdits,     \* bound: versions of the tree
  MaxAgentActs,     \* bound: edits and removals by the agent or the owner
  MaxBundleFaults   \* bound: crashes

ASSUME BundleAssumption ==
  MaxTreeEdits \in Nat \ {0} /\ {MaxAgentActs, MaxBundleFaults} \subseteq Nat

ABSENT == 0
Part(v) == 2 * v      \* version v, partly copied
Seed(v) == 2 * v + 1  \* version v
OWN == 1              \* the agent's

VARIABLES
  tree,       \* the repository: the version of agent-bundle/ and configure.py
  bundle,     \* the version in bundle.yaml and provider-bootstrap.yaml
  annotation, \* the version in the pod's annotation
  published,  \* what Flux applied: [bundle, annotation]
  stamp,      \* the home: .agent-bundle.sha256; 0 if there is none
  home,       \* the home: what is in the place of each unit
  cfgPc,      \* the pod: "down", "sync", "seed", "config" or "up"
  unitsLeft,       \* the units that sync_bundle has still to look at
  agentActs, bundleFaults   \* counters

repoVars == <<tree, bundle, annotation>>
bundleVars == <<repoVars, published, stamp, home, cfgPc, unitsLeft, agentActs, bundleFaults>>

BundleTypeOK ==
  /\ {tree, bundle, annotation, published.bundle, published.annotation, stamp} \subseteq 0..MaxTreeEdits
  /\ home \in [Units -> 0..(2 * MaxTreeEdits + 1)]
  /\ cfgPc \in {"down", "sync", "seed", "config", "up"} /\ unitsLeft \subseteq Units
  /\ agentActs \in 0..MaxAgentActs /\ bundleFaults \in 0..MaxBundleFaults

BundleInit ==
  /\ tree = 1 /\ bundle = 1 /\ annotation = 1 /\ published = [bundle |-> 1, annotation |-> 1]
  /\ stamp = 0 /\ home = [u \in Units |-> ABSENT] /\ cfgPc = "down" /\ unitsLeft = {}
  /\ agentActs = 0 /\ bundleFaults = 0

-----------------------------------------------------------------------------
(* The repository. *)

EditTree ==
  /\ tree < MaxTreeEdits /\ tree' = tree + 1
  /\ UNCHANGED <<bundle, annotation, published, stamp, home, cfgPc, unitsLeft, agentActs, bundleFaults>>

\* gen-bundle: the generated files first, the annotation last.
Generate ==
  /\ \/ bundle # tree /\ bundle' = tree /\ UNCHANGED annotation
     \/ annotation # bundle /\ annotation' = bundle /\ UNCHANGED bundle
  /\ UNCHANGED <<tree, published, stamp, home, cfgPc, unitsLeft, agentActs, bundleFaults>>

Fresh == bundle = tree /\ annotation = tree

\* Flux applies what was pushed; another annotation replaces the pod.
Publish ==
  /\ Fresh
  /\ published' = [bundle |-> bundle, annotation |-> annotation]
  /\ cfgPc' = IF annotation # published.annotation THEN "down" ELSE cfgPc
  /\ UNCHANGED <<repoVars, stamp, home, unitsLeft, agentActs, bundleFaults>>

-----------------------------------------------------------------------------
(* configure.py, before every start. *)

PodStarts ==
  /\ cfgPc = "down" /\ cfgPc' = "sync"
  /\ UNCHANGED <<repoVars, published, stamp, home, unitsLeft, agentActs, bundleFaults>>

\* A bundle that was merged before costs one hash.
SyncBundle ==
  /\ cfgPc = "sync"
  /\ IF stamp = published.bundle THEN cfgPc' = "config" /\ UNCHANGED unitsLeft
     ELSE cfgPc' = "seed" /\ unitsLeft' = Units
  /\ UNCHANGED <<repoVars, published, stamp, home, agentActs, bundleFaults>>

\* copytree and copyfile: the whole unit, or what a crash leaves of it.
Copies(u) ==
  \/ home' = [home EXCEPT ![u] = Seed(published.bundle)] /\ UNCHANGED <<cfgPc, bundleFaults>>
  \/ /\ bundleFaults < MaxBundleFaults /\ bundleFaults' = bundleFaults + 1
     /\ home' = [home EXCEPT ![u] = Part(published.bundle)] /\ cfgPc' = "down"

\* Mutant: a unit that is not the bundle's is copied over.
SeedStale(u) ==
  /\ cfgPc = "seed" /\ u \in unitsLeft /\ unitsLeft' = unitsLeft \ {u}
  /\ IF home[u] # Seed(published.bundle) THEN Copies(u) ELSE UNCHANGED <<home, cfgPc, bundleFaults>>
  /\ UNCHANGED <<repoVars, published, stamp, agentActs>>

\* A unit is copied where there is none.
SeedUnit(u) ==
  /\ cfgPc = "seed" /\ u \in unitsLeft /\ unitsLeft' = unitsLeft \ {u}
  /\ IF home[u] = ABSENT THEN Copies(u) ELSE UNCHANGED <<home, cfgPc, bundleFaults>>
  /\ UNCHANGED <<repoVars, published, stamp, agentActs>>

\* The stamp is written when every unit was looked at; then config.yaml is
\* rewritten as a whole, and the agent starts.
Finish ==
  /\ \/ cfgPc = "seed" /\ unitsLeft = {} /\ cfgPc' = "config" /\ stamp' = published.bundle
     \/ cfgPc = "config" /\ cfgPc' = "up" /\ UNCHANGED stamp
  /\ UNCHANGED <<repoVars, published, home, unitsLeft, agentActs, bundleFaults>>

PodDies ==
  /\ cfgPc # "down" /\ bundleFaults < MaxBundleFaults /\ bundleFaults' = bundleFaults + 1
  /\ cfgPc' = "down"
  /\ UNCHANGED <<repoVars, published, stamp, home, unitsLeft, agentActs>>

-----------------------------------------------------------------------------
(* The agent edits a unit or makes its own; the owner removes one. *)

AgentActs(u) ==
  /\ cfgPc = "up" /\ agentActs < MaxAgentActs /\ agentActs' = agentActs + 1
  /\ home' \in {[home EXCEPT ![u] = OWN], [home EXCEPT ![u] = ABSENT]}
  /\ UNCHANGED <<repoVars, published, stamp, cfgPc, unitsLeft, bundleFaults>>

BundleNext ==
  \/ EditTree
  \/ Generate
  \/ Publish
  \/ PodStarts
  \/ SyncBundle
  \/ \E u \in Units : SeedUnit(u)
  \/ Finish
  \/ PodDies
  \/ \E u \in Units : AgentActs(u)

BundleSpec == BundleInit /\ [][BundleNext]_bundleVars

-----------------------------------------------------------------------------
(* Properties. *)

\* "its skill edits and new skills survive every deploy" (configure.py:52-53):
\* only the agent or the owner replaces what the agent wrote, through crashes
\* in the middle of a seeding and whatever is published.
AgentOwns ==
  [][\A u \in Units : home[u] = OWN /\ home'[u] # OWN => agentActs' = agentActs + 1]_bundleVars

=============================================================================
