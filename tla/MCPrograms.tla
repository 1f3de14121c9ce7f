------------------------------ MODULE MCPrograms ------------------------------
(***************************************************************************)
(* The programs around the gateway, and its scouts' threads.  They share   *)
(* no state, so that a behaviour is one of one of them, and the others     *)
(* stay in one initial state.                                              *)
(***************************************************************************)
EXTENDS ScoutThreads, Campaign, Shards, Downloads, Bundle, Knowledge,
        Catalogue, Bootstrap, RoomLayout, Bench, Dashboard

VARIABLE program  \* the one the behaviour is of

Programs == {"scouts", "campaign", "shards", "downloads", "bundle", "knowledge",
             "catalogue", "bootstrap", "layout", "bench", "dashboard"}

\* A model of the lane and one of a router that may be preempted.
MCEntries ==
  {[underlying |-> "glm", service |-> "lane", tokens |-> 2, preemptible |-> FALSE, budgeted |-> FALSE],
   [underlying |-> "qwen", service |-> "router", tokens |-> 1, preemptible |-> TRUE, budgeted |-> TRUE]}

\* A key of a role and one of an agent.
MCKeyObjects ==
  <<[object |-> "coder-v2", role |-> "coder"], [object |-> "hermes", role |-> "hermes"]>>

\* The sizes that are measured, in tokens.
MCSizes == <<2, 3>>

\* The dashboard of the script, and every list of at most four panels of its kinds.
MCBoards == {LlmServing} \cup UNION {[1..n -> {Row, Stat, TimeSeries, Table, Text}] : n \in 0..4}

ProgramsInit ==
  /\ program \in Programs
  /\ ScoutInit
  /\ CampInit /\ (program # "campaign" => kind = "abba" /\ bench = NoPod)
  /\ ShardInit /\ (program # "shards" => source = PublishedFiles)
  /\ DownloadInit /\ (program # "downloads" => named = "none")
  /\ BundleInit
  /\ KnowledgeInit /\ (program # "knowledge" => web = [u \in Uris |-> 1])
  /\ CatalogueInit /\ (program # "catalogue" => draft.scope["hermes"] = {})
  /\ BootInit /\ (program # "bootstrap" => files = {})
  /\ LayoutInit
  /\ BenchInit /\ (program # "bench" => protocol = "pp" /\ ~resetting)
  /\ DashInit /\ (program # "dashboard" => panels = LlmServing)

ProgramsNext ==
  /\ UNCHANGED program
  /\ IF program = "scouts"    THEN ScoutNext     ELSE UNCHANGED scoutVars
  /\ IF program = "campaign"  THEN CampNext      ELSE UNCHANGED campVars
  /\ IF program = "shards"    THEN ShardNext     ELSE UNCHANGED shardVars
  /\ IF program = "downloads" THEN DownloadNext  ELSE UNCHANGED downloadVars
  /\ IF program = "bundle"    THEN BundleNext    ELSE UNCHANGED bundleVars
  /\ IF program = "knowledge" THEN KnowledgeNext ELSE UNCHANGED knowledgeVars
  /\ IF program = "catalogue" THEN CatalogueNext ELSE UNCHANGED catalogueVars
  /\ IF program = "bootstrap" THEN BootNext      ELSE UNCHANGED bootVars
  /\ IF program = "layout"    THEN LayoutNext    ELSE UNCHANGED layoutVars
  /\ IF program = "bench"     THEN BenchNext     ELSE UNCHANGED benchVars
  /\ IF program = "dashboard" THEN DashNext      ELSE UNCHANGED dashVars

programsVars == <<program, scoutVars, campVars, shardVars, downloadVars, bundleVars,
                  knowledgeVars, catalogueVars, bootVars, layoutVars, benchVars, dashVars>>
ProgramsSpec == ProgramsInit /\ [][ProgramsNext]_programsVars

\* Every variable of the program that runs has a value the code can give it.
ProgramsTypeOK ==
  /\ program = "scouts"    => ScoutTypeOK
  /\ program = "campaign"  => CampTypeOK
  /\ program = "shards"    => ShardTypeOK
  /\ program = "downloads" => DownloadTypeOK
  /\ program = "bundle"    => BundleTypeOK
  /\ program = "knowledge" => KnowledgeTypeOK
  /\ program = "catalogue" => CatalogueTypeOK
  /\ program = "bootstrap" => BootTypeOK
  /\ program = "layout"    => LayoutTypeOK
  /\ program = "bench"     => BenchTypeOK
  /\ program = "dashboard" => DashTypeOK
=============================================================================
