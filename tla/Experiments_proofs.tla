------------------------- MODULE Experiments_proofs -------------------------
(***************************************************************************)
(* Proofs about the scripts that fetch, check and measure the models. Each *)
(* is about its own specification, for every value of its constants.       *)
(***************************************************************************)
EXTENDS Downloads, Campaign, Shards, Bench, TLAPS

-----------------------------------------------------------------------------
(***************************************************************************)
(* Downloads. For every number of ranges, threads, attempts, kills and     *)
(* power failures: the state file says less than the disk holds because a  *)
(* range is listed after it was synced, and because a range that is listed *)
(* is done and not written again in the same run.                          *)
(***************************************************************************)

Synced(ranges) == \A r \in ranges : bytes[r] = "synced"

\* The part and its list, while the finished file was never removed.
Parted ==
  /\ named = "whole" => ~part
  /\ ~part /\ named # "whole" => stateFile = <<>>
  /\ script # "down" => part
  /\ part => Synced(ToSet(stateFile))

\* The run: what is listed is done, what is written is not lost meanwhile, and
\* what is about to be listed is synced.
Running ==
  script # "down" =>
    /\ Synced(ToSet(completed))
    /\ \A r \in Ranges :
         /\ fetching[r] = "written" => bytes[r] # Hole
         /\ fetching[r] = "synced" => bytes[r] = "synced"
         /\ r \in ToSet(stateFile) \union ToSet(completed) => fetching[r] = "done"

DownloadInv == DownloadTypeOK /\ (losses = 0 => Parted /\ Running)

-----------------------------------------------------------------------------
(* Lists. *)

\* What a list of ranges holds are ranges.
LEMMA ListsAreRanges == \A s \in Seq(Ranges) : ToSet(s) \subseteq Ranges
  BY DEF ToSet

\* The range that is appended is the only new one.
LEMMA ListOfAppend ==
  ASSUME NEW s \in Seq(Ranges), NEW r \in Ranges
  PROVE  Append(s, r) \in Seq(Ranges) /\ ToSet(Append(s, r)) = ToSet(s) \union {r}
<1>1. Append(s, r) \in Seq(Ranges) /\ Len(Append(s, r)) = Len(s) + 1
  OBVIOUS
<1>2. \A i \in 1..Len(s) : Append(s, r)[i] = s[i]
  OBVIOUS
<1>3. Append(s, r)[Len(s) + 1] = r
  OBVIOUS
<1>4. DOMAIN s = 1..Len(s) /\ DOMAIN Append(s, r) = 1..(Len(s) + 1) /\ Len(s) \in Nat
  BY <1>1
<1>5. 1..(Len(s) + 1) = (1..Len(s)) \union {Len(s) + 1}
  BY <1>4
<1> QED
  BY <1>1, <1>2, <1>3, <1>4, <1>5 DEF ToSet

\* An earlier list has no other ranges.
LEMMA ListOfPrefix ==
  ASSUME NEW s \in Seq(Ranges), NEW n \in 0..Len(s)
  PROVE  SubSeq(s, 1, n) \in Seq(Ranges) /\ ToSet(SubSeq(s, 1, n)) \subseteq ToSet(s)
  BY DEF ToSet

\* The test of a list is membership.
LEMMA ContainsIsIn == \A s \in Seq(Ranges), r \in Ranges : Contains(s, r) <=> r \in ToSet(s)
  BY DEF Contains, ToSet

\* The empty list holds nothing.
LEMMA EmptyList == <<>> \in Seq(Ranges) /\ ToSet(<<>>) = {}
  BY DEF ToSet

-----------------------------------------------------------------------------
\* Every step keeps the types.
LEMMA TypedStep == DownloadTypeOK /\ [DownloadNext]_downloadVars => DownloadTypeOK'
<1> SUFFICES ASSUME DownloadTypeOK, [DownloadNext]_downloadVars PROVE DownloadTypeOK'
  OBVIOUS
<1> USE DEF DownloadTypeOK, diskVars, runVars
<1>0. /\ MaxTries \in Nat /\ MaxStops \in Nat /\ MaxLosses \in Nat
      /\ 0 \in 0..MaxTries /\ 0 \in 0..MaxStops /\ 0 \in 0..MaxLosses
  BY DownloadAssumption
<1>1. CASE Starts
  <2>1. completed' \in Seq(Ranges)
    BY <1>1, EmptyList DEF Starts
  <2>2. tries' \in [Ranges -> 0..MaxTries]
    BY <1>0, <1>1 DEF Starts
  <2>3. fetching' \in [Ranges -> {"todo", "open", "written", "synced", "done", "raised"}]
    BY <1>1 DEF Starts
  <2> QED
    BY <1>1, <2>1, <2>2, <2>3 DEF Starts
<1>2. ASSUME NEW r \in Ranges, Opens(r) \/ Writes(r) \/ RangeFails(r) PROVE DownloadTypeOK'
  <2>1. CASE Opens(r)
    <3>1. tries[r] + 1 \in 0..MaxTries
      BY <1>0, <2>1 DEF Opens
    <3> QED
      BY <2>1, <3>1 DEF Opens, Goes, At
  <2>2. CASE Writes(r)
    BY <2>2 DEF Writes, Goes
  <2>3. CASE RangeFails(r)
    BY <2>3 DEF RangeFails, Goes
  <2> QED
    BY <1>2, <2>1, <2>2, <2>3
<1>3. ASSUME NEW r \in Ranges, Syncs(r) PROVE DownloadTypeOK'
  BY <1>3 DEF Syncs, Goes
<1>4. ASSUME NEW r \in Ranges, Lists(r) PROVE DownloadTypeOK'
  BY <1>4, ListOfAppend DEF Lists, Goes
<1>5. CASE PoolEnds
  BY <1>5 DEF PoolEnds
<1>6. CASE Verifies
  BY <1>6 DEF Verifies
<1>7. CASE Stops /\ Kill
  BY <1>0, <1>7 DEF Stops, Kill
<1>8. CASE Stops /\ PowerFails
  BY <1>0, <1>8, ListOfPrefix DEF Stops, PowerFails
<1>9. CASE LosesFile
  BY <1>0, <1>9 DEF LosesFile
<1>10. CASE UNCHANGED downloadVars
  BY <1>10 DEF downloadVars
<1> QED
  BY <1>1, <1>2, <1>3, <1>4, <1>5, <1>6, <1>7, <1>8, <1>9, <1>10 DEF DownloadNext, Stops

\* While no synced data was lost, every step keeps what the list says.
LEMMA KeptStep ==
  DownloadInv /\ [DownloadNext]_downloadVars => (losses' = 0 => Parted' /\ Running')
<1> SUFFICES ASSUME DownloadInv, [DownloadNext]_downloadVars, losses' = 0 PROVE Parted' /\ Running'
  OBVIOUS
<1>1. losses = 0
  BY DEF DownloadInv, DownloadTypeOK, DownloadNext, downloadVars, diskVars, runVars, Starts, Opens, Writes, Syncs, Lists,
     RangeFails, PoolEnds, Verifies, Stops, LosesFile
<1>2. DownloadTypeOK /\ Parted /\ Running
  BY <1>1 DEF DownloadInv
<1>3. ToSet(stateFile) \subseteq Ranges /\ ToSet(completed) \subseteq Ranges
  BY <1>2, ListsAreRanges DEF DownloadTypeOK
<1>4. CASE Starts
  <2>1. ToSet(completed') = IF part THEN ToSet(stateFile) ELSE {}
    BY <1>4, EmptyList DEF Starts
  <2>2. Synced(ToSet(stateFile))
    BY <1>2, <1>4, EmptyList DEF Starts, Parted, Synced
  <2>3. ToSet(stateFile) = ToSet(completed')
    BY <1>2, <1>4, <2>1, EmptyList DEF Starts, Parted
  <2>4. completed' \in Seq(Ranges)
    BY <1>2, <1>4, EmptyList DEF Starts, DownloadTypeOK
  <2>5. \A r \in Ranges : fetching'[r] = IF r \in ToSet(completed') THEN "done" ELSE "todo"
    BY <1>4, <2>4, ContainsIsIn DEF Starts
  <2> QED
    BY <1>2, <1>4, <2>2, <2>3, <2>5 DEF Starts, Parted, Running, Synced
<1>5. ASSUME NEW r \in Ranges, Opens(r) \/ RangeFails(r) PROVE Parted' /\ Running'
  BY <1>2, <1>3, <1>5 DEF Opens, RangeFails, At, Goes, diskVars, DownloadTypeOK, Parted, Running, Synced
<1>6. ASSUME NEW r \in Ranges, Writes(r) PROVE Parted' /\ Running'
  <2>1. r \notin ToSet(stateFile) \union ToSet(completed)
    BY <1>2, <1>6 DEF Writes, At, Running
  <2> QED
    BY <1>2, <1>3, <1>6, <2>1 DEF Writes, At, Goes, Hole, DownloadTypeOK, Parted, Running, Synced
<1>7. ASSUME NEW r \in Ranges, Syncs(r) PROVE Parted' /\ Running'
  <2>1. \A s \in Ranges : bytes[s] = "synced" => bytes'[s] = "synced"
    BY <1>7 DEF Syncs
  <2>2. bytes'[r] = "synced"
    BY <1>2, <1>7 DEF Syncs, At, DownloadTypeOK, Running
  <2>3. \A s \in Ranges : bytes[s] # Hole => bytes'[s] # Hole
    BY <1>7 DEF Syncs, Hole
  <2> QED
    BY <1>2, <1>3, <1>7, <2>1, <2>2, <2>3 DEF Syncs, At, Goes, DownloadTypeOK, Parted, Running, Synced
<1>8. ASSUME NEW r \in Ranges, Lists(r) PROVE Parted' /\ Running'
  <2>1. bytes[r] = "synced"
    BY <1>2, <1>8 DEF Lists, At, Running
  <2>2. ToSet(completed') = ToSet(completed) \union {r} /\ stateFile' = completed'
    BY <1>2, <1>8, ListOfAppend DEF Lists, DownloadTypeOK
  <2> QED
    BY <1>2, <1>3, <1>8, <2>1, <2>2 DEF Lists, At, Goes, DownloadTypeOK, Parted, Running, Synced
<1>9. CASE PoolEnds
  <2>1. script = "fetching" /\ UNCHANGED <<diskVars, completed, fetching>>
    BY <1>9 DEF PoolEnds
  <2> QED
    BY <1>2, <2>1 DEF diskVars, Parted, Running, Synced
<1>10. CASE Verifies
  <2>1. script' = "down" /\ UNCHANGED stateFile
    BY <1>10 DEF Verifies
  <2>2. UNCHANGED <<named, part, bytes>> \/ (named' = "whole" /\ part' = FALSE)
    BY <1>10 DEF Verifies
  <2> QED
    BY <1>2, <2>1, <2>2 DEF Parted, Running, Synced
<1>11. CASE Stops /\ Kill
  BY <1>2, <1>11 DEF Stops, Kill, diskVars, Parted, Running, Synced
<1>12. CASE Stops /\ PowerFails
  <2>1. ToSet(stateFile') \subseteq ToSet(stateFile) /\ (stateFile = <<>> => stateFile' = <<>>)
    BY <1>2, <1>12, ListOfPrefix DEF Stops, PowerFails, DownloadTypeOK
  <2>2. \A r \in Ranges : bytes[r] = "synced" => bytes'[r] = "synced"
    BY <1>12 DEF Stops, PowerFails
  <2> QED
    BY <1>2, <1>3, <1>12, <2>1, <2>2 DEF Stops, PowerFails, Parted, Running, Synced
<1>13. CASE LosesFile
  BY <1>1, <1>13 DEF LosesFile
<1>14. CASE UNCHANGED downloadVars
  BY <1>2, <1>14 DEF downloadVars, diskVars, runVars, Parted, Running, Synced
<1> QED
  BY <1>4, <1>5, <1>6, <1>7, <1>8, <1>9, <1>10, <1>11, <1>12, <1>13, <1>14 DEF DownloadNext, Stops

\* The invariant of a download.
LEMMA DownloadInvariance == DownloadSpec => []DownloadInv
<1>1. DownloadInit => DownloadInv
  <2> SUFFICES ASSUME DownloadInit PROVE DownloadInv
    OBVIOUS
  <2>1. 0 \in 0..MaxTries /\ 0 \in 0..MaxStops /\ 0 \in 0..MaxLosses
    BY DownloadAssumption
  <2>2. tries \in [Ranges -> 0..MaxTries]
    BY <2>1 DEF DownloadInit
  <2>3. DownloadTypeOK
    BY <2>1, <2>2, EmptyList DEF DownloadInit, DownloadTypeOK
  <2> QED
    BY <2>3, EmptyList DEF DownloadInit, DownloadInv, Parted, Running, Synced
<1>2. DownloadInv /\ [DownloadNext]_downloadVars => DownloadInv'
  BY TypedStep, KeptStep DEF DownloadInv
<1> QED
  BY <1>1, <1>2, PTL DEF DownloadSpec

\* Every variable of a download has a value the scripts can give it: no range is
\* tried more than MaxTries times in a run, and what is listed are ranges.
THEOREM DownloadTypeCorrect == DownloadSpec => []DownloadTypeOK
<1>1. DownloadInv => DownloadTypeOK
  BY DEF DownloadInv
<1> QED
  BY <1>1, DownloadInvariance, PTL

\* What a later run believes is on the disk, however often the download is killed
\* or loses its power, until somebody removes the finished file.
THEOREM CompletedIsWrittenHolds == DownloadSpec => []CompletedIsWritten
<1>1. DownloadInv => CompletedIsWritten
  BY DEF DownloadInv, Parted, Synced, CompletedIsWritten, ToSet
<1> QED
  BY <1>1, DownloadInvariance, PTL

-----------------------------------------------------------------------------
(***************************************************************************)
(* Campaign. For every number of campaigns, faults and signals: a          *)
(* restoring command that the script is past was tried, and either did its *)
(* work, which no later step undoes, or is in the list of those that       *)
(* failed.                                                                 *)
(***************************************************************************)

\* A restoring command was tried: the script is past it.
Past(pcs) == campPc \in pcs \/ (campPc = "ended" /\ ~cut)

Tried ==
  /\ campPc \in Script \union Restoring \union {"ended"} /\ campaigns \in Nat
  /\ Past({"rUnsuspend", "rResume", "rReconcile", "rWait"}) =>
       (bench # NoPod => "rDelete" \in failed \/ campaigns = 0)
  /\ Past({"rResume", "rReconcile", "rWait"}) => (suspended => "rUnsuspend" \in failed)
  /\ Past({"rReconcile", "rWait"}) => (~ks => "rResume" \in failed)

\* A step of the script before the restore owes nothing.
LEMMA BeforeRestore ==
  ASSUME Tried, campPc' \in Script \union {"rDelete"}, campaigns' \in Nat
  PROVE  Tried'
BY DEF Tried, Past, Script, Restoring

\* The restoring commands, one after the other.
LEMMA RestoreKeeps ==
  ASSUME Tried, Restores
  PROVE  Tried'
<1>1. campaigns \in Nat
  BY DEF Tried
<1>2. CASE Command("rDelete", DeleteBench, "rUnsuspend", "rUnsuspend")
  <2>1. campPc' = "rUnsuspend" /\ campaigns' = campaigns /\ (bench' = NoPod \/ "rDelete" \in failed')
    BY <1>2 DEF Command, DeleteBench, Restoring
  <2> QED
    BY <1>1, <2>1 DEF Tried, Past, Script, Restoring
<1>3. CASE Command("rUnsuspend", SetSuspended(FALSE), "rResume", "rResume")
  <2>1. /\ campPc = "rUnsuspend" /\ campPc' = "rResume" /\ campaigns' = campaigns /\ bench' = bench
        /\ failed \subseteq failed' /\ (suspended' = FALSE \/ "rUnsuspend" \in failed')
    BY <1>3 DEF Command, SetSuspended, Restoring, world
  <2> QED
    BY <1>1, <2>1 DEF Tried, Past, Script, Restoring
<1>4. CASE Command("rResume", SetKs(TRUE), "rReconcile", "rReconcile")
  <2>1. /\ campPc = "rResume" /\ campPc' = "rReconcile" /\ campaigns' = campaigns /\ bench' = bench
        /\ suspended' = suspended /\ failed \subseteq failed' /\ (ks' = TRUE \/ "rResume" \in failed')
    BY <1>4 DEF Command, SetKs, Restoring, world
  <2> QED
    BY <1>1, <2>1 DEF Tried, Past, Script, Restoring
<1>5. CASE Command("rReconcile", SetSuspended(IF ks THEN FALSE ELSE suspended), "rWait", "rWait")
  <2>1. /\ campPc = "rReconcile" /\ campPc' = "rWait" /\ campaigns' = campaigns /\ bench' = bench
        /\ (suspended' = FALSE \/ suspended' = suspended) /\ failed \subseteq failed' /\ ks' = ks
    BY <1>5 DEF Command, SetSuspended, Restoring, world
  <2> QED
    BY <1>1, <2>1 DEF Tried, Past, Script, Restoring
<1>6. CASE Command("rWait", UNCHANGED world, "ended", "ended")
  <2>1. /\ campPc = "rWait" /\ campPc' = "ended" /\ campaigns' = campaigns /\ UNCHANGED world
        /\ failed \subseteq failed'
    BY <1>6 DEF Command, Restoring
  <2> QED
    BY <1>1, <2>1 DEF Tried, Past, Script, Restoring, world
<1> QED
  BY <1>2, <1>3, <1>4, <1>5, <1>6 DEF Restores

\* What comes before the restoring.
LEMMA ScriptKeeps ==
  ASSUME Tried, Suspends \/ Probes \/ Measures \/ Suite \/ (\E k \in {"abba", "coupling"} : Begin(k))
  PROVE  Tried'
<1>1. campaigns \in Nat
  BY DEF Tried
<1>2. CASE Suspends
  BY <1>1, <1>2, BeforeRestore DEF Suspends, Command, Script
<1>3. CASE Probes
  BY <1>1, <1>3, BeforeRestore DEF Probes, Command, Script
<1>4. CASE Measures
  BY <1>1, <1>4, BeforeRestore DEF Measures, Command, Script
<1>5. CASE Suite
  BY <1>1, <1>5, BeforeRestore DEF Suite, Script
<1>6. CASE \E k \in {"abba", "coupling"} : Begin(k)
  BY <1>1, <1>6, BeforeRestore DEF Begin, Script
<1> QED
  BY <1>2, <1>3, <1>4, <1>5, <1>6

\* Every step of the script, the cluster and the operator.
LEMMA TriedStep == Tried /\ [CampNext]_campVars => Tried'
<1> SUFFICES ASSUME Tried, [CampNext]_campVars PROVE Tried'
  OBVIOUS
<1>1. CASE UNCHANGED campVars
  BY <1>1 DEF campVars, world, Tried, Past
<1>2. CASE FluxReconciles
  BY <1>2 DEF FluxReconciles, Tried, Past
<1>3. CASE OperatorActs
  BY <1>3 DEF OperatorActs, Tried, Past
<1>4. CASE BenchStarts
  BY <1>4 DEF BenchStarts, Tried, Past
<1>5. CASE Signal
  <2>1. /\ UNCHANGED <<world, failed, campaigns>> /\ campPc # "ended" /\ cut' = (campPc \in Restoring)
        /\ campPc' = IF campPc \in Script THEN "rDelete" ELSE "ended"
    BY <1>5 DEF Signal
  <2>2. CASE campPc \in Script
    BY <2>1, <2>2, BeforeRestore DEF Tried
  <2>3. CASE campPc \notin Script
    <3>1. campPc \in Restoring
      BY <2>1, <2>3 DEF Tried
    <3> QED
      BY <2>1, <2>3, <3>1 DEF Tried, Past
  <2> QED
    BY <2>2, <2>3
<1> QED
  BY <1>1, <1>2, <1>3, <1>4, <1>5, ScriptKeeps, RestoreKeeps DEF CampNext

\* When a campaign has ended without being cut off, the pod is gone and what was
\* suspended runs again, but for what is reported as failed (restore, which every
\* exit of the script goes through).
THEOREM RestoredAtEndHolds == CampSpec => []RestoredAtEnd
<1>1. CampInit => Tried
  BY DEF CampInit, Tried, Past
<1>2. Tried => RestoredAtEnd
  BY DEF Tried, Past, RestoredAtEnd
<1> QED
  BY <1>1, <1>2, TriedStep, PTL DEF CampSpec

-----------------------------------------------------------------------------
(* The types: one pod is measured for each run of RUNS, and a bench pod is *)
(* of a run, the probe or an earlier campaign.                             *)

Pod == [for : 1..6, arm : {"A", "B"}, ready : BOOLEAN]
Measured == Steps \union {PROBE, LEFT}

CampTyped ==
  /\ CampTypeOK
  /\ bench # NoPod => bench \in Pod
  /\ Len(results) = step - 1
  /\ campPc \in Script => step <= 4

\* The runs are four.
LEMMA FourRuns ==
  /\ Steps = 1..4 /\ Len(RUNS) = 4 /\ \A i \in 1..4 : RUNS[i] \in {"A", "B"}
  /\ Measured = 1..6 /\ NoPod \notin Pod
  /\ NoPod \in [for : 0..6, arm : {"-", "A", "B"}, ready : BOOLEAN]
  /\ Pod \subseteq [for : 0..6, arm : {"-", "A", "B"}, ready : BOOLEAN]
<1>1. Steps = 1..4 /\ Len(RUNS) = 4 /\ \A i \in 1..4 : RUNS[i] \in {"A", "B"}
  BY DEF Steps, RUNS
<1>2. Measured = 1..6
  BY <1>1 DEF Measured, PROBE, LEFT
<1>3. NoPod \notin Pod
  BY DEF NoPod, Pod
<1> QED
  BY <1>1, <1>2, <1>3 DEF NoPod, Pod

\* What the cluster is like: a bench pod is one of the script's.
WorldTyped ==
  /\ ks \in BOOLEAN /\ suspended \in BOOLEAN
  /\ lane \in {"none", "starting", "ready"}
  /\ bench = NoPod \/ bench \in Pod

\* A command changes the cluster, and neither the run nor what was measured.
LEMMA CommandTyped ==
  ASSUME CampTyped, WorldTyped', engaged' \in BOOLEAN,
         campPc' \in Script \union Restoring \union {"ended"},
         campPc' \in Script => campPc \in Script,
         failed' \subseteq Restoring, campFaults' \in 0..MaxCampFaults,
         UNCHANGED <<kind, step, results, cut, campaigns, signals>>
  PROVE  CampTyped'
<1>1. bench' \in [for : 0..6, arm : {"-", "A", "B"}, ready : BOOLEAN]
  BY FourRuns DEF WorldTyped
<1>2. bench' # NoPod => bench' \in Pod
  BY DEF WorldTyped
<1>3. CampTypeOK'
  BY <1>1 DEF CampTyped, CampTypeOK, WorldTyped
<1> QED
  BY <1>2, <1>3 DEF CampTyped

\* The effects of the commands.
LEMMA EffectsTyped ==
  ASSUME WorldTyped
  PROVE  /\ UNCHANGED world => WorldTyped'
         /\ \A v \in BOOLEAN : SetKs(v) \/ SetSuspended(v) => WorldTyped'
         /\ DeleteBench => WorldTyped'
         /\ \A i \in 1..6, arm \in {"A", "B"} : ApplyBench(i, arm) => WorldTyped'
<1>1. UNCHANGED world => WorldTyped'
  BY DEF WorldTyped, world
<1>2. \A v \in BOOLEAN : SetKs(v) \/ SetSuspended(v) => WorldTyped'
  BY DEF WorldTyped, SetKs, SetSuspended
<1>3. DeleteBench => WorldTyped'
  BY DEF WorldTyped, DeleteBench
<1>4. ASSUME NEW i \in 1..6, NEW arm \in {"A", "B"}, ApplyBench(i, arm) PROVE WorldTyped'
  <2>1. CASE bench = NoPod
    <3>1. bench' = [for |-> i, arm |-> arm, ready |-> FALSE]
      BY <1>4, <2>1 DEF ApplyBench
    <3>2. bench' \in Pod
      BY <3>1 DEF Pod
    <3> QED
      BY <1>4, <3>2 DEF ApplyBench, WorldTyped
  <2>2. CASE bench # NoPod
    <3>1. bench' = [bench EXCEPT !.arm = arm, !.ready = @ /\ bench.arm = arm] /\ bench \in Pod
      BY <1>4, <2>2 DEF ApplyBench, WorldTyped
    <3>2. bench' \in Pod
      BY <3>1 DEF Pod
    <3> QED
      BY <1>4, <3>2 DEF ApplyBench, WorldTyped
  <2> QED
    BY <2>1, <2>2
<1> QED
  BY <1>1, <1>2, <1>3, <1>4

\* The numbers of the faults and of the runs.
LEMMA CampCounts ==
  ASSUME CampTyped
  PROVE  /\ MaxCampFaults \in Nat /\ MaxCampaigns \in Nat /\ MaxSignals \in Nat
         /\ campFaults < MaxCampFaults => campFaults + 1 \in 0..MaxCampFaults
         /\ WorldTyped /\ failed \subseteq Restoring
<1>1. MaxCampFaults \in Nat /\ MaxCampaigns \in Nat /\ MaxSignals \in Nat
  BY CampaignAssumption
<1> QED
  BY <1>1 DEF CampTyped, CampTypeOK, WorldTyped

\* What is common to the commands of the script: another effect, and the others are kept.
LEMMA ScriptTyped ==
  ASSUME CampTyped, Suspends \/ Probes \/ Measures
  PROVE  CampTyped'
<1>1. /\ campPc \in Script /\ campPc' \in Script \union {"rDelete"} /\ failed' = failed
      /\ UNCHANGED <<kind, step, results, cut, campaigns, signals>>
  BY DEF Suspends, Probes, Measures, Command, Script, Restoring
<1>2. campFaults' = campFaults \/ (campFaults < MaxCampFaults /\ campFaults' = campFaults + 1)
  BY DEF Suspends, Probes, Measures, Command
<1>3. \/ UNCHANGED world \/ \E v \in BOOLEAN : SetKs(v) \/ SetSuspended(v)
      \/ DeleteBench \/ ApplyBench(PROBE, "B") \/ ApplyBench(step, RUNS[step])
  BY DEF Suspends, Probes, Measures, Command
<1>4. engaged' = engaged \/ engaged' \in {FALSE, bench.ready}
  BY DEF Suspends, Probes, Measures
<1>5. WorldTyped /\ failed \subseteq Restoring /\ engaged \in BOOLEAN /\ step \in 1..4
  BY <1>1, CampCounts DEF CampTyped, CampTypeOK
<1>6. WorldTyped'
  <2>1. RUNS[step] \in {"A", "B"} /\ step \in 1..6 /\ PROBE \in 1..6
    BY <1>5, FourRuns DEF PROBE
  <2>2. CASE UNCHANGED world
    BY <1>5, <2>2, EffectsTyped
  <2>3. CASE \E v \in BOOLEAN : SetKs(v) \/ SetSuspended(v)
    BY <1>5, <2>3, EffectsTyped
  <2>4. CASE DeleteBench
    BY <1>5, <2>4, EffectsTyped
  <2>5. CASE ApplyBench(PROBE, "B")
    BY <1>5, <2>1, <2>5, EffectsTyped
  <2>6. CASE ApplyBench(step, RUNS[step])
    BY <1>5, <2>1, <2>6, EffectsTyped
  <2> QED
    BY <1>3, <2>2, <2>3, <2>4, <2>5, <2>6
<1>7. engaged' \in BOOLEAN
  <2>1. bench.ready \in BOOLEAN
    <3>1. NoPod.ready \in BOOLEAN /\ \A p \in Pod : p.ready \in BOOLEAN
      BY DEF NoPod, Pod
    <3> QED
      BY <1>5, <3>1 DEF WorldTyped
  <2> QED
    BY <1>4, <1>5, <2>1
<1>8. campFaults' \in 0..MaxCampFaults
  BY <1>2, CampCounts DEF CampTyped, CampTypeOK
<1>9. campPc' \in Script \union Restoring \union {"ended"}
  BY <1>1 DEF Restoring
<1> QED
  BY <1>1, <1>5, <1>6, <1>7, <1>8, <1>9, CommandTyped

\* The commands of the restore.
LEMMA RestoreTyped ==
  ASSUME CampTyped, Restores
  PROVE  CampTyped'
<1>1. /\ campPc' \in Restoring \union {"ended"} /\ failed' \subseteq failed \union Restoring
      /\ UNCHANGED <<kind, step, results, cut, campaigns, signals, engaged>>
  BY DEF Restores, Command, Restoring
<1>2. campFaults' = campFaults \/ (campFaults < MaxCampFaults /\ campFaults' = campFaults + 1)
  BY DEF Restores, Command
<1>3. WorldTyped /\ failed \subseteq Restoring /\ engaged \in BOOLEAN
  BY CampCounts DEF CampTyped, CampTypeOK
<1>4. UNCHANGED world \/ (\E v \in BOOLEAN : SetKs(v) \/ SetSuspended(v)) \/ DeleteBench
  <2>1. (IF ks THEN FALSE ELSE suspended) \in BOOLEAN
    BY <1>3 DEF WorldTyped
  <2> QED
    BY <2>1 DEF Restores, Command
<1>5. WorldTyped'
  BY <1>3, <1>4, EffectsTyped
<1>6. campFaults' \in 0..MaxCampFaults
  BY <1>2, CampCounts DEF CampTyped, CampTypeOK
<1>7. campPc' \notin Script
  BY <1>1 DEF Restoring, Script
<1> QED
  BY <1>1, <1>3, <1>5, <1>6, <1>7, CommandTyped

\* The cluster's own steps.
LEMMA ClusterTyped ==
  ASSUME CampTyped, FluxReconciles \/ OperatorActs \/ BenchStarts
  PROVE  CampTyped'
<1>1. UNCHANGED <<kind, campPc, step, results, engaged, failed, cut, campaigns, campFaults, signals>>
  BY DEF FluxReconciles, OperatorActs, BenchStarts
<1>2. WorldTyped
  BY CampCounts
<1>3. WorldTyped'
  <2>1. CASE FluxReconciles \/ OperatorActs
    BY <1>2, <2>1 DEF FluxReconciles, OperatorActs, WorldTyped
  <2>2. CASE BenchStarts
    <3>1. bench \in Pod /\ bench' = [bench EXCEPT !.ready = TRUE] /\ UNCHANGED <<ks, suspended, lane>>
      BY <1>2, <2>2 DEF BenchStarts, WorldTyped
    <3>2. bench' \in Pod
      BY <3>1 DEF Pod
    <3> QED
      BY <1>2, <3>1, <3>2 DEF WorldTyped
  <2> QED
    BY <2>1, <2>2
<1>4. /\ campPc' \in Script \union Restoring \union {"ended"} /\ (campPc' \in Script => campPc \in Script)
      /\ failed' \subseteq Restoring /\ campFaults' \in 0..MaxCampFaults /\ engaged' \in BOOLEAN
  BY <1>1 DEF CampTyped, CampTypeOK
<1> QED
  BY <1>1, <1>3, <1>4, CommandTyped

\* A run that was measured is recorded, and the next one follows.
LEMMA SuiteTyped ==
  ASSUME CampTyped, Suite
  PROVE  CampTyped'
<1>1. /\ campPc = "suite" /\ UNCHANGED <<kind, engaged, world, failed, cut, campaigns, signals>>
      /\ step \in 1..4 /\ results \in Seq(Measured) /\ Len(results) = step - 1
  BY DEF Suite, CampTyped, CampTypeOK, Measured, Script
<1>2. CASE bench # NoPod /\ results' = Append(results, bench.for) /\ step' = step + 1
           /\ campPc' = (IF step = Len(RUNS) THEN "rDelete" ELSE "delete") /\ UNCHANGED campFaults
  <2>1. bench.for \in Measured
    BY <1>2, FourRuns DEF CampTyped, Pod
  <2>2. results' \in Seq(Measured) /\ Len(results') = Len(results) + 1
    BY <1>1, <1>2, <2>1
  <2>3. step' \in 1..5 /\ Len(results') = step' - 1 /\ Len(results') <= 4
    BY <1>1, <1>2, <2>2
  <2>4. campPc' \in Script \union Restoring /\ (campPc' \in Script => step' <= 4)
    BY <1>1, <1>2, FourRuns DEF Script, Restoring
  <2>5. CampTypeOK'
    BY <1>1, <1>2, <2>2, <2>3, <2>4 DEF CampTyped, CampTypeOK, world, Measured
  <2> QED
    BY <1>1, <2>3, <2>4, <2>5 DEF CampTyped, world
<1>3. CASE campFaults < MaxCampFaults /\ campFaults' = campFaults + 1
           /\ campPc' = "rDelete" /\ UNCHANGED <<results, step>>
  <2>1. campFaults' \in 0..MaxCampFaults /\ WorldTyped /\ failed' \subseteq Restoring
    BY <1>1, <1>3, CampCounts
  <2>2. WorldTyped'
    BY <1>1, <2>1, EffectsTyped
  <2>3. campPc' \in Restoring /\ campPc' \notin Script /\ engaged' \in BOOLEAN
    BY <1>1, <1>3 DEF Script, Restoring, CampTyped, CampTypeOK
  <2> QED
    BY <1>1, <1>3, <2>1, <2>2, <2>3, CommandTyped
<1> QED
  BY <1>2, <1>3 DEF Suite

\* Every step keeps the types.
LEMMA CampTypedStep == CampTyped /\ [CampNext]_campVars => CampTyped'
<1> SUFFICES ASSUME CampTyped, [CampNext]_campVars PROVE CampTyped'
  OBVIOUS
<1>1. CASE UNCHANGED campVars
  <2>1. /\ UNCHANGED <<kind, campPc, step, results, engaged, failed, cut, campaigns, campFaults, signals>>
        /\ UNCHANGED <<ks, suspended, lane, bench>>
    BY <1>1 DEF campVars, world
  <2> QED
    BY <2>1 DEF CampTyped, CampTypeOK
<1>2. ASSUME NEW k \in {"abba", "coupling"}, Begin(k) PROVE CampTyped'
  <2>1. <<>> \in Seq(Steps \union {PROBE, LEFT}) /\ Len(<<>>) = 0
    OBVIOUS
  <2>2. campaigns' \in 0..MaxCampaigns
    BY <1>2, CampCounts DEF Begin, CampTyped, CampTypeOK
  <2>3. /\ campPc' \in Script /\ kind' = k /\ step' = 1 /\ results' = <<>> /\ engaged' = FALSE
        /\ failed' = {} /\ cut' = FALSE /\ UNCHANGED <<ks, suspended, lane, bench, campFaults, signals>>
    BY <1>2 DEF Begin, Script, world
  <2>4. /\ results' \in Seq(Steps \union {PROBE, LEFT}) /\ Len(results') <= 4
        /\ step' \in 1..5 /\ step' <= 4 /\ Len(results') = step' - 1
    BY <2>1, <2>3
  <2>5. CampTypeOK'
    BY <2>2, <2>3, <2>4 DEF CampTyped, CampTypeOK
  <2> QED
    BY <2>3, <2>4, <2>5 DEF CampTyped
<1>3. CASE Signal
  <2>1. /\ signals' \in 0..MaxSignals /\ cut' \in BOOLEAN
        /\ UNCHANGED <<kind, step, results, engaged, ks, suspended, lane, bench, failed, campaigns, campFaults>>
    BY <1>3, CampCounts DEF Signal, CampTyped, CampTypeOK, world
  <2>2. campPc' \in Restoring \union {"ended"} /\ campPc' \notin Script
    BY <1>3 DEF Signal, Restoring, Script
  <2> QED
    BY <2>1, <2>2 DEF CampTyped, CampTypeOK
<1> QED
  BY <1>1, <1>2, <1>3, ScriptTyped, RestoreTyped, ClusterTyped, SuiteTyped DEF CampNext

\* Every variable of a campaign has a value the script and the cluster can give it:
\* no more is recorded than the four runs of RUNS, and of each the pod that was there.
THEOREM CampTypeCorrect == CampSpec => []CampTypeOK
<1>1. CampInit => CampTyped
  <2> SUFFICES ASSUME CampInit PROVE CampTyped
    OBVIOUS
  <2>1. 0 \in 0..MaxCampaigns /\ 0 \in 0..MaxCampFaults /\ 0 \in 0..MaxSignals
    BY CampaignAssumption
  <2>2. bench = NoPod \/ bench \in Pod
    <3>1. LEFT \in 1..6
      BY DEF LEFT
    <3>2. {LEFT} \subseteq 1..6 /\ {FALSE} \subseteq BOOLEAN
      BY <3>1
    <3>3. [for : {LEFT}, arm : {"A", "B"}, ready : {FALSE}] \subseteq Pod
      BY <3>2 DEF Pod
    <3> QED
      BY <3>3 DEF CampInit
  <2>3. bench \in [for : 0..6, arm : {"-", "A", "B"}, ready : BOOLEAN]
    BY <2>2, FourRuns
  <2>4. <<>> \in Seq(Steps \union {PROBE, LEFT}) /\ Len(<<>>) = 0
    OBVIOUS
  <2> QED
    <3>1. /\ results \in Seq(Steps \union {PROBE, LEFT}) /\ Len(results) <= 4
          /\ step \in 1..5 /\ Len(results) = step - 1
      BY <2>4 DEF CampInit
    <3>2. /\ kind \in {"abba", "coupling"} /\ campPc = "ended" /\ engaged = FALSE /\ ks = TRUE
          /\ suspended = FALSE /\ lane = "ready" /\ failed = {} /\ cut = FALSE
          /\ campaigns = 0 /\ campFaults = 0 /\ signals = 0
      BY DEF CampInit
    <3>3. CampTypeOK
      BY <2>1, <2>3, <3>1, <3>2 DEF CampTypeOK
    <3> QED
      BY <2>2, <3>1, <3>2, <3>3 DEF CampTyped, Script
<1>2. CampTyped => CampTypeOK
  BY DEF CampTyped
<1> QED
  BY <1>1, <1>2, CampTypedStep, PTL DEF CampSpec

-----------------------------------------------------------------------------
(***************************************************************************)
(* Shards. For every size of file and pool: the chunks in the copy and in  *)
(* the digest are in their places whatever order the reads finish in,      *)
(* since the oldest read is always the next chunk. A digest that is the    *)
(* published one is then that of the file.                                 *)
(***************************************************************************)

ChunkRead == [chunk : 1..Chunks, data : Bytes]

ShardTyped ==
  /\ source \in [1..Chunks -> 0..Chunks]
  /\ partial \in Seq(Bytes) /\ taken \in Seq(Bytes) /\ pending \in Seq(ChunkRead)
  /\ prefix \in Nat

\* The copy and the digest are in the order of the file, and the reads are of the
\* chunks that follow.
InPlace ==
  /\ \A n \in DOMAIN partial : partial[n] \in {source[n], BAD, TORN}
  /\ \A n \in DOMAIN taken : taken[n] \in {source[n], BAD, TORN}
  /\ \A i \in DOMAIN pending : pending[i].chunk = Len(taken) + i /\ pending[i].data \in {source[pending[i].chunk], BAD, TORN}
  /\ shardPc = "reading" => Len(taken) + Len(pending) <= Chunks
  /\ shardPc = "reading" => Len(partial) = IF Len(taken) < prefix THEN prefix ELSE Len(taken)
  /\ shardPc # "reading" => pending = <<>>

NamedIsWhole ==
  /\ copied \in {<<>>, PublishedFiles}
  /\ sourceNamed \/ verified \/ shardPc = "naming" => source = PublishedFiles /\ copied = PublishedFiles

Whole == ShardTyped /\ InPlace /\ NamedIsWhole

\* A digest that is the published one is that of the file.
LEMMA DigestOfSource ==
  ASSUME ShardTyped, InPlace, taken = PublishedFiles
  PROVE  source = PublishedFiles
<1>1. DOMAIN taken = 1..Chunks /\ \A n \in 1..Chunks : taken[n] = n
  BY DEF PublishedFiles
<1>2. \A n \in 1..Chunks : n # BAD /\ n # TORN
  BY ShardAssumption DEF BAD, TORN
<1>3. \A n \in 1..Chunks : source[n] = n
  BY <1>1, <1>2 DEF InPlace
<1> QED
  BY <1>3 DEF ShardTyped, PublishedFiles

\* A copy is resumed at its last whole chunk.
LEMMA ResumeKeeps ==
  ASSUME Whole, Resume
  PROVE  Whole'
<1> DEFINE whole == IF partial # <<>> /\ partial[Len(partial)] = TORN THEN Len(partial) - 1 ELSE Len(partial)
           first == AtMost(Workers, Chunks)
<1>1. /\ shardPc' = "reading" /\ prefix' = whole /\ partial' = SubSeq(partial, 1, whole)
      /\ taken' = <<>> /\ pending' = [n \in 1..first |-> Submitted(n)]
      /\ UNCHANGED <<source, sourceNamed, copied, verified>>
  BY DEF Resume
<1>2. partial \in Seq(Bytes) /\ Len(partial) \in Nat /\ (partial # <<>> => Len(partial) # 0)
  BY DEF Whole, ShardTyped
<1>3. whole \in 0..Len(partial)
  BY <1>2
<1>4. first \in Nat /\ first <= Chunks
  BY ShardAssumption DEF AtMost
<1> HIDE DEF whole, first
<1>5. /\ partial' \in Seq(Bytes) /\ Len(partial') = whole /\ DOMAIN partial' = 1..whole
      /\ \A n \in 1..whole : n \in DOMAIN partial /\ partial'[n] = partial[n]
  BY <1>1, <1>2, <1>3
<1>6. \A n \in 1..first : Submitted(n) \in ChunkRead /\ Submitted(n).chunk = n /\ Submitted(n).data = TORN
  BY <1>4, ShardAssumption DEF Submitted, ChunkRead, Bytes, TORN
<1>7. /\ pending' \in Seq(ChunkRead) /\ Len(pending') = first /\ DOMAIN pending' = 1..first
      /\ \A n \in 1..first : pending'[n].chunk = n /\ pending'[n].data = TORN
  BY <1>1, <1>4, <1>6
<1>8. taken' \in Seq(Bytes) /\ Len(taken') = 0 /\ DOMAIN taken' = {}
  BY <1>1
<1>9. ShardTyped'
  BY <1>1, <1>3, <1>5, <1>7, <1>8 DEF Whole, ShardTyped
<1>10. InPlace'
  <2>1. \A n \in DOMAIN partial' : partial'[n] \in {source[n], BAD, TORN}
    BY <1>1, <1>5 DEF Whole, InPlace
  <2>2. \A i \in DOMAIN pending' : pending'[i].chunk = Len(taken') + i /\ pending'[i].data \in {source[pending'[i].chunk], BAD, TORN}
    BY <1>4, <1>7, <1>8
  <2> QED
    BY <1>1, <1>3, <1>4, <1>5, <1>7, <1>8, <2>1, <2>2 DEF InPlace
<1> QED
  BY <1>1, <1>9, <1>10 DEF Whole, NamedIsWhole

\* A thread fills in the chunk that it was given.
LEMMA ReadKeeps ==
  ASSUME Whole, NEW i, ReadChunk(i)
  PROVE  Whole'
<1> DEFINE n == pending[i].chunk
           data == IF n <= prefix THEN partial[n] ELSE source[n]
<1>1. /\ i \in DOMAIN pending /\ pending[i].data = TORN
      /\ pending' = [pending EXCEPT ![i].data = data]
      /\ UNCHANGED <<source, sourceNamed, partial, copied, shardPc, prefix, taken, verified>>
  BY DEF ReadChunk
<1>2. /\ pending \in Seq(ChunkRead) /\ Len(pending) \in Nat /\ DOMAIN pending = 1..Len(pending)
      /\ partial \in Seq(Bytes) /\ Len(partial) \in Nat /\ DOMAIN partial = 1..Len(partial)
      /\ taken \in Seq(Bytes) /\ Len(taken) \in Nat /\ prefix \in Nat
  BY DEF Whole, ShardTyped
<1>3. shardPc = "reading"
  <2>1. pending # <<>>
    BY <1>1
  <2> QED
    BY <2>1 DEF Whole, InPlace
<1>4. pending[i] \in ChunkRead /\ n = Len(taken) + i /\ n \in 1..Chunks
  <2>1. pending[i] \in ChunkRead
    BY <1>1, <1>2
  <2> QED
    BY <1>1, <2>1 DEF Whole, InPlace, ChunkRead
<1>5. prefix <= Len(partial)
  <2>1. Len(partial) = IF Len(taken) < prefix THEN prefix ELSE Len(taken)
    BY <1>3 DEF Whole, InPlace
  <2> QED
    BY <1>2, <2>1
<1>6. data \in Bytes /\ data \in {source[n], BAD, TORN}
  <2>1. CASE n <= prefix
    <3>1. n \in DOMAIN partial
      BY <1>2, <1>4, <1>5, <2>1
    <3> QED
      BY <1>2, <2>1, <3>1 DEF Whole, InPlace
  <2>2. CASE ~(n <= prefix)
    <3>1. source[n] \in Bytes
      BY <1>4, ShardAssumption DEF Whole, ShardTyped, Bytes
    <3> QED
      BY <2>2, <3>1
  <2> QED
    BY <2>1, <2>2
<1> HIDE DEF data
<1>7. /\ pending' \in Seq(ChunkRead) /\ Len(pending') = Len(pending) /\ DOMAIN pending' = DOMAIN pending
      /\ \A j \in DOMAIN pending : pending'[j].chunk = pending[j].chunk
                                   /\ pending'[j].data = IF j = i THEN data ELSE pending[j].data
  <2> DEFINE r == [pending[i] EXCEPT !.data = data]
  <2>1. r \in ChunkRead /\ r.chunk = n /\ r.data = data
    BY <1>4, <1>6 DEF ChunkRead
  <2>2. pending' = [pending EXCEPT ![i] = r]
    BY <1>1
  <2> HIDE DEF r
  <2> QED
    BY <1>1, <1>2, <2>1, <2>2
<1>8. \A j \in DOMAIN pending' : pending'[j].chunk = Len(taken') + j /\ pending'[j].data \in {source[pending'[j].chunk], BAD, TORN}
  BY <1>1, <1>6, <1>7 DEF Whole, InPlace
<1>9. InPlace'
  BY <1>1, <1>3, <1>7, <1>8 DEF Whole, InPlace
<1> QED
  BY <1>1, <1>7, <1>9 DEF Whole, ShardTyped, NamedIsWhole

\* The oldest read is the chunk that comes next in the digest and in the copy.
LEMMA TakeKeeps ==
  ASSUME Whole, TakeChunk
  PROVE  Whole'
<1> DEFINE data == pending[1].data
           following == Len(taken) + Len(pending) + 1
           n == Len(taken) + 1
<1>1. /\ shardPc = "reading" /\ pending # <<>> /\ data # TORN
      /\ taken' = Append(taken, data)
      /\ pending' = IF following <= Chunks THEN Append(Tail(pending), Submitted(following)) ELSE Tail(pending)
      /\ shardPc' = IF pending' = <<>> THEN "checking" ELSE "reading"
      /\ \/ Len(taken) < prefix /\ partial' = partial
         \/ ~(Len(taken) < prefix) /\ \E d \in {data, BAD} : partial' = Append(partial, d)
      /\ UNCHANGED <<source, sourceNamed, copied, prefix, verified>>
  BY DEF TakeChunk
<1>2. /\ pending \in Seq(ChunkRead) /\ Len(pending) \in Nat /\ Len(pending) # 0 /\ DOMAIN pending = 1..Len(pending)
      /\ partial \in Seq(Bytes) /\ Len(partial) \in Nat /\ DOMAIN partial = 1..Len(partial)
      /\ taken \in Seq(Bytes) /\ Len(taken) \in Nat /\ DOMAIN taken = 1..Len(taken) /\ prefix \in Nat
  BY <1>1 DEF Whole, ShardTyped
<1>3. /\ data \in Bytes /\ data \in {source[n], BAD, TORN} /\ BAD \in Bytes /\ BAD \in {source[n], BAD, TORN}
  <2>1. 1 \in DOMAIN pending /\ pending[1] \in ChunkRead
    BY <1>2
  <2>2. pending[1].chunk = n /\ pending[1].data \in {source[pending[1].chunk], BAD, TORN}
    BY <2>1 DEF Whole, InPlace
  <2> QED
    BY <2>1, <2>2, ShardAssumption DEF ChunkRead, Bytes, BAD
<1> HIDE DEF data
<1>4. /\ taken' \in Seq(Bytes) /\ Len(taken') = n /\ DOMAIN taken' = 1..n
      /\ taken'[n] = data /\ \A m \in DOMAIN taken : taken'[m] = taken[m]
  BY <1>1, <1>2, <1>3
<1>5. \A m \in DOMAIN taken' : taken'[m] \in {source[m], BAD, TORN}
  <2>1. \A m \in 1..n : m \in DOMAIN taken \/ m = n
    BY <1>2
  <2> QED
    BY <1>1, <1>3, <1>4, <2>1 DEF Whole, InPlace
<1>6. /\ partial' \in Seq(Bytes)
      /\ \A m \in DOMAIN partial' : partial'[m] \in {source[m], BAD, TORN}
      /\ Len(partial') = IF n < prefix THEN prefix ELSE n
  <2>1. CASE Len(taken) < prefix
    <3>1. partial' = partial
      BY <1>1, <2>1
    <3>2. Len(partial) = prefix
      BY <1>1, <2>1 DEF Whole, InPlace
    <3>3. prefix = IF n < prefix THEN prefix ELSE n
      BY <1>2, <2>1
    <3> QED
      BY <1>2, <3>1, <3>2, <3>3 DEF Whole, InPlace
  <2>2. CASE ~(Len(taken) < prefix)
    <3>1. PICK d \in {data, BAD} : partial' = Append(partial, d)
      BY <1>1, <2>2
    <3>2. Len(partial) = Len(taken)
      BY <1>1, <2>2 DEF Whole, InPlace
    <3>3. /\ partial' \in Seq(Bytes) /\ Len(partial') = n /\ DOMAIN partial' = 1..n
          /\ partial'[n] = d /\ \A m \in DOMAIN partial : partial'[m] = partial[m]
      BY <1>2, <1>3, <3>1, <3>2
    <3>4. \A m \in 1..n : m \in DOMAIN partial \/ m = n
      BY <1>2, <3>2
    <3>5. \A m \in DOMAIN partial' : partial'[m] \in {source[m], BAD, TORN}
      BY <1>1, <1>3, <3>1, <3>3, <3>4 DEF Whole, InPlace
    <3> QED
      BY <1>2, <2>2, <3>3, <3>5
  <2> QED
    BY <2>1, <2>2
<1> DEFINE tail == Tail(pending)
<1>7. /\ tail \in Seq(ChunkRead) /\ Len(tail) = Len(pending) - 1 /\ DOMAIN tail = 1..(Len(pending) - 1)
      /\ \A i \in DOMAIN tail : i + 1 \in DOMAIN pending /\ tail[i] = pending[i + 1]
  BY <1>2
<1>8. \A i \in DOMAIN tail : tail[i].chunk = n + i /\ tail[i].data \in {source[tail[i].chunk], BAD, TORN}
  <2>1. \A i \in DOMAIN tail : i + 1 \in DOMAIN pending /\ tail[i] = pending[i + 1] /\ i \in Nat
    BY <1>2, <1>7
  <2>2. \A i \in DOMAIN pending : pending[i].chunk = Len(taken) + i /\ pending[i].data \in {source[pending[i].chunk], BAD, TORN}
    BY DEF Whole, InPlace
  <2>3. \A i \in Nat : Len(taken) + (i + 1) = n + i
    BY <1>2
  <2> QED
    BY <2>1, <2>2, <2>3
<1> HIDE DEF tail
<1>9. /\ pending' \in Seq(ChunkRead) /\ n + Len(pending') <= Chunks
      /\ \A i \in DOMAIN pending' : pending'[i].chunk = n + i /\ pending'[i].data \in {source[pending'[i].chunk], BAD, TORN}
  <2>1. Len(taken) + Len(pending) <= Chunks
    BY <1>1 DEF Whole, InPlace
  <2>2. CASE following <= Chunks
    <3> DEFINE s == Submitted(following)
    <3>1. s \in ChunkRead /\ s.chunk = following /\ s.data \in {source[s.chunk], BAD, TORN}
      BY <1>2, <2>2, ShardAssumption DEF Submitted, ChunkRead, Bytes, TORN
    <3> HIDE DEF s
    <3>2. pending' = Append(tail, s)
      BY <1>1, <2>2 DEF s, tail
    <3>7. /\ pending' \in Seq(ChunkRead) /\ Len(pending') = Len(tail) + 1 /\ DOMAIN pending' = 1..(Len(tail) + 1)
          /\ pending'[Len(tail) + 1] = s /\ \A i \in 1..Len(tail) : pending'[i] = tail[i]
      BY <1>7, <3>1, <3>2
    <3>8. Len(tail) + 1 = Len(pending) /\ DOMAIN tail = 1..Len(tail)
      BY <1>2, <1>7
    <3>3. /\ pending' \in Seq(ChunkRead) /\ Len(pending') = Len(pending) /\ DOMAIN pending' = 1..Len(pending)
          /\ pending'[Len(pending)] = s /\ \A i \in DOMAIN tail : pending'[i] = tail[i]
      BY <3>7, <3>8
    <3>4. \A i \in 1..Len(pending) : i \in DOMAIN tail \/ i = Len(pending)
      <4>1. \A k \in Nat : \A i \in 1..k : i \in 1..(k - 1) \/ i = k
        OBVIOUS
      <4>2. \A i \in 1..Len(pending) : i \in 1..(Len(pending) - 1) \/ i = Len(pending)
        BY <1>2, <4>1, Zenon
      <4> QED
        BY <1>7, <4>2, Zenon
    <3>5. s.chunk = n + Len(pending)
      BY <1>2, <3>1
    <3>6. \A i \in DOMAIN pending' : pending'[i].chunk = n + i /\ pending'[i].data \in {source[pending'[i].chunk], BAD, TORN}
      BY <1>8, <3>1, <3>3, <3>4, <3>5
    <3> QED
      BY <1>2, <2>2, <3>3, <3>6
  <2>3. CASE ~(following <= Chunks)
    <3>1. pending' = tail
      BY <1>1, <2>3 DEF tail
    <3>2. n + Len(tail) <= Chunks
      BY <1>2, <1>7, <2>1
    <3> QED
      BY <1>7, <1>8, <3>1, <3>2
  <2> QED
    BY <2>2, <2>3
<1>10. ShardTyped'
  BY <1>1, <1>2, <1>4, <1>6, <1>9 DEF Whole, ShardTyped
<1>11. InPlace'
  <2>1. \A i \in DOMAIN pending' : pending'[i].chunk = Len(taken') + i /\ pending'[i].data \in {source[pending'[i].chunk], BAD, TORN}
    BY <1>1, <1>4, <1>9
  <2>2. shardPc' # "reading" => pending' = <<>>
    BY <1>1
  <2> QED
    BY <1>1, <1>4, <1>5, <1>6, <1>9, <2>1, <2>2 DEF InPlace
<1>12. NamedIsWhole'
  BY <1>1 DEF Whole, NamedIsWhole
<1> QED
  BY <1>10, <1>11, <1>12 DEF Whole

\* The two digests, the names, and a new start.
LEMMA EndKeeps ==
  ASSUME Whole, CheckDigests \/ NameSource \/ Interrupted
  PROVE  Whole'
<1>1. <<>> \in Seq(Bytes) /\ <<>> \in Seq(ChunkRead) /\ Len(<<>>) = 0 /\ DOMAIN <<>> = {}
  OBVIOUS
<1>2. CASE CheckDigests
  <2>1. /\ shardPc' \in {"naming", "failed"} /\ UNCHANGED <<source, sourceNamed, prefix, pending, taken, verified>>
        /\ (partial' = partial \/ partial' = <<>>) /\ pending = <<>>
    BY <1>2 DEF CheckDigests, Whole, InPlace
  <2>2. ShardTyped' /\ InPlace'
    BY <1>1, <2>1 DEF Whole, ShardTyped, InPlace
  <2>3. CASE taken = PublishedFiles /\ partial = taken
    <3>1. source = PublishedFiles
      BY <2>3, DigestOfSource DEF Whole
    <3> QED
      BY <1>2, <2>1, <2>2, <2>3, <3>1 DEF CheckDigests, Whole, NamedIsWhole
  <2>4. CASE ~(taken = PublishedFiles /\ partial = taken)
    BY <1>2, <2>1, <2>2, <2>4 DEF CheckDigests, Whole, NamedIsWhole
  <2> QED
    BY <2>3, <2>4
<1>3. CASE NameSource
  BY <1>3 DEF NameSource, Whole, ShardTyped, InPlace, NamedIsWhole
<1>4. CASE Interrupted
  <2>1. /\ shardPc' = "idle" /\ pending' = <<>> /\ taken' = <<>> /\ prefix' = 0
        /\ UNCHANGED <<source, sourceNamed, copied, verified>>
    BY <1>4 DEF Interrupted
  <2>2. partial' \in Seq(Bytes) /\ \A m \in DOMAIN partial' : partial'[m] \in {source[m], BAD, TORN}
    <3>1. CASE partial' = partial
      BY <2>1, <3>1 DEF Whole, ShardTyped, InPlace
    <3>2. CASE partial # <<>> /\ partial' = [partial EXCEPT ![Len(partial)] = TORN]
      <4>1. partial \in Seq(Bytes) /\ Len(partial) \in DOMAIN partial /\ TORN \in Bytes
        BY <3>2, ShardAssumption DEF Whole, ShardTyped, TORN, Bytes
      <4>2. partial' \in Seq(Bytes) /\ DOMAIN partial' = DOMAIN partial
            /\ \A m \in DOMAIN partial : partial'[m] = TORN \/ partial'[m] = partial[m]
        BY <3>2, <4>1
      <4> QED
        BY <2>1, <4>2 DEF Whole, InPlace
    <3> QED
      BY <1>4, <3>1, <3>2 DEF Interrupted
  <2> QED
    BY <1>1, <2>1, <2>2 DEF Whole, ShardTyped, InPlace, NamedIsWhole
<1> QED
  BY <1>2, <1>3, <1>4

\* The invariant of a verification.
LEMMA WholeInvariance == ShardSpec => []Whole
<1>1. ShardInit => Whole
  <2> SUFFICES ASSUME ShardInit PROVE Whole
    OBVIOUS
  <2>1. source \in [1..Chunks -> 0..Chunks]
    <3>1. PublishedFiles \in [1..Chunks -> 0..Chunks] /\ BAD \in 0..Chunks
      BY ShardAssumption DEF PublishedFiles, BAD
    <3>2. \A n \in 1..Chunks : [PublishedFiles EXCEPT ![n] = BAD] \in [1..Chunks -> 0..Chunks]
      BY <3>1
    <3> QED
      BY <3>1, <3>2 DEF ShardInit
  <2> QED
    BY <2>1 DEF ShardInit, Whole, ShardTyped, InPlace, NamedIsWhole
<1>2. Whole /\ [ShardNext]_shardVars => Whole'
  <2> SUFFICES ASSUME Whole, [ShardNext]_shardVars PROVE Whole'
    OBVIOUS
  <2>1. CASE UNCHANGED shardVars
    BY <2>1 DEF shardVars, Whole, ShardTyped, InPlace, NamedIsWhole
  <2> QED
    BY <2>1, ResumeKeeps, ReadKeeps, TakeKeeps, EndKeeps DEF ShardNext
<1> QED
  BY <1>1, <1>2, PTL DEF ShardSpec

\* What has its final name, and what is recorded as verified, is whole and is what
\* was published (verify_file and its resumed copy).
THEOREM VerifiedIsWholeHolds == ShardSpec => []VerifiedIsWhole
<1>1. Whole => VerifiedIsWhole
  BY DEF Whole, NamedIsWhole, VerifiedIsWhole
<1> QED
  BY <1>1, WholeInvariance, PTL

-----------------------------------------------------------------------------
(* The types of a verification: the copy is no longer than the file, and   *)
(* no more reads are under way than the pool has threads.                  *)

Sized ==
  /\ shardPc \in {"idle", "reading", "checking", "naming", "failed"}
  /\ sourceNamed \in BOOLEAN /\ verified \in BOOLEAN
  /\ Len(partial) <= Chunks /\ prefix <= Chunks /\ Len(pending) <= Workers
  /\ shardFaults \in 0..MaxShardFaults

\* A step may be a fault, and there are no more of them than MaxShardFaults.
LEMMA ShardFaultsCounted ==
  ASSUME Sized, shardFaults' = shardFaults \/ ShardFault
  PROVE  shardFaults' \in 0..MaxShardFaults
<1>1. MaxShardFaults \in Nat
  BY ShardAssumption
<1> QED
  BY <1>1 DEF Sized, ShardFault

\* Every step keeps the sizes.
LEMMA SizedStep == Whole /\ Sized /\ [ShardNext]_shardVars => Sized'
<1> SUFFICES ASSUME Whole, Sized, [ShardNext]_shardVars PROVE Sized'
  OBVIOUS
<1>1. /\ partial \in Seq(Bytes) /\ Len(partial) \in Nat /\ taken \in Seq(Bytes) /\ Len(taken) \in Nat
      /\ pending \in Seq(ChunkRead) /\ Len(pending) \in Nat /\ prefix \in Nat
      /\ Chunks \in Nat \ {0} /\ Workers \in Nat \ {0}
  BY ShardAssumption DEF Whole, ShardTyped
<1>2. CASE UNCHANGED shardVars
  BY <1>2 DEF shardVars, Sized
<1>3. CASE Resume
  <2> DEFINE whole == IF partial # <<>> /\ partial[Len(partial)] = TORN THEN Len(partial) - 1 ELSE Len(partial)
             first == AtMost(Workers, Chunks)
  <2>1. /\ shardPc' = "reading" /\ prefix' = whole /\ partial' = SubSeq(partial, 1, whole)
        /\ pending' = [n \in 1..first |-> Submitted(n)]
        /\ UNCHANGED <<sourceNamed, verified, shardFaults>>
    BY <1>3 DEF Resume
  <2>2. whole \in 0..Len(partial)
    BY <1>1
  <2>3. first \in Nat /\ first <= Workers
    BY <1>1 DEF AtMost
  <2> HIDE DEF whole, first
  <2>4. Len(partial') = whole /\ Len(pending') = first
    BY <1>1, <2>1, <2>2, <2>3
  <2> QED
    BY <1>1, <2>1, <2>2, <2>3, <2>4 DEF Sized
<1>4. ASSUME NEW i \in 1..Workers, ReadChunk(i) PROVE Sized'
  <2>1. UNCHANGED <<sourceNamed, partial, shardPc, prefix, verified, shardFaults>> /\ Len(pending') = Len(pending)
    BY <1>1, <1>4 DEF ReadChunk
  <2> QED
    BY <2>1 DEF Sized
<1>5. CASE TakeChunk
  <2>1. /\ shardPc = "reading" /\ pending # <<>> /\ shardPc' \in {"reading", "checking"}
        /\ (pending' = Tail(pending) \/ \E s : pending' = Append(Tail(pending), s))
        /\ UNCHANGED <<sourceNamed, prefix, verified>>
    BY <1>5 DEF TakeChunk
  <2>2. shardFaults' \in 0..MaxShardFaults
    BY <1>5, ShardFaultsCounted DEF TakeChunk
  <2>3. Len(pending') <= Workers
    <3>1. Len(pending) # 0
      BY <1>1, <2>1
    <3> DEFINE tail == Tail(pending)
    <3>2. tail \in Seq(ChunkRead) /\ Len(tail) = Len(pending) - 1
      BY <1>1, <2>1
    <3>3. pending' = tail \/ \E s : pending' = Append(tail, s)
      BY <2>1
    <3> HIDE DEF tail
    <3>4. \A s : Len(Append(tail, s)) = Len(tail) + 1
      BY <3>2
    <3>5. Len(pending') = Len(tail) \/ Len(pending') = Len(tail) + 1
      BY <3>3, <3>4
    <3> QED
      BY <1>1, <3>1, <3>2, <3>5 DEF Sized
  <2>4. Len(partial') <= Chunks
    <3>1. CASE partial' = partial
      BY <3>1 DEF Sized
    <3>2. CASE ~(Len(taken) < prefix) /\ \E d : partial' = Append(partial, d)
      <4>1. Len(partial) = Len(taken) /\ Len(taken) + Len(pending) <= Chunks
        BY <2>1, <3>2 DEF Whole, InPlace
      <4>2. Len(pending) # 0
        BY <1>1, <2>1
      <4>3. Len(partial') = Len(partial) + 1
        BY <1>1, <3>2
      <4> QED
        BY <1>1, <4>1, <4>2, <4>3
    <3>3. partial' = partial \/ (~(Len(taken) < prefix) /\ \E d : partial' = Append(partial, d))
      BY <1>5 DEF TakeChunk
    <3> QED
      BY <3>1, <3>2, <3>3
  <2> QED
    BY <2>1, <2>2, <2>3, <2>4 DEF Sized
<1>6. CASE CheckDigests \/ NameSource
  <2>1. /\ shardPc' \in {"idle", "naming", "failed"} /\ (partial' = partial \/ partial' = <<>>)
        /\ sourceNamed' \in BOOLEAN /\ verified' \in BOOLEAN
        /\ UNCHANGED <<prefix, pending, shardFaults>>
    BY <1>6 DEF CheckDigests, NameSource, Sized
  <2>2. Len(partial') <= Chunks
    BY <1>1, <2>1 DEF Sized
  <2> QED
    BY <2>1, <2>2 DEF Sized
<1>7. CASE Interrupted
  <2>1. /\ shardPc' = "idle" /\ pending' = <<>> /\ prefix' = 0 /\ UNCHANGED <<sourceNamed, verified>>
        /\ (partial' = partial \/ partial' = [partial EXCEPT ![Len(partial)] = TORN])
    BY <1>7 DEF Interrupted
  <2>2. Len(partial') = Len(partial)
    BY <1>1, <2>1
  <2>3. shardFaults' \in 0..MaxShardFaults
    BY <1>7, ShardFaultsCounted DEF Interrupted
  <2>4. Len(pending') = 0
    BY <2>1
  <2> QED
    BY <1>1, <2>1, <2>2, <2>3, <2>4 DEF Sized
<1> QED
  BY <1>2, <1>3, <1>4, <1>5, <1>6, <1>7 DEF ShardNext

\* Every variable of a verification has a value the script can give it: as many
\* reads as threads, of chunks of the file, and never more of the copy than that.
THEOREM ShardTypeCorrect == ShardSpec => []ShardTypeOK
<1>1. ShardInit => Sized
  <2> SUFFICES ASSUME ShardInit PROVE Sized
    OBVIOUS
  <2>1. 0 \in 0..MaxShardFaults /\ 0 <= Chunks /\ 0 <= Workers /\ Len(<<>>) = 0
    BY ShardAssumption
  <2> QED
    BY <2>1 DEF ShardInit, Sized
<1>2. Whole /\ Sized => ShardTypeOK
  <2> SUFFICES ASSUME Whole, Sized PROVE ShardTypeOK
    OBVIOUS
  <2>1. Chunks \in Nat \ {0} /\ \A x \in 0..Chunks : x \in Bytes
    BY ShardAssumption DEF Bytes
  <2>2. source \in Seq(Bytes)
    BY <2>1 DEF Whole, ShardTyped
  <2>3. copied \in Seq(Bytes)
    <3>1. PublishedFiles \in Seq(Bytes)
      BY <2>1 DEF PublishedFiles
    <3>2. <<>> \in Seq(Bytes)
      OBVIOUS
    <3> QED
      BY <3>1, <3>2 DEF Whole, NamedIsWhole
  <2>4. prefix \in 0..Chunks
    BY <2>1 DEF Whole, ShardTyped, Sized
  <2>5. pending \in Seq([chunk : 1..Chunks, data : Bytes])
    BY DEF Whole, ShardTyped, ChunkRead
  <2> QED
    BY <2>2, <2>3, <2>4, <2>5 DEF Whole, ShardTyped, Sized, ShardTypeOK
<1> QED
  BY <1>1, <1>2, WholeInvariance, SizedStep, PTL DEF ShardSpec

-----------------------------------------------------------------------------
(***************************************************************************)
(* Bench. For every corpus and tokenizer: the lengths just outside of the  *)
(* bounds of the binary search were probed, one with too few tokens and    *)
(* one with too many, and neither is nearer than the best so far.          *)
(***************************************************************************)

\* What is true of the trials and of the search of "pp".
OnTrial ==
  /\ done \in Nat
  /\ benchStep = "reset" => protocol # "pp"
  /\ protocol = "pp" /\ benchStep \in {"fit", "trial"} => done < Rounds

SearchTyped ==
  protocol = "pp" /\ benchStep \in {"fit", "trial"} =>
    /\ count \in Tokenizers /\ best \in 0..CorpusLength /\ bestCount \in Nat
    /\ low \in Nat \ {0} /\ high \in Nat /\ high <= CorpusLength

\* The tokens that fit has noted are of the prompt it has noted.
NotedTogether ==
  protocol = "pp" /\ benchStep = "fit" => bestCount = IF best = 0 THEN 0 ELSE count[best]

\* The tokens asked for are passed between the bounds.
Bracketed ==
  protocol = "pp" /\ benchStep = "fit" =>
    /\ low <= high + 1
    /\ low > 1 => count[low - 1] < Target /\ AsNear(low - 1)
    /\ high < CorpusLength => count[high + 1] > Target /\ AsNear(high + 1)

Fitted == OnTrial /\ SearchTyped /\ NotedTogether /\ Bracketed /\ FitFindsCrossing

\* The middle of two bounds is between them.
LEMMA Middle ==
  ASSUME NEW l \in Int, NEW h \in Int, l <= h
  PROVE  (l + h) \div 2 \in Int /\ l <= (l + h) \div 2 /\ (l + h) \div 2 <= h
OBVIOUS

\* Of fewer than n * p trials, p of each size, each is of one of n sizes.
LEMMA Quotient ==
  ASSUME NEW d \in Nat, NEW p \in Nat, NEW n \in Nat, d < n * p
  PROVE  d \div p \in 0..(n - 1)
<1> DEFINE q == d \div p
<1>1. p > 0
  <2>1. n * 0 = 0
    OBVIOUS
  <2> QED
    BY <2>1
<1>2. q \in Nat
  <2>1. q \in Int
    BY <1>1
  <2>2. q >= 0
    BY <1>1
  <2> QED
    BY <2>1, <2>2
<1>3. p * q <= d
  BY <1>1
<1> HIDE DEF q
<1>4. p * q < p * n
  BY <1>2, <1>3
<1>5. q < n
  BY <1>2, <1>4
<1> QED
  BY <1>2, <1>5 DEF q

\* The tokens asked for in a trial of "pp" are a number.
LEMMA TargetTyped ==
  ASSUME done \in Nat, done < Rounds
  PROVE  Target \in Nat
<1>1. PerSize \in Nat /\ Len(Sizes) \in Nat /\ Sizes \in Seq(Nat) /\ DOMAIN Sizes = 1..Len(Sizes)
  BY BenchAssumption DEF PerSize
<1>2. done \div PerSize \in 0..(Len(Sizes) - 1)
  BY <1>1, Quotient DEF Rounds
<1>3. 1 + (done \div PerSize) \in DOMAIN Sizes
  BY <1>1, <1>2
<1> QED
  BY <1>1, <1>3 DEF Target

\* A distance is a number.
LEMMA DistanceTyped ==
  ASSUME NEW a \in Nat, NEW t \in Nat
  PROVE  Distance(a, t) \in Nat
BY DEF Distance

\* A probe leaves a length behind that is no nearer than the best one, on its side.
LEMMA ProbeKeeps ==
  ASSUME Fitted, protocol = "pp", FitProbes
  PROVE  Fitted'
<1> DEFINE mid == (low + high) \div 2
           c == count[mid]
           t == Target
<1>1. /\ benchStep = "fit" /\ low <= high
      /\ low' = IF c < t THEN mid + 1 ELSE low
      /\ high' = IF c > t THEN mid - 1 ELSE high
      /\ IF Distance(c, t) < Distance(bestCount, t)
           THEN best' = mid /\ bestCount' = c ELSE best' = best /\ bestCount' = bestCount
      /\ benchStep' = IF c = t THEN "trial" ELSE "fit"
      /\ UNCHANGED <<protocol, done, count>>
  BY DEF FitProbes, Halve
<1>2. /\ count \in Tokenizers /\ best \in 0..CorpusLength /\ bestCount \in Nat /\ done \in Nat /\ done < Rounds
      /\ low \in Nat \ {0} /\ high \in Nat /\ high <= CorpusLength
      /\ bestCount = IF best = 0 THEN 0 ELSE count[best]
  BY <1>1 DEF Fitted, OnTrial, SearchTyped, NotedTogether
<1>3. t \in Nat /\ t = Target'
  BY <1>1, <1>2, TargetTyped DEF Target, PerSize
<1>4. mid \in 1..CorpusLength /\ low <= mid /\ mid <= high
  <2>1. mid \in Int /\ low <= mid /\ mid <= high
    BY <1>1, <1>2, Middle
  <2> HIDE DEF mid
  <2> QED
    BY <1>2, <2>1, BenchAssumption
<1> HIDE DEF mid
<1>5. \A n \in 1..CorpusLength : count[n] \in Nat
  BY <1>2, BenchAssumption DEF Tokenizers
<1>6. c \in Nat
  BY <1>4, <1>5
<1>7. /\ low > 1 => low - 1 \in 1..CorpusLength /\ count[low - 1] < t /\ Distance(bestCount, t) <= Distance(count[low - 1], t)
      /\ high < CorpusLength =>
           high + 1 \in 1..CorpusLength /\ count[high + 1] > t /\ Distance(bestCount, t) <= Distance(count[high + 1], t)
  BY <1>1, <1>2, BenchAssumption DEF Fitted, Bracketed, AsNear
<1> HIDE DEF c, t
<1>8. /\ bestCount' \in Nat /\ best' \in 0..CorpusLength
      /\ bestCount' = IF best' = 0 THEN 0 ELSE count[best']
      /\ Distance(bestCount', t) <= Distance(c, t) /\ Distance(bestCount', t) <= Distance(bestCount, t)
  <2>1. Distance(c, t) \in Nat /\ Distance(bestCount, t) \in Nat
    BY <1>2, <1>3, <1>6, DistanceTyped
  <2>2. CASE Distance(c, t) < Distance(bestCount, t)
    <3>1. best' = mid /\ bestCount' = c
      BY <1>1, <2>2
    <3> QED
      BY <1>4, <1>6, <2>1, <2>2, <3>1 DEF c
  <2>3. CASE ~(Distance(c, t) < Distance(bestCount, t))
    <3>1. best' = best /\ bestCount' = bestCount
      BY <1>1, <2>3
    <3> QED
      BY <1>2, <2>1, <2>3, <3>1
  <2> QED
    BY <2>2, <2>3
<1>9. \A n \in 1..CorpusLength :
        n = mid \/ Distance(bestCount, t) <= Distance(count[n], t) => Distance(bestCount', t) <= Distance(count[n], t)
  <2> SUFFICES ASSUME NEW n \in 1..CorpusLength, n = mid \/ Distance(bestCount, t) <= Distance(count[n], t)
               PROVE  Distance(bestCount', t) <= Distance(count[n], t)
    OBVIOUS
  <2>1. /\ Distance(bestCount', t) \in Nat /\ Distance(bestCount, t) \in Nat
        /\ Distance(count[n], t) \in Nat
    BY <1>2, <1>3, <1>5, <1>8, DistanceTyped
  <2>2. n = mid => count[n] = c
    BY DEF c
  <2> QED
    BY <1>8, <2>1, <2>2
<1>10. low' \in Nat \ {0} /\ high' \in Nat /\ high' <= CorpusLength /\ low' <= high' + 1
  BY <1>1, <1>2, <1>3, <1>4, <1>6, BenchAssumption
<1>11. low' > 1 => count[low' - 1] < t /\ Distance(bestCount', t) <= Distance(count[low' - 1], t)
  <2>1. CASE c < t
    <3>1. low' - 1 = mid
      BY <1>1, <1>4, <2>1
    <3> QED
      BY <1>4, <1>9, <2>1, <3>1 DEF c
  <2>2. CASE ~(c < t)
    <3>1. low' = low
      BY <1>1, <2>2
    <3> QED
      BY <1>7, <1>9, <3>1
  <2> QED
    BY <2>1, <2>2
<1>12. high' < CorpusLength => count[high' + 1] > t /\ Distance(bestCount', t) <= Distance(count[high' + 1], t)
  <2>1. CASE c > t
    <3>1. high' + 1 = mid
      BY <1>1, <1>4, <2>1
    <3> QED
      BY <1>4, <1>9, <2>1, <3>1 DEF c
  <2>2. CASE ~(c > t)
    <3>1. high' = high
      BY <1>1, <2>2
    <3> QED
      BY <1>7, <1>9, <3>1
  <2> QED
    BY <2>1, <2>2
<1>13. c = t => bestCount' = t
  BY <1>3, <1>8 DEF Distance
<1>14. OnTrial' /\ SearchTyped' /\ NotedTogether'
  BY <1>1, <1>2, <1>8, <1>10 DEF OnTrial, SearchTyped, NotedTogether, Rounds, PerSize
<1>15. Bracketed'
  BY <1>1, <1>3, <1>10, <1>11, <1>12 DEF Bracketed, AsNear
<1>16. FitFindsCrossing'
  BY <1>1, <1>3, <1>8, <1>13 DEF FitFindsCrossing
<1> QED
  BY <1>14, <1>15, <1>16 DEF Fitted

\* When the bounds have met, the tokens asked for are passed at the upper one.
LEMMA FitEndKeeps ==
  ASSUME Fitted, protocol = "pp", FitEnds
  PROVE  Fitted'
<1>1. /\ benchStep = "fit" /\ low > high /\ benchStep' = "trial"
      /\ UNCHANGED <<protocol, done, count, low, high, best, bestCount>>
  BY DEF FitEnds, fitVars
<1>2. OnTrial' /\ SearchTyped' /\ NotedTogether' /\ Bracketed'
  BY <1>1 DEF Fitted, OnTrial, SearchTyped, NotedTogether, Bracketed, Rounds, PerSize, Tokenizers
<1>3. FitFindsCrossing'
  <2> SUFFICES /\ bestCount = IF best = 0 THEN 0 ELSE count[best]
               /\ \E n \in 0..CorpusLength :
                    /\ n > 0 => count[n] < Target /\ AsNear(n)
                    /\ n < CorpusLength => count[n + 1] > Target /\ AsNear(n + 1)
    BY <1>1 DEF FitFindsCrossing, AsNear, Target, PerSize
  <2>1. low \in Nat \ {0} /\ high \in Nat /\ high <= CorpusLength
    BY <1>1 DEF Fitted, SearchTyped
  <2>2. /\ low <= high + 1
        /\ low > 1 => count[low - 1] < Target /\ AsNear(low - 1)
        /\ high < CorpusLength => count[high + 1] > Target /\ AsNear(high + 1)
    BY <1>1 DEF Fitted, Bracketed
  <2>3. high \in 0..CorpusLength /\ low = high + 1 /\ low - 1 = high
    BY <1>1, <2>1, <2>2, BenchAssumption
  <2>4. /\ high > 0 => count[high] < Target /\ AsNear(high)
        /\ high < CorpusLength => count[high + 1] > Target /\ AsNear(high + 1)
    BY <2>1, <2>2, <2>3
  <2>5. bestCount = IF best = 0 THEN 0 ELSE count[best]
    BY <1>1 DEF Fitted, NotedTogether
  <2> QED
    BY <2>3, <2>4, <2>5
<1> QED
  BY <1>2, <1>3 DEF Fitted

\* Every step of the script.
LEMMA FitStepKeeps ==
  ASSUME Fitted, [BenchNext]_benchVars
  PROVE  Fitted'
<1>1. CASE NextTrial
  <2>1. CASE protocol = "pp"
    <3>1. /\ benchStep' = "fit" /\ count' \in Tokenizers /\ low' = 1 /\ high' = CorpusLength
          /\ best' = 0 /\ bestCount' = 0 /\ done < Rounds /\ UNCHANGED <<protocol, done>>
      BY <1>1, <2>1 DEF NextTrial
    <3>2. OnTrial' /\ FitFindsCrossing'
      BY <3>1 DEF Fitted, OnTrial, Rounds, PerSize, FitFindsCrossing
    <3>3. SearchTyped' /\ NotedTogether'
      BY <3>1, BenchAssumption DEF SearchTyped, NotedTogether, Tokenizers
    <3>4. Bracketed'
      BY <3>1, BenchAssumption DEF Bracketed
    <3> QED
      BY <3>2, <3>3, <3>4 DEF Fitted
  <2>2. CASE protocol # "pp"
    BY <1>1, <2>2 DEF NextTrial, Fitted, OnTrial, SearchTyped, NotedTogether, Bracketed, FitFindsCrossing
  <2> QED
    BY <2>1, <2>2
<1>2. CASE BuildsPrompt \/ ReplacesOutput \/ Finishes \/ BenchKilled
  BY <1>2 DEF BuildsPrompt, ReplacesOutput, Finishes, BenchKilled, Fitted, OnTrial, SearchTyped, NotedTogether, Bracketed, FitFindsCrossing
<1>3. CASE ResetsCache
  BY <1>3 DEF ResetsCache, Fitted, OnTrial, SearchTyped, NotedTogether, Bracketed, FitFindsCrossing
<1>4. CASE FitProbes
  <2>1. CASE protocol = "pp"
    BY <1>4, <2>1, ProbeKeeps
  <2>2. CASE protocol # "pp"
    BY <1>4, <2>2 DEF FitProbes, Fitted, OnTrial, SearchTyped, NotedTogether, Bracketed, FitFindsCrossing
  <2> QED
    BY <2>1, <2>2
<1>5. CASE FitEnds
  <2>1. CASE protocol = "pp"
    BY <1>5, <2>1, FitEndKeeps
  <2>2. CASE protocol # "pp"
    BY <1>5, <2>2 DEF FitEnds, fitVars, Fitted, OnTrial, SearchTyped, NotedTogether, Bracketed, FitFindsCrossing
  <2> QED
    BY <2>1, <2>2
<1>6. CASE /\ UNCHANGED <<protocol, done, count, low, high, best, bestCount>>
           /\ benchStep' = benchStep \/ benchStep' = "save"
  <2>1. OnTrial' /\ SearchTyped' /\ NotedTogether' /\ Bracketed'
    BY <1>6 DEF Fitted, OnTrial, SearchTyped, NotedTogether, Bracketed, AsNear, Rounds, Target, PerSize, Tokenizers
  <2>2. FitFindsCrossing'
    BY <1>6 DEF Fitted, FitFindsCrossing, AsNear, Target, PerSize
  <2> QED
    BY <2>1, <2>2 DEF Fitted
<1>7. CASE \E w \in {1, 2} : TrialStarts(w) \/ TrialEnds(w)
  BY <1>6, <1>7 DEF TrialStarts, TrialEnds, fitVars
<1>8. CASE SavesTemp
  <2>1. benchStep' = "replace" /\ done' = done + 1
    BY <1>8 DEF SavesTemp
  <2> QED
    BY <2>1 DEF Fitted, OnTrial, SearchTyped, NotedTogether, Bracketed, FitFindsCrossing
<1>9. CASE UNCHANGED benchVars
  BY <1>6, <1>9 DEF benchVars, fitVars
<1> QED
  BY <1>1, <1>2, <1>3, <1>4, <1>5, <1>7, <1>8, <1>9 DEF BenchNext

\* When the search is over the prompt it chose has the tokens asked for, or comes as near
\* to them as both sides of a place where the counts pass them, and the tokens reported
\* are its own (fit, for every corpus and size, and whatever the tokenizer does).
THEOREM FitFindsCrossingHolds == BenchSpec => []FitFindsCrossing
<1>1. BenchInit => Fitted
  BY DEF BenchInit, Fitted, OnTrial, SearchTyped, NotedTogether, Bracketed, FitFindsCrossing
<1>2. Fitted /\ [BenchNext]_benchVars => Fitted'
  BY FitStepKeeps
<1>3. Fitted => FitFindsCrossing
  BY DEF Fitted
<1> QED
  BY <1>1, <1>2, <1>3, PTL DEF BenchSpec
-----------------------------------------------------------------------------
(* The types of a benchmark: no trial begins when all are done, and the    *)
(* cache is not cleared more than MaxResets times.                         *)

WorkerStates == {"idle", "waits", "streams", "ok", "failed"}
BenchSteps == {"next", "build", "reset", "fit", "trial", "save", "replace", "passed", "failed", "killed"}

BenchTyped ==
  /\ BenchTypeOK
  /\ benchStep \in {"build", "reset", "fit", "trial", "save"} => done < Rounds
  /\ benchStep = "reset" => resets < MaxResets

\* The numbers of a benchmark.
LEMMA BenchNumbers ==
  /\ CorpusLength \in Nat /\ {MaxTokens, MaxResets} \subseteq Nat \ {0} /\ MaxGuesses \in Nat /\ MaxBenchFaults \in Nat
  /\ Rounds \in Nat /\ PerSize \in Nat
<1>1. CorpusLength \in Nat /\ {MaxTokens, MaxResets} \subseteq Nat \ {0} /\ MaxGuesses \in Nat /\ MaxBenchFaults \in Nat
  BY BenchAssumption
<1>2. PerSize \in Nat /\ Len(Sizes) \in Nat
  BY BenchAssumption DEF PerSize
<1>3. \A m, n \in Nat : m * n \in Nat
  OBVIOUS
<1> QED
  BY <1>1, <1>2, <1>3 DEF Rounds

\* The requests that are about to start.
LEMMA GoingTyped == Going \in [{1, 2} -> WorkerStates]
  BY DEF Going, WorkerStates

\* A step that leaves the search and the records alone.
LEMMA BenchMoves ==
  ASSUME BenchTyped, UNCHANGED <<protocol, resetting, done, records, saved>>, UNCHANGED fitVars,
         benchStep' \in BenchSteps, worker' \in [{1, 2} -> WorkerStates],
         resets' \in 0..MaxResets, benchFaults' = benchFaults \/ BenchFault,
         benchStep' \in {"build", "reset", "fit", "trial", "save"} => done < Rounds,
         benchStep' = "reset" => resets' < MaxResets
  PROVE  BenchTyped'
<1>1. benchFaults' \in 0..MaxBenchFaults
  BY BenchNumbers DEF BenchFault, BenchTyped, BenchTypeOK
<1>2. Rounds' = Rounds /\ done' = done
  BY DEF Rounds, PerSize
<1>3. UNCHANGED <<count, low, high, best, bestCount, guesses>>
  BY DEF fitVars
<1>4. BenchTypeOK'
  <2>1. done' \in 0..Rounds' /\ protocol' \in Protocols /\ resetting' \in BOOLEAN
    BY <1>2 DEF BenchTyped, BenchTypeOK
  <2>2. /\ count' \in Tokenizers' /\ low' \in 1..CorpusLength + 1 /\ high' \in 0..CorpusLength
        /\ best' \in 0..CorpusLength /\ bestCount' \in 0..MaxTokens /\ guesses' \in 0..MaxGuesses
    BY <1>3 DEF BenchTyped, BenchTypeOK, Tokenizers
  <2>3. records' \in Seq(BOOLEAN) /\ saved' \in Seq(BOOLEAN)
    BY DEF BenchTyped, BenchTypeOK
  <2> QED
    BY <1>1, <2>1, <2>2, <2>3 DEF BenchTypeOK, BenchSteps, WorkerStates
<1> QED
  BY <1>2, <1>4 DEF BenchTyped

\* The search for a prompt.
LEMMA SearchMoves ==
  ASSUME BenchTyped, benchStep \in {"next", "build", "fit"}, done < Rounds,
         UNCHANGED <<protocol, resetting, done, records, saved, benchFaults>>,
         count' \in Tokenizers, low' \in 1..CorpusLength + 1, high' \in 0..CorpusLength,
         best' \in 0..CorpusLength, bestCount' \in 0..MaxTokens, guesses' \in 0..MaxGuesses,
         resets' \in 0..MaxResets, worker' \in [{1, 2} -> WorkerStates],
         benchStep' \in {"next", "build", "fit", "trial"}
  PROVE  BenchTyped'
<1>1. Rounds' = Rounds /\ Tokenizers' = Tokenizers
  BY DEF Rounds, PerSize, Tokenizers
<1>2. BenchTypeOK'
  <2>1. done' \in 0..Rounds' /\ protocol' \in Protocols /\ resetting' \in BOOLEAN
    BY <1>1 DEF BenchTyped, BenchTypeOK
  <2>2. records' \in Seq(BOOLEAN) /\ saved' \in Seq(BOOLEAN) /\ benchFaults' \in 0..MaxBenchFaults
    BY DEF BenchTyped, BenchTypeOK
  <2> QED
    BY <1>1, <2>1, <2>2 DEF BenchTypeOK, WorkerStates
<1> QED
  BY <1>1, <1>2 DEF BenchTyped

\* Every step keeps the types.
LEMMA BenchTypedStep == BenchTyped /\ [BenchNext]_benchVars => BenchTyped'
<1> SUFFICES ASSUME BenchTyped, [BenchNext]_benchVars PROVE BenchTyped'
  OBVIOUS
<1>1. /\ worker \in [{1, 2} -> WorkerStates] /\ benchStep \in BenchSteps
      /\ resets \in 0..MaxResets /\ 0 \in 0..MaxResets /\ 0 < MaxResets
      /\ guesses \in 0..MaxGuesses /\ done \in 0..Rounds
      /\ count \in Tokenizers /\ low \in 1..CorpusLength + 1 /\ high \in 0..CorpusLength
      /\ best \in 0..CorpusLength /\ bestCount \in 0..MaxTokens
  BY BenchNumbers DEF BenchTyped, BenchTypeOK, WorkerStates, BenchSteps
<1>2. CASE UNCHANGED benchVars
  <2>1. UNCHANGED <<protocol, resetting, done, records, saved, benchStep, worker, resets, benchFaults>> /\ UNCHANGED fitVars
    BY <1>2 DEF benchVars
  <2> QED
    BY <1>1, <2>1, BenchMoves DEF BenchTyped
<1>3. CASE NextTrial
  <2>1. /\ benchStep = "next" /\ done < Rounds /\ resets' = 0
        /\ UNCHANGED <<protocol, resetting, done, records, saved, benchFaults>>
    BY <1>3 DEF NextTrial
  <2>2. CASE /\ benchStep' = "fit" /\ UNCHANGED worker /\ count' \in Tokenizers
             /\ low' = 1 /\ high' = CorpusLength /\ best' = 0 /\ bestCount' = 0 /\ UNCHANGED guesses
    <3>1. low' \in 1..CorpusLength + 1 /\ high' \in 0..CorpusLength /\ best' \in 0..CorpusLength /\ bestCount' \in 0..MaxTokens
      BY <2>2, BenchNumbers
    <3> QED
      BY <1>1, <2>1, <2>2, <3>1, SearchMoves
  <2>3. CASE /\ benchStep' \in {"build", "reset", "trial"} /\ (worker' = worker \/ worker' = Going) /\ UNCHANGED fitVars
    BY <1>1, <2>1, <2>3, GoingTyped, BenchMoves DEF BenchSteps
  <2> QED
    BY <1>3, <2>2, <2>3 DEF NextTrial
<1>4. CASE BuildsPrompt
  <2>1. /\ benchStep = "build" /\ guesses < MaxGuesses /\ guesses' = guesses + 1 /\ bestCount' \in 1..MaxTokens
        /\ benchStep' \in {"next", "build"}
        /\ UNCHANGED <<protocol, resetting, done, count, low, high, best, resets, worker, records, saved, benchFaults>>
    BY <1>4 DEF BuildsPrompt
  <2>2. guesses' \in 0..MaxGuesses /\ bestCount' \in 0..MaxTokens
    BY <1>1, <2>1, BenchNumbers
  <2>3. done < Rounds
    BY <2>1 DEF BenchTyped
  <2> QED
    BY <1>1, <2>1, <2>2, <2>3, SearchMoves
<1>5. CASE ResetsCache
  <2>1. /\ benchStep = "reset" /\ UNCHANGED <<protocol, resetting, done, records, saved>> /\ UNCHANGED fitVars
        /\ done < Rounds /\ resets < MaxResets
    BY <1>5 DEF ResetsCache, BenchTyped
  <2>2. CASE benchStep' = "trial" /\ worker' = Going /\ UNCHANGED <<resets, benchFaults>>
    BY <1>1, <2>1, <2>2, GoingTyped, BenchMoves DEF BenchSteps
  <2>3. CASE /\ BenchFault /\ resets' = resets + 1 /\ UNCHANGED worker
             /\ benchStep' = (IF resets' = MaxResets THEN "failed" ELSE benchStep)
    <3>1. resets' \in 0..MaxResets /\ (resets' = MaxResets \/ resets' < MaxResets)
      BY <1>1, <2>1, <2>3, BenchNumbers
    <3>2. benchStep' \in BenchSteps /\ (benchStep' = "reset" => resets' < MaxResets)
      BY <2>1, <2>3, <3>1 DEF BenchSteps
    <3> QED
      BY <1>1, <2>1, <2>3, <3>1, <3>2, BenchMoves
  <2> QED
    BY <1>5, <2>2, <2>3 DEF ResetsCache
<1>6. CASE FitProbes
  <2> DEFINE mid == (low + high) \div 2
             c == count[mid]
  <2>1. /\ benchStep = "fit" /\ low <= high
        /\ (low' = mid + 1 \/ low' = low) /\ (high' = mid - 1 \/ high' = high)
        /\ ((best' = mid /\ bestCount' = c) \/ UNCHANGED <<best, bestCount>>)
        /\ benchStep' \in {"fit", "trial"} /\ (worker' = worker \/ worker' = Going)
        /\ UNCHANGED <<protocol, resetting, done, count, guesses, resets, records, saved, benchFaults>>
    BY <1>6 DEF FitProbes, Halve
  <2>2. mid \in Int /\ low <= mid /\ mid <= high
    BY <1>1, <2>1, Middle, BenchNumbers
  <2> HIDE DEF mid
  <2>3. mid \in 1..CorpusLength
    BY <1>1, <2>2, BenchNumbers
  <2>4. c \in 0..MaxTokens
    BY <1>1, <2>3 DEF Tokenizers
  <2>5. low' \in 1..CorpusLength + 1 /\ high' \in 0..CorpusLength /\ best' \in 0..CorpusLength
    BY <1>1, <2>1, <2>3, BenchNumbers
  <2>6. bestCount' \in 0..MaxTokens
    BY <1>1, <2>1, <2>4
  <2>7. done < Rounds
    BY <2>1 DEF BenchTyped
  <2>8. count' \in Tokenizers /\ guesses' \in 0..MaxGuesses /\ resets' \in 0..MaxResets
    BY <1>1, <2>1
  <2>9. worker' \in [{1, 2} -> WorkerStates]
    BY <1>1, <2>1, GoingTyped
  <2> QED
    BY <2>1, <2>5, <2>6, <2>7, <2>8, <2>9, SearchMoves
<1>7. CASE FitEnds
  <2>1. /\ benchStep = "fit" /\ benchStep' = "trial" /\ worker' = Going /\ done < Rounds
        /\ UNCHANGED <<protocol, resetting, done, resets, records, saved, benchFaults>> /\ UNCHANGED fitVars
    BY <1>7 DEF FitEnds, BenchTyped
  <2> QED
    BY <1>1, <2>1, GoingTyped, BenchMoves DEF BenchSteps
<1>8. ASSUME NEW w \in {1, 2}, TrialStarts(w) \/ TrialEnds(w) PROVE BenchTyped'
  <2>1. /\ benchStep = "trial" /\ benchStep' \in {"trial", "save"} /\ done < Rounds
        /\ \E s \in {"streams", "ok", "failed"} : worker' = [worker EXCEPT ![w] = s]
        /\ (benchFaults' = benchFaults \/ BenchFault)
        /\ UNCHANGED <<protocol, resetting, done, resets, records, saved>> /\ UNCHANGED fitVars
    BY <1>8 DEF TrialStarts, TrialEnds, BenchTyped
  <2>2. worker' \in [{1, 2} -> WorkerStates]
    BY <1>1, <2>1 DEF WorkerStates
  <2> QED
    BY <1>1, <2>1, <2>2, BenchMoves DEF BenchSteps
<1>9. CASE SavesTemp
  <2> DEFINE ended == [w \in 1..(IF protocol = "c2" THEN 2 ELSE 1) |-> worker[w] = "ok"]
  <2>1. /\ benchStep = "save" /\ benchStep' = "replace" /\ records' = records \o ended
        /\ worker' = [w \in {1, 2} |-> "idle"] /\ done' = done + 1
        /\ (guesses' = 0 \/ guesses' = guesses) /\ done < Rounds
        /\ UNCHANGED <<protocol, resetting, count, low, high, best, bestCount, resets, saved, benchFaults>>
    BY <1>9 DEF SavesTemp, BenchTyped
  <2>2. ended \in Seq(BOOLEAN)
    <3>1. PICK k \in Nat : k = IF protocol = "c2" THEN 2 ELSE 1
      OBVIOUS
    <3>2. \A w \in 1..k : (worker[w] = "ok") \in BOOLEAN
      OBVIOUS
    <3>3. ended = [w \in 1..k |-> worker[w] = "ok"]
      BY <3>1
    <3> QED
      BY <3>1, <3>2, <3>3
  <2> HIDE DEF ended
  <2>3. records' \in Seq(BOOLEAN) /\ saved' \in Seq(BOOLEAN)
    BY <2>1, <2>2 DEF BenchTyped, BenchTypeOK
  <2>4. Rounds' = Rounds /\ Tokenizers' = Tokenizers
    BY <2>1 DEF Rounds, PerSize, Tokenizers
  <2>5. done' \in 0..Rounds' /\ guesses' \in 0..MaxGuesses
    BY <1>1, <2>1, <2>4, BenchNumbers
  <2>6. BenchTypeOK'
    <3>1. /\ protocol' \in Protocols /\ resetting' \in BOOLEAN /\ benchFaults' \in 0..MaxBenchFaults
      BY <2>1 DEF BenchTyped, BenchTypeOK
    <3>2. worker' \in [{1, 2} -> WorkerStates]
      BY <2>1 DEF WorkerStates
    <3> QED
      BY <1>1, <2>1, <2>3, <2>4, <2>5, <3>1, <3>2 DEF BenchTypeOK, WorkerStates
  <2> QED
    BY <2>1, <2>6 DEF BenchTyped
<1>10. CASE ReplacesOutput
  <2>1. /\ benchStep' = "next" /\ saved' = records
        /\ UNCHANGED <<protocol, resetting, done, resets, worker, records, benchFaults>>
        /\ UNCHANGED <<count, low, high, best, bestCount, guesses>>
    BY <1>10 DEF ReplacesOutput, fitVars
  <2>2. Rounds' = Rounds /\ Tokenizers' = Tokenizers
    BY <2>1 DEF Rounds, PerSize, Tokenizers
  <2> QED
    BY <2>1, <2>2 DEF BenchTyped, BenchTypeOK
<1>11. CASE Finishes \/ BenchKilled
  <2>1. /\ benchStep' \in {"failed", "passed", "killed"} /\ (benchFaults' = benchFaults \/ BenchFault)
        /\ UNCHANGED <<protocol, resetting, done, resets, worker, records, saved>> /\ UNCHANGED fitVars
    BY <1>11 DEF Finishes, BenchKilled
  <2> QED
    BY <1>1, <2>1, BenchMoves DEF BenchSteps
<1> QED
  BY <1>2, <1>3, <1>4, <1>5, <1>6, <1>7, <1>8, <1>9, <1>10, <1>11 DEF BenchNext

\* Every variable of a benchmark has a value the script can give it: the bounds of the
\* search stay in the corpus, and no more trials are made than asked for.
THEOREM BenchTypeCorrect == BenchSpec => []BenchTypeOK
<1>1. BenchInit => BenchTyped
  <2> SUFFICES ASSUME BenchInit PROVE BenchTyped
    OBVIOUS
  <2>1. count \in Tokenizers
    BY BenchNumbers DEF BenchInit, Tokenizers
  <2>2. /\ done \in 0..Rounds /\ low \in 1..CorpusLength + 1 /\ high \in 0..CorpusLength /\ best \in 0..CorpusLength
        /\ bestCount \in 0..MaxTokens /\ guesses \in 0..MaxGuesses /\ resets \in 0..MaxResets
        /\ benchFaults \in 0..MaxBenchFaults
    BY BenchNumbers DEF BenchInit
  <2>3. worker \in [{1, 2} -> WorkerStates]
    BY DEF BenchInit, WorkerStates
  <2>4. records \in Seq(BOOLEAN) /\ saved \in Seq(BOOLEAN)
    BY DEF BenchInit
  <2>5. protocol \in Protocols /\ resetting \in BOOLEAN /\ benchStep = "next"
    BY DEF BenchInit
  <2>6. BenchTypeOK
    BY <2>1, <2>2, <2>3, <2>4, <2>5 DEF BenchTypeOK, WorkerStates
  <2> QED
    BY <2>5, <2>6 DEF BenchTyped
<1>2. BenchTyped => BenchTypeOK
  BY DEF BenchTyped
<1> QED
  BY <1>1, <1>2, BenchTypedStep, PTL DEF BenchSpec
=============================================================================
