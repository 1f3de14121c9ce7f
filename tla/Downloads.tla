------------------------------- MODULE Downloads -------------------------------
(***************************************************************************)
(* The scripts that download a model's files in ranges: threads fetch the  *)
(* ranges of a file into a part, and list those they have synced in a      *)
(* small state file, from which a later run of the script goes on.  When   *)
(* all are there the part's digest is compared and it gets the file's      *)
(* name.  The script may be killed and the power may fail at any time.     *)
(*                                                                         *)
(* External: the network, the disk, and whoever runs the script again.     *)
(* One file is modelled; the files share only the pool of threads.         *)
(***************************************************************************)
EXTENDS Naturals, Sequences, SequencesExt, FiniteSets

CONSTANTS
  Ranges,      \* the ranges of the file
  Threads,     \* max_workers (8)
  MaxTries,    \* attempts of one range (5)
  MaxStops,    \* bound: kills and power failures
  MaxLosses    \* bound: times that the finished file is removed or damaged

ASSUME DownloadAssumption ==
  {Threads, MaxTries} \subseteq Nat \ {0} /\ {MaxStops, MaxLosses} \subseteq Nat

Hole == "hole"  \* bytes never written, or lost

VARIABLES
  named,     \* the file of that name: "none", "whole" or "damaged"
  part,      \* whether .range-part is there
  bytes,     \* ... what is in each range: Hole, "cached" or "synced"
  stateFile, \* .range-state.json: the ranges it lists
  script,    \* the script: "down", "fetching", "checking"
  completed, \* ... state['completed']
  fetching,  \* ... what became of each range: "todo", "open", "written", "synced", "done", "raised"
  tries,     \* ... the attempts of each range
  stops, losses

diskVars == <<named, part, bytes, stateFile>>
runVars == <<script, completed, fetching, tries>>
downloadVars == <<diskVars, runVars, stops, losses>>

DownloadTypeOK ==
  /\ named \in {"none", "whole", "damaged"}
  /\ part \in BOOLEAN /\ bytes \in [Ranges -> {Hole, "cached", "synced"}]
  /\ stateFile \in Seq(Ranges) /\ completed \in Seq(Ranges)
  /\ script \in {"down", "fetching", "checking"}
  /\ fetching \in [Ranges -> {"todo", "open", "written", "synced", "done", "raised"}]
  /\ tries \in [Ranges -> 0..MaxTries]
  /\ stops \in 0..MaxStops /\ losses \in 0..MaxLosses

DownloadInit ==
  /\ named \in {"none", "damaged"}
  /\ part = FALSE /\ bytes = [r \in Ranges |-> Hole] /\ stateFile = <<>>
  /\ script = "down" /\ completed = <<>>
  /\ fetching = [r \in Ranges |-> "todo"] /\ tries = [r \in Ranges |-> 0]
  /\ stops = 0 /\ losses = 0

-----------------------------------------------------------------------------
(* The script. *)

\* A file with the right size and digest is left alone.  The ranges listed are
\* believed while there is a part; a new part is all holes.
Starts ==
  /\ script = "down" /\ named # "whole"
  /\ script' = "fetching"
  /\ completed' = IF part THEN stateFile ELSE <<>>
  /\ part' = TRUE
  /\ fetching' = [r \in Ranges |-> IF Contains(completed', r) THEN "done" ELSE "todo"]
  /\ tries' = [r \in Ranges |-> 0]
  /\ UNCHANGED <<named, bytes, stateFile, stops, losses>>

Busy == {r \in Ranges : fetching[r] \in {"open", "written", "synced"}}
At(r, where) == script = "fetching" /\ fetching[r] = where
Goes(r, to) == fetching' = [fetching EXCEPT ![r] = to]

\* A thread takes a range, or tries it again.
Opens(r) ==
  /\ At(r, "todo") /\ tries[r] < MaxTries
  /\ Cardinality(Busy) < Threads
  /\ Goes(r, "open") /\ tries' = [tries EXCEPT ![r] = @ + 1]
  /\ UNCHANGED <<diskVars, script, completed, stops, losses>>

\* The answer is of the range that was asked for, and all of it is written.
Writes(r) ==
  /\ At(r, "open") /\ Goes(r, "written")
  /\ bytes' = [bytes EXCEPT ![r] = "cached"]
  /\ UNCHANGED <<named, part, stateFile, script, completed, tries, stops, losses>>

\* fsync, which takes the ranges that other threads have written with it.
Syncs(r) ==
  /\ At(r, "written") /\ Goes(r, "synced")
  /\ bytes' = [s \in Ranges |-> IF bytes[s] = "cached" THEN "synced" ELSE bytes[s]]
  /\ UNCHANGED <<named, part, stateFile, script, completed, tries, stops, losses>>

\* Mutant: the range is listed before it is synced.
ListsWritten(r) ==
  /\ At(r, "written") /\ Goes(r, "done")
  /\ completed' = Append(completed, r) /\ stateFile' = completed'
  /\ UNCHANGED <<named, part, bytes, script, tries, stops, losses>>

\* Under the lock: the list is written to another file, which takes its name.
Lists(r) ==
  /\ At(r, "synced") /\ Goes(r, "done")
  /\ completed' = Append(completed, r) /\ stateFile' = completed'
  /\ UNCHANGED <<named, part, bytes, script, tries, stops, losses>>

\* The request fails, another range is answered, or the connection ends early,
\* with some of the bytes written; the last failure is raised.
RangeFails(r) ==
  /\ At(r, "open")
  /\ Goes(r, IF tries[r] < MaxTries THEN "todo" ELSE "raised")
  /\ UNCHANGED <<diskVars, script, completed, tries, stops, losses>>

\* The pool ends: the first exception is raised, if there is one.
PoolEnds ==
  /\ script = "fetching"
  /\ \A r \in Ranges : fetching[r] \in {"done", "raised"}
  /\ script' = IF \E r \in Ranges : fetching[r] = "raised" THEN "down" ELSE "checking"
  /\ UNCHANGED <<diskVars, completed, fetching, tries, stops, losses>>

\* The digest of the part is compared; another one ends the script.
Verifies ==
  /\ script = "checking" /\ script' = "down"
  /\ IF \E r \in Ranges : bytes[r] = Hole
     THEN UNCHANGED <<named, part, bytes>>
     ELSE named' = "whole" /\ part' = FALSE /\ bytes' = [r \in Ranges |-> Hole]
  /\ UNCHANGED <<stateFile, completed, fetching, tries, stops, losses>>

-----------------------------------------------------------------------------
(* The rest of the world. *)

Kill == script # "down" /\ script' = "down" /\ UNCHANGED <<diskVars, completed, fetching, tries>>

\* What was not synced may be lost; the state file may be an earlier one.
PowerFails ==
  /\ script' = "down"
  /\ \E lost \in SUBSET {r \in Ranges : bytes[r] = "cached"} :
       bytes' = [r \in Ranges |-> IF r \in lost THEN Hole ELSE bytes[r]]
  /\ \E n \in 0..Len(stateFile) : stateFile' = SubSeq(stateFile, 1, n)
  /\ UNCHANGED <<named, part, completed, fetching, tries>>

Stops == stops < MaxStops /\ stops' = stops + 1 /\ (Kill \/ PowerFails) /\ UNCHANGED losses

\* The finished file is removed or damaged, and the state file stays.
LosesFile ==
  /\ named = "whole" /\ losses < MaxLosses /\ losses' = losses + 1
  /\ named' \in {"none", "damaged"}
  /\ UNCHANGED <<part, bytes, stateFile, runVars, stops>>

DownloadNext ==
  \/ Starts
  \/ \E r \in Ranges : Opens(r) \/ Writes(r) \/ Syncs(r) \/ Lists(r) \/ RangeFails(r)
  \/ PoolEnds
  \/ Verifies
  \/ Stops
  \/ LosesFile

DownloadSpec == DownloadInit /\ [][DownloadNext]_downloadVars

-----------------------------------------------------------------------------
(* Properties. *)

\* A range that a later run will not fetch again is in the part, and survives a
\* power failure: otherwise every later run ends at the digest.  It is so while
\* the finished file is not removed (a part begun anew finds the old list).
CompletedIsWritten ==
  losses = 0 /\ part => \A n \in DOMAIN stateFile : bytes[stateFile[n]] = "synced"
=============================================================================
