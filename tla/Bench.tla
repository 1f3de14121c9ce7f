-------------------------------- MODULE Bench --------------------------------
(***************************************************************************)
(* scripts/llm/flashnext_public_bench.py: trials of a served model, whose  *)
(* records are kept in one artifact.  The "pp" protocol cuts its prompt to *)
(* a number of tokens by binary search, the chat protocols repeat a block  *)
(* of text until the size is about met; "c2" starts two requests at a      *)
(* barrier; the chat protocols may clear the prefix cache first.  The      *)
(* artifact is replaced as a whole after each trial, and the script may    *)
(* be killed at any step.                                                  *)
(*                                                                         *)
(* External: the server, and how many tokens it makes of a text.           *)
(***************************************************************************)
EXTENDS Integers, Sequences

CONSTANTS
  Sizes,         \* the prompt sizes asked for, in tokens, in their order
  Repetitions,   \* trials of each size
  CorpusLength,  \* characters of the corpus
  MaxTokens,     \* bound: tokens of any prompt
  MaxResets,     \* attempts to clear the cache (5)
  MaxGuesses,    \* attempts to meet a prompt's size in the chat protocols (6)
  Tolerance,     \* tokens by which they may miss it (20, or one in 500)
  MaxBenchFaults \* bound: failed trials and cache resets, and kills

Protocols == {"decode", "publisher-pp", "pp", "common", "c2"}

ASSUME BenchAssumption ==
  /\ Sizes \in Seq(Nat) /\ Repetitions \in Nat /\ CorpusLength \in Nat
  /\ {MaxGuesses, Tolerance, MaxBenchFaults} \subseteq Nat /\ {MaxTokens, MaxResets} \subseteq Nat \ {0}

VARIABLES
  protocol,     \* --protocol
  resetting,    \* --reset-prefix-cache
  benchStep,         \* main: what it does next
  done,         \* ... trials, or pairs of trials, that are over
  count,        \* external: tokens of the prefix with the first n characters of the corpus
  low, high,    \* ... fit's bounds
  best, bestCount, \* ... the best prompt's length, 0 for the bare prefix, and its tokens
  guesses,      \* ... attempts of build_prompt for the current size, 0 when it is to begin
  resets,       \* ... failed attempts to clear the cache
  worker,       \* ... the state of each request: what trial has recorded
  records,      \* ... artifact["trials"], each with its ok
  saved,        \* the records in the output file
  benchFaults

fitVars == <<count, low, high, best, bestCount, guesses>>
benchVars == <<protocol, resetting, benchStep, done, fitVars, resets, worker, records, saved, benchFaults>>

\* Any counts: a longer prompt may have fewer tokens, where it completes a word that the
\* shorter one cuts.
Tokenizers == [1..CorpusLength -> 1..MaxTokens]

BenchWorkers == IF protocol = "c2" THEN {1, 2} ELSE {1}

\* The warmup of "publisher-pp" is one more trial of each size.
PerSize == IF protocol = "publisher-pp" THEN Repetitions + 1 ELSE Repetitions
Rounds == Len(Sizes) * PerSize
Target == Sizes[1 + done \div PerSize]

BenchTypeOK ==
  /\ protocol \in Protocols /\ resetting \in BOOLEAN
  /\ benchStep \in {"next", "build", "reset", "fit", "trial", "save", "replace", "passed", "failed", "killed"}
  /\ done \in 0..Rounds
  /\ count \in Tokenizers
  /\ low \in 1..CorpusLength + 1 /\ high \in 0..CorpusLength
  /\ best \in 0..CorpusLength /\ bestCount \in 0..MaxTokens
  /\ guesses \in 0..MaxGuesses /\ resets \in 0..MaxResets
  /\ worker \in [{1, 2} -> {"idle", "waits", "streams", "ok", "failed"}]
  /\ records \in Seq(BOOLEAN) /\ saved \in Seq(BOOLEAN)
  /\ benchFaults \in 0..MaxBenchFaults

BenchInit ==
  /\ protocol \in Protocols /\ resetting \in BOOLEAN
  /\ benchStep = "next" /\ done = 0
  /\ count = [n \in 1..CorpusLength |-> 1]
  /\ low = 1 /\ high = 0 /\ best = 0 /\ bestCount = 0 /\ guesses = 0 /\ resets = 0
  /\ worker = [w \in {1, 2} |-> "idle"] /\ records = <<>> /\ saved = <<>>
  /\ benchFaults = 0

-----------------------------------------------------------------------------
BenchFault == benchFaults < MaxBenchFaults /\ benchFaults' = benchFaults + 1

Going == [w \in {1, 2} |-> IF w \in BenchWorkers THEN "waits" ELSE "idle"]

\* The next trial of the protocol.
NextTrial ==
  /\ benchStep = "next" /\ done < Rounds /\ resets' = 0
  /\ \/ /\ protocol = "pp" /\ benchStep' = "fit" /\ UNCHANGED worker
        /\ count' \in Tokenizers
        /\ low' = 1 /\ high' = CorpusLength /\ best' = 0 /\ bestCount' = 0 /\ UNCHANGED guesses
     \/ protocol \in {"common", "c2"} /\ guesses = 0 /\ benchStep' = "build" /\ UNCHANGED <<worker, fitVars>>
     \/ /\ protocol \in {"common", "c2"} /\ guesses > 0 /\ resetting /\ benchStep' = "reset"
        /\ UNCHANGED <<worker, fitVars>>
     \/ /\ protocol # "pp" /\ (protocol \in {"common", "c2"} => guesses > 0 /\ ~resetting)
        /\ benchStep' = "trial" /\ worker' = Going /\ UNCHANGED fitVars
  /\ UNCHANGED <<protocol, resetting, done, records, saved, benchFaults>>

Distance(n, m) == IF n < m THEN m - n ELSE n - m

\* build_prompt, once for each size: another number of blocks until the prompt is
\* about as long as asked for, or the attempts are used up; the last is taken.
BuildsPrompt ==
  /\ benchStep = "build" /\ guesses < MaxGuesses /\ guesses' = guesses + 1
  /\ bestCount' \in 1..MaxTokens
  /\ benchStep' = IF guesses' = MaxGuesses \/ Distance(bestCount', Target) <= Tolerance
             THEN "next" ELSE benchStep
  /\ UNCHANGED <<protocol, resetting, done, count, low, high, best, resets, worker,
                 records, saved, benchFaults>>

\* reset_prefix_cache, tried again while it does not succeed, then given up.
ResetsCache ==
  /\ benchStep = "reset" /\ UNCHANGED <<protocol, resetting, done, fitVars, records, saved>>
  /\ \/ benchStep' = "trial" /\ worker' = Going /\ UNCHANGED <<resets, benchFaults>>
     \/ /\ BenchFault /\ resets' = resets + 1 /\ UNCHANGED worker
        /\ benchStep' = IF resets' = MaxResets THEN "failed" ELSE benchStep

\* Mutant: both bounds pass the middle by one too many.
HalveFast(mid, c) ==
  /\ low' = IF c < Target THEN mid + 2 ELSE low
  /\ high' = IF c > Target THEN mid - 1 ELSE high

\* Where the search goes on after the middle had c tokens.
Halve(mid, c) ==
  /\ low' = IF c < Target THEN mid + 1 ELSE low
  /\ high' = IF c > Target THEN mid - 1 ELSE high

\* One step of the loop of fit.
FitProbes ==
  /\ benchStep = "fit" /\ low <= high
  /\ LET mid == (low + high) \div 2
         c == count[mid]
     IN /\ Halve(mid, c)
        /\ IF Distance(c, Target) < Distance(bestCount, Target)
             THEN best' = mid /\ bestCount' = c
             ELSE UNCHANGED <<best, bestCount>>
        /\ IF c = Target THEN benchStep' = "trial" /\ worker' = Going ELSE UNCHANGED <<benchStep, worker>>
  /\ UNCHANGED <<protocol, resetting, done, count, guesses, resets, records, saved, benchFaults>>

FitEnds ==
  /\ benchStep = "fit" /\ low > high /\ benchStep' = "trial" /\ worker' = Going
  /\ UNCHANGED <<protocol, resetting, done, fitVars, resets, records, saved, benchFaults>>

\* trial: a request starts when all are at the barrier, streams, and ends with a
\* record, whatever happens to it.
TrialStarts(w) ==
  /\ benchStep = "trial" /\ worker[w] = "waits" /\ worker' = [worker EXCEPT ![w] = "streams"]
  /\ UNCHANGED <<protocol, resetting, benchStep, done, fitVars, resets, records, saved, benchFaults>>

TrialEnds(w) ==
  /\ benchStep = "trial" /\ worker[w] = "streams"
  /\ \/ worker' = [worker EXCEPT ![w] = "ok"] /\ UNCHANGED benchFaults
     \/ worker' = [worker EXCEPT ![w] = "failed"] /\ BenchFault
  /\ benchStep' = IF \A v \in BenchWorkers : worker'[v] \in {"ok", "failed"} THEN "save" ELSE benchStep
  /\ UNCHANGED <<protocol, resetting, done, fitVars, resets, records, saved>>

\* save: the artifact is written beside the file, and then takes its place.
SavesTemp ==
  /\ benchStep = "save" /\ benchStep' = "replace"
  /\ records' = records \o [w \in 1..(IF protocol = "c2" THEN 2 ELSE 1) |-> worker[w] = "ok"]
  /\ worker' = [w \in {1, 2} |-> "idle"] /\ done' = done + 1
  /\ guesses' = IF done' % PerSize = 0 THEN 0 ELSE guesses
  /\ UNCHANGED <<protocol, resetting, count, low, high, best, bestCount, resets, saved, benchFaults>>

ReplacesOutput ==
  /\ benchStep = "replace" /\ benchStep' = "next" /\ saved' = records
  /\ UNCHANGED <<protocol, resetting, done, fitVars, resets, worker, records, benchFaults>>

\* The exit status tells whether any trial failed.
Finishes ==
  /\ benchStep = "next" /\ done = Rounds
  /\ benchStep' = IF \E i \in DOMAIN records : ~records[i] THEN "failed" ELSE "passed"
  /\ UNCHANGED <<protocol, resetting, done, fitVars, resets, worker, records, saved, benchFaults>>

\* The script is killed, or an answer to /tokenize makes it stop.
BenchKilled ==
  /\ benchStep \notin {"passed", "failed", "killed"} /\ benchStep' = "killed" /\ BenchFault
  /\ UNCHANGED <<protocol, resetting, done, fitVars, resets, worker, records, saved>>

BenchNext ==
  \/ NextTrial \/ BuildsPrompt \/ ResetsCache \/ FitProbes \/ FitEnds
  \/ \E w \in {1, 2} : TrialStarts(w) \/ TrialEnds(w)
  \/ SavesTemp \/ ReplacesOutput \/ Finishes \/ BenchKilled

BenchSpec == BenchInit /\ [][BenchNext]_benchVars

-----------------------------------------------------------------------------
(* Properties. *)

AsNear(n) == Distance(bestCount, Target) <= Distance(count[n], Target)

\* fit: the search probes a few lengths of a corpus whose counts may rise and fall, and
\* yet, when it is over, it has met the tokens asked for, or has come as near to them as
\* both sides of a place where one more character takes the count past them.  What it
\* reports are the tokens of the prompt it returns, or 0 with the bare prefix, which only
\* stands while nothing that was probed is nearer than no tokens at all.
FitFindsCrossing ==
  benchStep = "trial" /\ protocol = "pp" =>
    /\ bestCount = IF best = 0 THEN 0 ELSE count[best]
    /\ \/ bestCount = Target
       \/ \E n \in 0..CorpusLength :
            /\ n > 0 => count[n] < Target /\ AsNear(n)
            /\ n < CorpusLength => count[n + 1] > Target /\ AsNear(n + 1)
=============================================================================
