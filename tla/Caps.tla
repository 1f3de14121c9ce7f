--------------------------------- MODULE Caps ---------------------------------
(***************************************************************************)
(* The capability cache of the LiteLLM plugin: what each endpoint says of  *)
(* a model's reasoning, kept in memory, mirrored in one file on disk for   *)
(* all endpoints, and fetched by a thread per endpoint, never by a         *)
(* request.  The state is about one model; an endpoint may not publish it. *)
(***************************************************************************)
EXTENDS Naturals

CONSTANTS
  Urls,           \* the endpoints of the configured providers
  MaxAgings,      \* bound: how often the time to live passes
  MaxCapsFaults   \* bound: failed fetches and restarts, together

ASSUME CapsAssumption == MaxAgings \in Nat /\ MaxCapsFaults \in Nat

VARIABLES
  publishes,     \* external: the endpoints whose catalogue knows the model
  memory,        \* _memory: each endpoint's entry is "none", "fresh" or "stale"
  disk,          \* the mirror, which has the same entries
  tmp,           \* its temporary file: "none", "torn", or the entries written
  warm_started,  \* the endpoints that are not warmed again
  warmer,        \* each endpoint's thread: [pc, data]
  agings, capsFaults   \* counters

capsVars == <<publishes, memory, disk, tmp, warm_started, warmer, agings, capsFaults>>

Ages == {"none", "fresh", "stale"}
Nothing == [u \in Urls |-> "none"]
CapsIdle == [pc |-> "idle", data |-> Nothing]

CapsTypeOK ==
  /\ publishes \subseteq Urls /\ warm_started \subseteq Urls
  /\ memory \in [Urls -> Ages] /\ disk \in [Urls -> Ages]
  /\ tmp \in [at : {"none", "torn", "whole"}, data : [Urls -> Ages]]
  /\ warmer \in [Urls -> [pc : {"idle", "fetch", "mirror", "open", "write", "replace"}, data : [Urls -> Ages]]]
  /\ agings \in 0..MaxAgings /\ capsFaults \in 0..MaxCapsFaults

CapsInit ==
  /\ publishes \in SUBSET Urls \ {{}}
  /\ memory = Nothing /\ disk = Nothing /\ tmp = [at |-> "none", data |-> Nothing]
  /\ warm_started = {} /\ warmer = [u \in Urls |-> CapsIdle]
  /\ agings = 0 /\ capsFaults = 0

CapsFault == capsFaults < MaxCapsFaults /\ capsFaults' = capsFaults + 1

\* get_caps loads the mirror's entry, with its age, when memory has none.
Loaded(u) == IF memory[u] = "none" THEN disk[u] ELSE memory[u]
Answers(u) == u \in publishes /\ Loaded(u) # "none"

\* _caps_for_model asks one endpoint after the other; one of those that can
\* answer does, and only when none can are the missing and old ones warmed.
Lookup ==
  \/ \E u \in Urls :
       /\ Answers(u)
       /\ memory' = [memory EXCEPT ![u] = Loaded(u)]
       /\ UNCHANGED <<publishes, disk, tmp, warm_started, warmer, agings, capsFaults>>
  \/ /\ \A u \in Urls : ~Answers(u)
     /\ memory' = [u \in Urls |-> Loaded(u)]
     /\ LET warmed == {u \in Urls \ warm_started : Loaded(u) # "fresh"}
        IN /\ warm_started' = warm_started \union warmed
           /\ warmer' = [u \in Urls |-> IF u \in warmed THEN [CapsIdle EXCEPT !.pc = "fetch"] ELSE warmer[u]]
     /\ UNCHANGED <<publishes, disk, tmp, agings, capsFaults>>

ThreadGoes(u, pc) == warmer' = [warmer EXCEPT ![u].pc = pc]

\* Mutant: a fetch that fails is remembered like one that succeeds.
FetchOnce(u) ==
  /\ warmer[u].pc = "fetch"
  /\ \/ memory' = [memory EXCEPT ![u] = "fresh"] /\ ThreadGoes(u, "mirror") /\ UNCHANGED capsFaults
     \/ CapsFault /\ ThreadGoes(u, "idle") /\ UNCHANGED memory
  /\ UNCHANGED <<publishes, disk, tmp, warm_started, agings>>

\* fetch: after a failure the endpoint may be warmed again.
Fetch(u) ==
  /\ warmer[u].pc = "fetch"
  /\ \/ /\ memory' = [memory EXCEPT ![u] = "fresh"]
        /\ ThreadGoes(u, "mirror") /\ UNCHANGED <<warm_started, capsFaults>>
     \/ /\ CapsFault /\ warm_started' = warm_started \ {u}
        /\ ThreadGoes(u, "idle") /\ UNCHANGED memory
  /\ UNCHANGED <<publishes, disk, tmp, agings>>

\* _write_disk: the mirror is read, the temporary file opened, written, and
\* renamed.  All threads use one temporary file; a rename of none is ignored.
Mirror(u) ==
  /\ \/ /\ warmer[u].pc = "mirror"
        /\ warmer' = [warmer EXCEPT ![u] = [pc |-> "open", data |-> [disk EXCEPT ![u] = "fresh"]]]
        /\ UNCHANGED <<disk, tmp>>
     \/ /\ warmer[u].pc = "open"
        /\ tmp' = [at |-> "torn", data |-> Nothing] /\ ThreadGoes(u, "write") /\ UNCHANGED disk
     \/ /\ warmer[u].pc = "write"
        /\ tmp' = [at |-> "whole", data |-> warmer[u].data] /\ ThreadGoes(u, "replace") /\ UNCHANGED disk
     \/ /\ warmer[u].pc = "replace"
        /\ disk' = IF tmp.at = "none" THEN disk ELSE tmp.data
        /\ tmp' = [at |-> "none", data |-> Nothing] /\ warmer' = [warmer EXCEPT ![u] = CapsIdle]
  /\ UNCHANGED <<publishes, memory, warm_started, agings, capsFaults>>

Old(entries) == [u \in Urls |-> IF entries[u] = "none" THEN "none" ELSE "stale"]
TimeToLivePasses ==
  /\ agings < MaxAgings /\ agings' = agings + 1
  /\ memory' = Old(memory) /\ disk' = Old(disk)
  /\ tmp' = [tmp EXCEPT !.data = Old(@)]
  /\ warmer' = [u \in Urls |-> [warmer[u] EXCEPT !.data = Old(@)]]
  /\ UNCHANGED <<publishes, warm_started, capsFaults>>

CapsRestart ==
  /\ CapsFault
  /\ memory' = Nothing /\ warm_started' = {} /\ warmer' = [u \in Urls |-> CapsIdle]
  /\ UNCHANGED <<publishes, disk, tmp, agings>>

Warms(u) == Fetch(u) \/ Mirror(u)

CapsNext ==
  \/ Lookup
  \/ \E u \in Urls : Warms(u)
  \/ TimeToLivePasses
  \/ CapsRestart

CapsSpec == CapsInit /\ [][CapsNext]_capsVars
CapsFairSpec == CapsSpec /\ WF_capsVars(Lookup) /\ \A u \in Urls : WF_capsVars(Warms(u))

-----------------------------------------------------------------------------
(* Properties. *)

\* As long as requests ask for the model it gets known, and known again after
\* a restart, although fetches fail, and threads of two endpoints spoil each
\* other's copy of the mirror.
GetsKnown == []<>(\E u \in publishes : memory[u] # "none")

=============================================================================
