------------------------------ MODULE RoomLayout ------------------------------
(***************************************************************************)
(* scripts/matrix-rooms.py: the script that brings a Matrix room to the    *)
(* documented layout.  It reads each part of the room's state, compares,   *)
(* and writes what differs; what a request answers is all it knows, and a  *)
(* request that fails is not told from an empty state.  It may be stopped  *)
(* and run again, and the room's members change the room meanwhile.        *)
(*                                                                         *)
(* External: Synapse, its rate limiter, and the members of the room.  With *)
(* --dry-run the script only reads, which is not modelled.                 *)
(***************************************************************************)
EXTENDS Integers, Sequences

CONSTANTS
  Users,           \* the accounts that may be in the room
  Owner, GatewayBot,  \* OWNER and GATEWAY
  Bots,            \* the bots of this room
  Dropped,         \* HOOKSHOT and HERMES, where they are not bots of the room
  Untouchable,     \* AGENT_GITOPS, the creator
  Attempts,        \* attempts of a request that is rate limited (6)
  MaxLayoutRuns,   \* bound: runs of the script
  MaxLayoutFaults, \* bound: limited and failed requests, and interruptions
  MaxChanges       \* bound: changes by others

ASSUME LayoutAssumption ==
  /\ {Owner, GatewayBot} \union Bots \union Dropped \union Untouchable \subseteq Users
  /\ Dropped \cap (Bots \union {Owner, GatewayBot}) = {}
  /\ Attempts \in Nat \ {0} /\ {MaxLayoutRuns, MaxLayoutFaults, MaxChanges} \subseteq Nat

\* The parts of the state that are compared with one value, then the others.
Parts == {"name", "topic", "alias", "canonical alias", "child"}
Order == <<"name", "topic", "alias", "canonical alias", "levels", "members", "child">>

Unlisted == -1

VARIABLES
  fits,    \* the parts that are as documented
  levels,  \* m.room.power_levels: users' levels, and whether the rest of the event is there
  members, \* who has joined
  at,      \* the script: 0, or the part it is at, in Order
  doing,   \* ... "read", "write", or "kick"
  wanted,  \* ... the levels it is going to write
  seen,    \* ... the members it has read
  limited,   \* ... attempts of the current request
  clean,   \* no request of this run, or of the one that ended, failed; and nobody else changed the room
  layoutRuns, layoutFaults, changes

roomState == <<fits, levels, members>>
bounds == <<layoutRuns, layoutFaults, changes>>
layoutVars == <<roomState, at, doing, wanted, seen, limited, clean, bounds>>

Levels == [users : [Users -> {Unlisted, 0, 50, 100}], rest : BOOLEAN]
Untold == [users |-> [u \in Users |-> Unlisted], rest |-> FALSE]

LayoutTypeOK ==
  /\ fits \subseteq Parts /\ levels \in Levels /\ wanted \in Levels
  /\ members \subseteq Users /\ seen \subseteq Users
  /\ at \in 0..Len(Order) /\ doing \in {"read", "write", "kick"}
  /\ limited \in 0..(Attempts - 1) /\ clean \in BOOLEAN
  /\ layoutRuns \in 0..MaxLayoutRuns /\ layoutFaults \in 0..MaxLayoutFaults
  /\ changes \in 0..MaxChanges

\* A room as somebody made it by hand.
LayoutInit ==
  /\ fits = {} /\ members = Users \ Bots
  /\ levels = [users |-> [u \in Users |-> IF u \in Untouchable THEN Unlisted ELSE 50], rest |-> TRUE]
  /\ at = 0 /\ doing = "read" /\ wanted = Untold /\ seen = {} /\ limited = 0
  /\ clean = FALSE /\ layoutRuns = 0 /\ layoutFaults = 0 /\ changes = 0

-----------------------------------------------------------------------------
(* call: a request answers, is rate limited, or fails. *)

On(part, what) == at # 0 /\ Order[at] = part /\ doing = what

\* Mutant: one attempt too many.
LimitedOnceMore ==
  /\ at # 0 /\ limited < Attempts /\ limited' = limited + 1
  /\ layoutFaults < MaxLayoutFaults /\ layoutFaults' = layoutFaults + 1
  /\ UNCHANGED <<roomState, at, doing, wanted, seen, clean, layoutRuns, changes>>

\* The last limited attempt is a failure like any other.
Limited ==
  /\ at # 0 /\ limited + 1 < Attempts /\ limited' = limited + 1
  /\ layoutFaults < MaxLayoutFaults /\ layoutFaults' = layoutFaults + 1
  /\ UNCHANGED <<roomState, at, doing, wanted, seen, clean, layoutRuns, changes>>

LayoutAnswers == limited' = 0 /\ UNCHANGED <<clean, bounds>>
Fails ==
  /\ layoutFaults < MaxLayoutFaults /\ layoutFaults' = layoutFaults + 1
  /\ limited' = 0 /\ clean' = FALSE /\ UNCHANGED <<layoutRuns, changes>>

\* The next part; the run ends after the last.
Next1 == at' = (IF at = Len(Order) THEN 0 ELSE at + 1) /\ doing' = "read"

-----------------------------------------------------------------------------
(* reconcile_room and reconcile_space. *)

StartsRun ==
  /\ at = 0 /\ layoutRuns < MaxLayoutRuns /\ layoutRuns' = layoutRuns + 1
  /\ at' = 1 /\ doing' = "read" /\ clean' = TRUE /\ limited' = 0
  /\ wanted' = Untold /\ seen' = {}
  /\ UNCHANGED <<roomState, layoutFaults, changes>>

ReadsPart(p) ==
  /\ On(p, "read") /\ UNCHANGED <<roomState, wanted, seen>>
  /\ \/ p \in fits /\ LayoutAnswers /\ Next1
     \/ p \notin fits /\ LayoutAnswers /\ doing' = "write" /\ UNCHANGED at
     \/ Fails /\ doing' = "write" /\ UNCHANGED at

WritesPart(p) ==
  /\ On(p, "write") /\ Next1 /\ UNCHANGED <<levels, members, wanted, seen>>
  /\ \/ fits' = fits \union {p} /\ LayoutAnswers
     \/ Fails /\ UNCHANGED fits

\* Mutant: the accounts that were dropped keep their levels.
DesiredWithAll(read) ==
  [u \in Users |->
     IF u \in {Owner, GatewayBot} THEN 100
     ELSE IF u \in Bots /\ read[u] = Unlisted THEN 0
     ELSE read[u]]

\* The levels wanted, made of those read.
Desired(read) ==
  [u \in Users |->
     IF u \in {Owner, GatewayBot} THEN 100
     ELSE IF u \in Bots THEN (IF read[u] = Unlisted THEN 0 ELSE read[u])
     ELSE IF u \in Dropped THEN Unlisted
     ELSE read[u]]

\* A read that fails is taken for an event without content.
ReadsLevels ==
  /\ On("levels", "read") /\ UNCHANGED <<roomState, seen>>
  /\ \E told \in BOOLEAN :
       LET read == IF told THEN levels ELSE Untold
       IN /\ IF told THEN LayoutAnswers ELSE Fails
          /\ wanted' = [read EXCEPT !.users = Desired(read.users)]
          /\ IF wanted'.users = read.users THEN Next1 ELSE doing' = "write" /\ UNCHANGED at

WritesLevels ==
  /\ On("levels", "write") /\ Next1 /\ UNCHANGED <<fits, members, wanted, seen>>
  /\ \/ levels' = wanted /\ LayoutAnswers
     \/ Fails /\ UNCHANGED levels

ReadsMembers ==
  /\ On("members", "read") /\ UNCHANGED <<roomState, wanted>>
  /\ \/ seen' = members /\ LayoutAnswers
     \/ seen' = {} /\ Fails
  /\ doing' = "kick" /\ UNCHANGED at

Strangers == seen \ ({Owner} \union Untouchable \union Bots)

\* Each stranger seen is removed, or the request fails and is left at that.
Kicks(u) ==
  /\ On("members", "kick") /\ u \in Strangers /\ seen' = seen \ {u}
  /\ \/ members' = members \ {u} /\ LayoutAnswers
     \/ Fails /\ UNCHANGED members
  /\ UNCHANGED <<fits, levels, at, doing, wanted>>

\* The bots not seen are invited; they join, or not yet.
Invites ==
  /\ On("members", "kick") /\ Strangers = {} /\ Next1
  /\ \/ \E joined \in SUBSET (Bots \ seen) : members' = members \union joined /\ LayoutAnswers
     \/ Bots \ seen # {} /\ Fails /\ UNCHANGED members
  /\ UNCHANGED <<fits, levels, wanted, seen>>

\* An error that is not an answer, or the operator, ends the script.
LayoutInterrupted ==
  /\ at # 0 /\ at' = 0 /\ Fails
  /\ UNCHANGED <<roomState, doing, wanted, seen>>

\* Somebody changes the state, a level, or joins.
RoomChanges ==
  /\ changes < MaxChanges /\ changes' = changes + 1 /\ clean' = FALSE
  /\ \/ \E p \in fits : fits' = fits \ {p} /\ UNCHANGED <<levels, members>>
     \/ \E u \in Users \ Untouchable, n \in {50, 100} :
          levels' = [levels EXCEPT !.users[u] = n] /\ UNCHANGED <<fits, members>>
     \/ \E u \in Users : members' = members \union {u} /\ UNCHANGED <<fits, levels>>
  /\ UNCHANGED <<at, doing, wanted, seen, limited, layoutRuns, layoutFaults>>

LayoutNext ==
  \/ StartsRun \/ Limited
  \/ \E p \in Parts : ReadsPart(p) \/ WritesPart(p)
  \/ ReadsLevels \/ WritesLevels
  \/ ReadsMembers \/ Invites
  \/ \E u \in Users : Kicks(u)
  \/ LayoutInterrupted \/ RoomChanges

LayoutSpec == LayoutInit /\ [][LayoutNext]_layoutVars

-----------------------------------------------------------------------------
(* Properties. *)

\* "Every step is idempotent": whatever earlier runs left behind, a run of which
\* no request failed leaves the room as documented: its state, who may change
\* it, and nobody in it who does not belong there.  (A level somebody else was
\* given stays, except after a failed read, which the model shows to lose it.)
CleanRunLaysOut ==
  at = 0 /\ clean =>
    /\ fits = Parts
    /\ levels.users[Owner] = 100 /\ levels.users[GatewayBot] = 100
    /\ \A u \in Bots : levels.users[u] # Unlisted
    /\ \A u \in Dropped : levels.users[u] = Unlisted
    /\ members \subseteq {Owner} \union Untouchable \union Bots
=============================================================================
