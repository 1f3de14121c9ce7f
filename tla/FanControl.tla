------------------------------ MODULE FanControl ------------------------------
(***************************************************************************)
(* The fan controllers of the two GPU hosts.  They are two copies of one   *)
(* program with different rules: the nvidia copy drives the cards' own     *)
(* fans and the board's, and ignores a card it cannot read; the amd copy   *)
(* drives the board's fans only, knows that a suspended card has no        *)
(* temperature, and goes to full speed when a card is unaccounted for.     *)
(*                                                                         *)
(* Temperatures are in thousandths of a degree.  The cards, the board, the *)
(* kernel and NVML are external.                                           *)
(***************************************************************************)
EXTENDS Integers

CONSTANTS
  FanTemps,     \* the temperatures a card may have
  MaxFanFaults  \* bound: failed writes, kills and failed starts, together

ASSUME FanAssumption == FanTemps \subseteq Int /\ MaxFanFaults \in Nat

Cards == 1..2
GpuFans == {"gpu1", "gpu2"}
BoardFans == {"pwm3", "pwm4"}    \* of the five pwms of the board
Fans == GpuFans \union BoardFans

\* A fan has a duty, or is left to its firmware, or is held at a speed it had.
Firmware == 256
Held == 257

VARIABLES
  card,       \* which copy this is, "nvidia" or "amd"
  hasBoard,   \* whether the board's hwmon was found
  temp,       \* external: temperature of each card
  sensor,     \* external: whether its sensor is "live", "dead", "asleep" or "missing"
  fan,        \* external: what drives each fan
  duty,       \* the duty decided in this pass
  fanPc,      \* what main does next
  stopping,   \* ~running
  unrestored, \* history: fans whose restoring write failed
  fanFaults   \* faults so far

fanVars == <<card, hasBoard, temp, sensor, fan, duty, fanPc, stopping, unrestored, fanFaults>>

-----------------------------------------------------------------------------
(* The curve. *)

\* round(n / d): to the nearest integer, and to the even one of two.
RoundHalfEven(n, d) ==
  LET q == n \div d
      r == n % d
  IN IF 2 * r < d \/ (2 * r = d /\ q % 2 = 0) THEN q ELSE q + 1

CEIL == 100
FLOOR(c) == IF c = "nvidia" THEN 50 ELSE 70
T_LO == 55000
T_HI(c) == IF c = "nvidia" THEN 85000 ELSE 80000

NvidiaCurve(t) ==
  IF t <= T_LO THEN 50
  ELSE IF t >= 85000 THEN CEIL
  ELSE RoundHalfEven(50 * 30000 + (t - T_LO) * 50, 30000)

AmdCurve(t) ==
  LET d == RoundHalfEven(70 * 25000 + (t - T_LO) * 30, 25000)
      atLeast == IF d > 70 THEN d ELSE 70
  IN IF atLeast < CEIL THEN atLeast ELSE CEIL

\* What is written for a duty: a percentage to a card, 0 to 255 to the board.
Raw(c, f, d) ==
  IF f \in GpuFans THEN d
  ELSE IF c = "nvidia" THEN (d * 255) \div 100
  ELSE RoundHalfEven(255 * d, 100)

-----------------------------------------------------------------------------
Read == {g \in Cards : sensor[g] = "live"}
Driven == (IF card = "nvidia" THEN GpuFans ELSE {}) \union (IF hasBoard THEN BoardFans ELSE {})
Hottest == CHOOSE t \in {temp[g] : g \in Read} : \A g \in Read : temp[g] <= t

FanTypeOK ==
  /\ card \in {"nvidia", "amd"} /\ hasBoard \in BOOLEAN
  /\ temp \in [Cards -> FanTemps]
  /\ sensor \in [Cards -> {"live", "dead", "asleep", "missing"}]
  /\ fan \in [Fans -> 0..257]
  /\ duty \in 50..100
  /\ fanPc \in {"start", "serve", "read", "write", "ended", "dead"}
  /\ stopping \in BOOLEAN
  /\ unrestored \subseteq Fans
  /\ fanFaults \in 0..MaxFanFaults

FanInit ==
  /\ card \in {"nvidia", "amd"} /\ hasBoard \in BOOLEAN
  /\ temp \in [Cards -> FanTemps] /\ sensor = [g \in Cards |-> "live"]
  /\ fan = [f \in Fans |-> Firmware] /\ duty = (IF card = "nvidia" THEN 50 ELSE 100)
  /\ fanPc = "start" /\ stopping = FALSE
  /\ unrestored = {} /\ fanFaults = 0

FanFault == fanFaults < MaxFanFaults /\ fanFaults' = fanFaults + 1

\* Writes to the fans of on: those in failed do not get the value.
Writes(on, value(_), failed) ==
  /\ \/ failed = {} /\ UNCHANGED fanFaults
     \/ failed # {} /\ FanFault
  /\ fan' = [f \in Fans |-> IF f \in on \ failed THEN value(f) ELSE fan[f]]

-----------------------------------------------------------------------------
(* The hardware and the operator. *)

\* A suspended card is cool; a card that left the bus may be anything.
CardChanges(g, t, s) ==
  /\ s \in {"asleep", "missing"} => card = "amd"
  /\ s = "asleep" => \A u \in FanTemps : t <= u
  /\ temp' = [temp EXCEPT ![g] = t] /\ sensor' = [sensor EXCEPT ![g] = s]
  /\ UNCHANGED <<card, hasBoard, fan, duty, fanPc, stopping, unrestored, fanFaults>>

Stop ==
  /\ fanPc \notin {"ended", "dead"}
  /\ stopping' = TRUE
  /\ UNCHANGED <<card, hasBoard, temp, sensor, fan, duty, fanPc, unrestored, fanFaults>>

\* Killed, or an exception before the try: NVML does not start, or the port
\* of the metrics is taken after the fans were taken over.
FanDies ==
  /\ fanPc \notin {"ended", "dead"}
  /\ FanFault /\ fanPc' = "dead"
  /\ UNCHANGED <<card, hasBoard, temp, sensor, fan, duty, stopping, unrestored>>

FanRestart ==
  /\ fanPc \in {"ended", "dead"}
  /\ fanPc' = "start" /\ stopping' = FALSE /\ unrestored' = {}
  /\ duty' = (IF card = "nvidia" THEN 50 ELSE 100)
  /\ UNCHANGED <<card, hasBoard, temp, sensor, fan, fanFaults>>

-----------------------------------------------------------------------------
(* The controller. *)

\* The nvidia copy takes its cards' fans at the speed they have; the amd copy
\* sets the board to full speed before it has read anything.
TakeOver(failed) ==
  /\ fanPc = "start" /\ failed \subseteq Driven
  /\ IF card = "nvidia"
     THEN Writes(GpuFans, LAMBDA f : IF fan[f] = Firmware THEN Held ELSE fan[f], failed)
     ELSE Writes(Driven, LAMBDA f : Raw(card, f, CEIL), failed)
  /\ fanPc' = "serve"
  /\ UNCHANGED <<card, hasBoard, temp, sensor, duty, stopping, unrestored>>

serve_metrics ==
  /\ fanPc = "serve" /\ fanPc' = "read"
  /\ UNCHANGED <<card, hasBoard, temp, sensor, fan, duty, stopping, unrestored, fanFaults>>

\* Mutant: a card is accounted for when its device is there.
DecideLoosely ==
  /\ fanPc = "read" /\ ~stopping
  /\ IF Read = {} THEN duty' = (IF card = "nvidia" THEN duty ELSE FLOOR(card))
     ELSE duty' = IF card = "nvidia" THEN NvidiaCurve(Hottest) ELSE AmdCurve(Hottest)
  /\ fanPc' = "write"
  /\ UNCHANGED <<card, hasBoard, temp, sensor, fan, stopping, unrestored, fanFaults>>

\* The temperatures are read and the duty decided.  With no temperature at
\* all the nvidia copy leaves the fans as they are.
Decide ==
  /\ fanPc = "read" /\ ~stopping
  /\ IF card = "nvidia"
     THEN IF Read = {} THEN UNCHANGED <<duty, fanPc>>
          ELSE duty' = NvidiaCurve(Hottest) /\ fanPc' = "write"
     ELSE /\ duty' = IF \E g \in Cards : sensor[g] \in {"dead", "missing"} THEN 100
                     ELSE IF Read = {} THEN FLOOR(card) ELSE AmdCurve(Hottest)
          /\ fanPc' = "write"
  /\ UNCHANGED <<card, hasBoard, temp, sensor, fan, stopping, unrestored, fanFaults>>

\* A value is written where the fan does not have it; a failure is a warning.
SetFans(failed) ==
  /\ fanPc = "write" /\ failed \subseteq Driven
  /\ Writes(Driven, LAMBDA f : Raw(card, f, duty), failed)
  /\ fanPc' = "read"
  /\ UNCHANGED <<card, hasBoard, temp, sensor, duty, stopping, unrestored>>

\* Mutant: a write that fails ends the restoring.
RestoreUntilFailure(failed) ==
  /\ fanPc = "read" /\ stopping /\ failed \subseteq Driven
  /\ IF failed = {} THEN Writes(Driven, LAMBDA f : Firmware, {}) ELSE FanFault /\ UNCHANGED fan
  /\ unrestored' = failed /\ fanPc' = "ended"
  /\ UNCHANGED <<card, hasBoard, temp, sensor, duty, stopping>>

\* The finally block.
Restore(failed) ==
  /\ fanPc = "read" /\ stopping /\ failed \subseteq Driven
  /\ Writes(Driven, LAMBDA f : Firmware, failed)
  /\ unrestored' = failed /\ fanPc' = "ended"
  /\ UNCHANGED <<card, hasBoard, temp, sensor, duty, stopping>>

Loops ==
  \/ \E failed \in SUBSET Fans : TakeOver(failed)
  \/ serve_metrics
  \/ Decide
  \/ \E failed \in SUBSET Fans : SetFans(failed)

FanNext ==
  \/ \E g \in Cards, t \in FanTemps, s \in {"live", "dead", "asleep", "missing"} : CardChanges(g, t, s)
  \/ Stop
  \/ FanDies
  \/ FanRestart
  \/ Loops
  \/ \E failed \in SUBSET Fans : Restore(failed)

FanSpec == FanInit /\ [][FanNext]_fanVars
FanFairSpec == FanSpec /\ WF_fanVars(Loops)

-----------------------------------------------------------------------------
(* Properties. *)

\* A controller that was asked to stop leaves no fan at a fixed speed, in
\* whatever pass the signal came: a fan whose own restoring write failed is
\* the only exception, and does not keep the others from being restored.
StoppedIsAuto ==
  fanPc = "ended" => \A f \in Fans \ unrestored : fan[f] = Firmware

\* A card is at the end of the curve; with the nvidia copy its sensor is read.
StaysHot ==
  /\ fanPc \in {"read", "write"} /\ ~stopping
  /\ \E g \in Cards : temp[g] >= T_HI(card) /\ (card = "nvidia" => sensor[g] = "live")

\* A card that stays hot gets every fan the controller drives to full speed,
\* past writes that fail; with the amd copy also when its sensor is lost.
HotGetsFull ==
  <>[]StaysHot => <>[](\A f \in Driven : fan[f] = Raw(card, f, CEIL))
=============================================================================
