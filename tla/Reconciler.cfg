SPECIFICATION ReconcilerSpec
CONSTANTS
  MaxScout = 1
  MaxMessage = 4
  MaxVersion = 2
  Cap = 4
  MaxCrash = 1
  Plans = {p1}
  Commands = {}
  MaxTask = 1
  MaxTraffic = 1
  BatchLimit = 2
  MaxAttempt = 2
  TurnCap = 2
  Deliverables = {"d1", "d2"}
  MaxClosingFaults = 2
INVARIANTS
  EventsAccounted
  NoEndlessGate
PROPERTIES
  DraftsKept
  StopEndsResearch
  ResearchSettles
  EventSettles
  TurnResolvesRunnable
  EndedIsClosed
CHECK_DEADLOCK FALSE
