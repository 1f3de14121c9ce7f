SPECIFICATION FairSpec
CONSTANTS
  Plans = {p1}
  Commands = {}
  MaxTask = 1
  MaxTraffic = 0
  MaxCrash = 1
  BatchLimit = 1
  MaxAttempt = 1
  TurnCap = 1
PROPERTIES
  InterruptedReplayed
CHECK_DEADLOCK FALSE
