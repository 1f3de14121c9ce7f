SPECIFICATION FairSpec
CONSTANTS
  Approvers = {r1, r2}
  Commands = {"cancel"}
  MaxVersion = 1
  MaxPosition = 2
  MaxAttempt = 2
  Size <- SameSize
INVARIANTS
  MergedForReal
  OneLivePerVersion
PROPERTIES
  Progress
  ImplementsSerial
  MergeSettles
CHECK_DEADLOCK FALSE
