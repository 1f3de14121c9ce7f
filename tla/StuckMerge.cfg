SPECIFICATION FairSpec
CONSTANTS
  Approvers = {r1}
  Commands = {}
  MaxVersion = 1
  MaxPosition = 1
  MaxAttempt = 1
  Size <- SameSize
PROPERTIES
  EveryMergeSettles
CHECK_DEADLOCK FALSE
