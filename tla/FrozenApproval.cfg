SPECIFICATION Spec
CONSTANTS
  MaxScout = 1
  MaxMessage = 4
  MaxVersion = 2
  MaxCrash = 1
  Cap = 4
PROPERTIES
  ApprovedIsImmutable
CHECK_DEADLOCK FALSE
