SPECIFICATION Spec
CONSTANTS
  Approvers = {r1}
  Commands = {"reopen", "edit", "pause"}
  MaxVersion = 2
  MaxPosition = 2
  MaxAttempt = 1
  Size <- ShrinkingSize
INVARIANTS
  CompletedIsWhole
PROPERTIES
  NoDispatchAhead
CHECK_DEADLOCK FALSE
