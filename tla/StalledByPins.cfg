SPECIFICATION FairSpec
CONSTANTS
  Plans = {p1, p2}
  States = {"running", "completed"}
  Writers = {t1}
  Limit = 2
  MaxEvents = 2
PROPERTIES
  PinsNeverStall
CHECK_DEADLOCK FALSE
