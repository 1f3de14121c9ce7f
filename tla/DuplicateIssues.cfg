SPECIFICATION SubIssuesSpec
CONSTANTS
  Approvals = {t1, t2}
  Outline <- MCOutline
  MaxIssueFaults = 0
INVARIANTS
  OneIssueEach
CHECK_DEADLOCK FALSE
