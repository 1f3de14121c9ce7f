SPECIFICATION RequestsSpec
CONSTANTS
  HookThreads = {t1, t2}
  Luna = luna
  OwnerKinds = {"edited", "labeled", "unlabeled", "approve", "commented", "pushed"}
  MaxDeliveries = 3
  MaxHookFaults = 1
  MaxMessages = 3
  MaxRoomFaults = 2
  AstraCap = 1
  Approvals = {t1}
  Outline <- MCOutline
  MaxIssueFaults = 3
  Reviewers = {reviewer, falsifier}
  Quorum = 2
  MaxCommits = 2
  MaxReviews = 2
  MaxGateFaults = 1
  Plans = {p1}
  Commands = {"instruct", "cancel", "pause"}
  MaxTask = 2
  MaxTraffic = 1
  MaxCrash = 0
  BatchLimit = 2
  MaxAttempt = 1
  TurnCap = 1
  CommentTexts = {"a"}
  CallIds = {c1, c2}
  PageSize = 2
  ScoutCap = 1
  MaxAttempts = 2
  MaxRounds = 2
  MaxOthers = 1
  MaxToolFaults = 1
INVARIANTS
  RequestsTypeOK
  AnsweredIsRecorded
  OneMessageOnePlan
  OneIssueEach
  MergedWasReviewed
  WokenUnlessCrashed
  SaidOnce
CHECK_DEADLOCK FALSE
