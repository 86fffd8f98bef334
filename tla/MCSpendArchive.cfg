SPECIFICATION FairArchiveSpec
CONSTANTS
  Request <- MCRequest
  StartDay <- MCStartDay
  Runner = {"launchd", "manual"}
  NoRunner = "none"
  KeepDays = 1
  Lateness = 1
  Limit = {0, 1}
  MaxDay = 3
  MaxFaults = 3
INVARIANTS NoRowLost IndexFollowsRows
PROPERTIES RetentionKept 
