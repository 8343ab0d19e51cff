SPECIFICATION FairSpec
CONSTANTS
  Window = 2
  Kind <- MCKind
  Whitelist = TRUE
  Logs <- MCLogs
  BatchSize = 2
  Messages <- MCMessages
  PageLimits = {1, 2}
  MaxHeight = 3
  MaxFaults = 2
INVARIANTS TypeOK NothingPassedBy
PROPERTY EventsSettle
CHECK_DEADLOCK FALSE
