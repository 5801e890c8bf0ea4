SPECIFICATION FairSpec
CONSTANTS
  t1 = t1
  t2 = t2
  Tasks <- OneTask
  NoTask = NoTask
  Overlap <- NoOverlap
  MaxAttempts = 1
  MaxRecovery = 1
  MaxRecordFailures = 2
  FinishTries = 1
  AutoFailover = TRUE
  AutoContinue = FALSE
  PrWatch = FALSE
  MaxUsers = 2
  MaxCrashes = 1
  MaxFaults = 1
PROPERTIES
  RunningSettles
  CancelTakesEffect
CHECK_DEADLOCK FALSE
