SPECIFICATION Spec
CONSTANTS
  t1 = t1
  t2 = t2
  Tasks <- TwoTasks
  NoTask = NoTask
  Overlap <- BothOverlap
  MaxAttempts = 1
  MaxRecovery = 1
  MaxRecordFailures = 1
  FinishTries = 1
  AutoFailover = TRUE
  AutoContinue = TRUE
  PrWatch = FALSE
  MaxUsers = 1
  MaxCrashes = 1
  MaxFaults = 1
INVARIANTS
  WorkspaceExclusive
SYMMETRY Symmetric
CHECK_DEADLOCK FALSE
