SPECIFICATION Spec
CONSTANTS
  t1 = t1
  t2 = t2
  Tasks <- OneTask
  NoTask = NoTask
  Overlap <- NoOverlap
  MaxAttempts = 2
  MaxRecovery = 2
  MaxRecordFailures = 2
  FinishTries = 2
  AutoFailover = TRUE
  AutoContinue = TRUE
  PrWatch = FALSE
  MaxUsers = 3
  MaxCrashes = 2
  MaxFaults = 2
INVARIANTS
  TypeOK
  LeaseCoversProvider
  NoReplayOverAmbiguity
  CompletedHasEvidence
  CancelKept
  RunningIsOwned
  TurnBudget
PROPERTIES
  StoppedStaysStopped
  CancelNotRequeued
CHECK_DEADLOCK FALSE
