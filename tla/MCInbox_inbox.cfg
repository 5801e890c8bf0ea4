SPECIFICATION Spec
CONSTANTS
    Tasks = {t1, t2}
    Ids = {i1, i2}
    None = None
    MaxBatch = 1
    MaxTaskEvents = 2
    MaxUsers = 2
    MaxTurns = 2
    MaxCrashes = 1
SYMMETRY Perms
INVARIANTS TypeOK BatchCustody EventsFollowTasks StagedOnce
PROPERTIES GuidanceNotDropped MailSpec
CHECK_DEADLOCK FALSE
