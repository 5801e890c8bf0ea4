SPECIFICATION Spec
CONSTANTS
    None = None
    Programs = {p1}
    Daemons = {d1}
    Proposals = {}
    MaxCalls = 1
    Budget = 2
    MaxGens = 1
    MaxUsers = 4
    MaxCrashes = 1
INVARIANTS CancelledChildSettles
CHECK_DEADLOCK FALSE
