SPECIFICATION Spec
CONSTANTS
    None = None
    Programs = {p1}
    Daemons = {d1}
    Proposals = {x1}
    MaxCalls = 2
    Budget = 2
    MaxGens = 2
    MaxUsers = 4
    MaxCrashes = 1
INVARIANTS TypeOK GrantCount ChildUnderCaller
PROPERTIES ResumedByEvidence CallSpec
CHECK_DEADLOCK FALSE
