SPECIFICATION Spec
CONSTANTS
    r1 = r1
    r2 = r2
    r3 = r3
    Runs = {r1, r2, r3}
    Provider = "codex"
    Capacity = 2
    Helpers = {}
    Classes = {"completed", "unavailable", "auth", "other"}
    MaxDelay = 1
    MaxTime = 2
    MaxFailures = 2
    MaxGen = 1
SYMMETRY RunSymmetry
INVARIANTS
    TrialAlone
PROPERTIES
    NoStaleClear
CHECK_DEADLOCK FALSE
