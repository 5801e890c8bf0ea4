SPECIFICATION Spec
CONSTANTS
    r1 = r1
    r2 = r2
    Runs = {r1, r2}
    Provider = "claude"
    Capacity = 2
    Helpers = {"helper", "tool", "guest"}
    Classes = {"completed", "auth"}
    MaxDelay = 1
    MaxTime = 0
    MaxFailures = 0
    MaxGen = 1
SYMMETRY RunSymmetry
INVARIANTS
    TypeOK
    CustodyHeld
    GenerationStable
    DisabledIdle
PROPERTIES
    SharedSpec
CHECK_DEADLOCK FALSE
