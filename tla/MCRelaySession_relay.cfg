SPECIFICATION Spec
CONSTANTS
    None = None
    Procs = {p1, p2}
    MaxSids = 3
    MaxToks = 1
    MaxOps = 2
    MaxChals = 2
    MaxCrashes = 1
    MaxFaults = 1
SYMMETRY Symmetry
INVARIANTS TypeOK BoundPairKept
PROPERTIES HandoverSpec TokenSpentOnce
CHECK_DEADLOCK FALSE
