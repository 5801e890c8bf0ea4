SPECIFICATION Spec
CONSTANTS
    l1 = l1
    l2 = l2
    l3 = l3
    Launches = {l1, l2, l3}
    Paths <- MCPaths
    PathOf <- MCPathOf
    Overlaps <- MCOverlaps
    MaxTurns = 2
SYMMETRY MCSymmetry
INVARIANTS
    WriterAlone
    TurnUncontested
CHECK_DEADLOCK FALSE
