SPECIFICATION Spec
CONSTANTS
    None = None
    Commands = {c1, c2}
    MaxBoots = 1
    MaxCancels = 1
    MaxDeaths = 2
SYMMETRY Symmetry
INVARIANTS TypeOK EditsAccounted OutIsPinned
PROPERTIES JobSpec
CHECK_DEADLOCK FALSE
