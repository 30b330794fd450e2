SPECIFICATION Spec
CONSTANTS
    Clients = {c1, c2}
    MaxEdits = 2
    MaxCrashes = 0
    MaxLost = 0
SYMMETRY Symmetry
INVARIANT
    OverlapIsSafe
CHECK_DEADLOCK FALSE
