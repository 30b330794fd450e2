SPECIFICATION Spec
CONSTANTS
    Clients = {c1, c2}
    MaxEdits = 1
    MaxCrashes = 0
    MaxLost = 0
SYMMETRY Symmetry
INVARIANT
    TombstoneIsSafe
CHECK_DEADLOCK FALSE
