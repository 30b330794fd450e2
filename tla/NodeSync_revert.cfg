SPECIFICATION Spec
CONSTANTS
    Clients = {c1, c2}
    MaxEdits = 2
    MaxCrashes = 0
    MaxLost = 1
SYMMETRY Symmetry
INVARIANT
    RevertIsSafe
CHECK_DEADLOCK FALSE
