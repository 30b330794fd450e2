SPECIFICATION FairSpec
CONSTANTS
    Clients = {c1}
    MaxEdits = 3
    MaxCrashes = 1
    MaxLost = 1
PROPERTY Converges
CHECK_DEADLOCK FALSE
