SPECIFICATION Spec
CONSTANTS
    Users = {u1}
    Creds = {c1, c2}
    Statics = {s1}
    Clashes = {FALSE}
    Callers = {"pending", "traffic", "nodesync"}
    DropRestart = TRUE
    Off = Off
SYMMETRY Symmetry
INVARIANT DriftIsKnown
CHECK_DEADLOCK FALSE
