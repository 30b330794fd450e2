SPECIFICATION Spec
CONSTANTS
    Users = {u1}
    Creds = {c1}
    Statics = {s1}
    Clashes = {FALSE}
    Callers = {"pending"}
    DropRestart = FALSE
    Off = Off
INVARIANT PendingRestartConverges
CHECK_DEADLOCK FALSE
