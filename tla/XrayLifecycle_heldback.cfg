SPECIFICATION Spec
CONSTANTS
    Users = {}
    Creds = {}
    Statics = {s1}
    Clashes = {TRUE, FALSE}
    Callers = {"saver"}
    DropRestart = FALSE
    Off = Off
INVARIANT HeldBackIsTrue
CHECK_DEADLOCK FALSE
