SPECIFICATION FairSpec
CONSTANTS
    Users = {}
    Creds = {}
    Statics = {s1, s2}
    Clashes = {TRUE, FALSE}
    Callers = {"watchdog", "admin", "saver"}
    DropRestart = FALSE
    Off = Off
INVARIANTS
    TypeOK
    NoRefusedTeardown
PROPERTIES
    ManualStopSticks
    WatchdogRevives
CHECK_DEADLOCK FALSE
