SPECIFICATION MCSpec
CONSTANTS
    Clients = {c1, c2}
    MaxEdits = 3
    MaxCrashes = 1
    MaxLost = 1
    node1 = node1
    node2 = node2
    far = far
    Nodes = {node1, node2}
    Inbs = {near1, near2, far}
    NodeOf <- mcNodeOf
    None = None
    TrafficMax = 2
    MaxUse = 3
    MaxEvents = 1
    Tags = {t1, t2}
    All = All
    MaxMarks = 2
    MaxTroubles = 1
    Addresses = {a1}
    StaleAfter = 1
    Ips = {ip1, ip2}
    Allowed = {}
    LimitIp = 1
    LiveFor = 1
    ForgetAfter = 1
    MaxClock = 2
    MaxSwitches = 2
    Inbounds = {i1, i2}
    Grace = 3
    MaxManual = 3
SYMMETRY Symmetry
INVARIANTS
    TypeOK
    MasterIntact
    CleanMeansEqual
    NeverOvercounts
    CountedExactly
    RowIsTheSum
    AttributionIsTrue
    NotResurrected
    OverLimitIsLogged
    CoreFollowsRecord
PROPERTIES
    NotSweptBeforeImport
    DeletedNotRevived
    CreatedNotDropped
    ReapedWasLost
CHECK_DEADLOCK FALSE
