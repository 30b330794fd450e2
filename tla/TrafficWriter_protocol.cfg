SPECIFICATION FairSpec
CONSTANTS
    Requests = {r1, r2, r3}
    Writers = {w1, w2}
    Stoppers = {p1, p2}
    QueueSize = 1
    None = None
INVARIANTS
    TypeOK
    ExactlyOnce
    NeverAbandoned
    OneWriter
PROPERTIES
    EveryCallReturns
    EveryStopReturns
    ImplementsSerialWriter
CHECK_DEADLOCK FALSE
