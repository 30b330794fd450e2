SPECIFICATION PanelSpec
CONSTANTS
    Requests = {r1, r2}
    Writers = {w1}
    Stoppers = {p1}
    QueueSize = 1
    None = None
INVARIANT Serialized
CHECK_DEADLOCK FALSE
