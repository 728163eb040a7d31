CONSTANTS
    Clients = {c1, c2}
    MaxConns = 1
    Modes = {"attached", "kill"}
    Env = {"expire"}
    NoLock = NoLock
    Empty = Empty
    Stale = Stale
    Free = Free
    Invalid = Invalid
    None = None
SPECIFICATION LiveSpec
PROPERTIES
    CallsReturn
    KillStops
    DaemonsEnd
CHECK_DEADLOCK FALSE
