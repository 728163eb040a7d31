CONSTANTS
    Clients = {c1, c2}
    MaxConns = 1
    Modes = {"piped"}
    Env = {"expire"}
    NoLock = NoLock
    Empty = Empty
    Stale = Stale
    Free = Free
    Invalid = Invalid
    None = None
SPECIFICATION Spec
PROPERTIES
    WatchdogSparesActive
CHECK_DEADLOCK FALSE
