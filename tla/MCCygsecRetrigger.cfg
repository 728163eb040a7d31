CONSTANTS
    Clients = {c1, c2, c3}
    MaxConns = 1
    Modes = {"piped"}
    Env = {}
    NoLock = NoLock
    Empty = Empty
    Stale = Stale
    Free = Free
    Invalid = Invalid
    None = None
SPECIFICATION Spec
PROPERTIES
    NoRetrigger
CHECK_DEADLOCK FALSE
