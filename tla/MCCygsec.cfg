CONSTANTS
    Clients = {c1, c2}
    MaxConns = 2
    Modes = {"attached", "piped", "kill"}
    Env = {"denied", "late", "abort", "crash", "lockfail", "noinstance", "noattach", "expire"}
    NoLock = NoLock
    Empty = Empty
    Stale = Stale
    Free = Free
    Invalid = Invalid
    None = None
SPECIFICATION Spec
INVARIANTS
    TypeOK
    SingleDaemon
    LockNamesDaemon
    SessionIsAuthentic
    ActiveCountsHandlers
    OneConsole
PROPERTIES
    StopRemovesOwnLock
SYMMETRY ClientSymmetry
CHECK_DEADLOCK FALSE
