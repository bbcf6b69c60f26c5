CONSTANTS
    None = None
    Hello = Hello
    Failed = Failed
    Idle = Idle
    Uplinks = {wifi, lte}
    Slots = 2
    MaxSessions = 3
    MaxInstances = 2
    MaxData = 1
    MaxForgets = 1
SPECIFICATION Spec
SYMMETRY AnyUplink
INVARIANTS PathsShareSession NumbersUsedOnce SocketsAreOwned
CHECK_DEADLOCK FALSE
