CONSTANTS
    None = None
    Hello = Hello
    Failed = Failed
    Idle = Idle
    Uplinks = {wifi}
    Slots = 2
    MaxSessions = 5
    MaxInstances = 4
    MaxData = 0
    MaxForgets = 1
SPECIFICATION FairSpec
PROPERTIES RecoversItsSession StopsCompletely
CHECK_DEADLOCK FALSE
