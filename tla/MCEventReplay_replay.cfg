SPECIFICATION ReplaySpec
CONSTANTS
    chat = chat
    Session = {chat}
    RingMax = 1
    ReplayLimit = 1
    MaxQueue = 3
    MaxEvents = 2
    MaxFrames = 3
    MaxOpens = 2
    MaxConns = 2
    MaxLives = 2
CHECK_DEADLOCK FALSE
INVARIANTS
    GlobalsReachPhone
    CopiesUpToDate
    NoRollback
    NoRevival
