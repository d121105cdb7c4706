SPECIFICATION FairSpec
CONSTANTS
    a = a
    b = b
    N = 2
    Event = {a, b}
    Picks <- OneOrTwoKeys
    InCap = 1
    BatchCap = 2
    FlushSize = 2
    MaxSend = 2
    CanCancel = TRUE
    CanClose = TRUE
INVARIANTS
    TypeOK
    CloseFlushesAll
PROPERTIES
    ImplementsRouter
    ImplementsLiveRouter
CHECK_DEADLOCK FALSE
