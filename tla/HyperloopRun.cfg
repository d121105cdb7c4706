SPECIFICATION ShutdownSpec
CONSTANTS
    MaxRow = 2
    Base <- BaseTwo
    Picks <- AnyKeys
    Queue = {"q1", "q2"}
    OutCap = 1
    QueueCap = 1
    BatchMaxSize = 2
    MaxInflight = 1
    MaxRuns = 1
    CanStop = TRUE
    CanCrash = FALSE
    CanLinger = FALSE
    NoPos = NoPos
INVARIANTS
    TypeOK
    NeverDrops
    LaneOrder
PROPERTIES
    CleanStopSavesAll
    BoundedShutdown
    ProduceFailureEndsRun
    CapturedIsPublished
    CheckpointIsSaved
