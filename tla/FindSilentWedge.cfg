SPECIFICATION FairSpec
CONSTANTS
    MaxRow = 2
    Base <- BaseTwo
    Picks <- OneKeyTwo
    Queue = {"q1"}
    OutCap = 1
    QueueCap = 1
    BatchMaxSize = 1
    MaxInflight = 2
    MaxRuns = 2
    CanStop = FALSE
    CanCrash = FALSE
    CanLinger = FALSE
    NoPos = NoPos
PROPERTY
    SinkErrorEndsRun
CHECK_DEADLOCK FALSE
