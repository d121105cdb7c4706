SPECIFICATION Spec
CONSTANTS
    MaxRow = 2
    Base <- BaseTwo
    Picks <- TwoKeys
    Queue = {"q1", "q2"}
    OutCap = 1
    QueueCap = 1
    BatchMaxSize = 1
    MaxInflight = 2
    MaxRuns = 2
    CanStop = FALSE
    CanCrash = FALSE
    CanLinger = FALSE
    NoPos = NoPos
PROPERTY
    UnpublishedIsReplayed
CHECK_DEADLOCK FALSE
