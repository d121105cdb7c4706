SPECIFICATION Spec
CONSTANTS
    MaxRow = 3
    Base <- BaseThree
    Picks <- OneKeyThree
    Queue = {"q1"}
    OutCap = 1
    QueueCap = 1
    BatchMaxSize = 2
    MaxInflight = 2
    MaxRuns = 2
    CanStop = TRUE
    CanCrash = TRUE
    CanLinger = TRUE
    NoPos = NoPos
INVARIANTS
    NoGap
PROPERTIES
    SavedNeverRegresses
