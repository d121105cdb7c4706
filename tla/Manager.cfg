SPECIFICATION FairSpec
CONSTANTS
    h1 = h1
    h2 = h2
    Id = {h1, h2}
    MaxRestarts = 1
    RestartBackoff = 2
    BackoffCap = 3
    MaxLives = 3
    MaxStops = 1
INVARIANTS
    TypeOK
    OneRun
    ExitAfterDrain
PROPERTY
    StopCompletes
CHECK_DEADLOCK FALSE
