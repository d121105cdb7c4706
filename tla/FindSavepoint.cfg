SPECIFICATION Spec
CONSTANTS
    Modes <- GTIDMode
    Bodies <- SavepointBodies
    PreBody <- Alter
    MaxLog = 8
    MaxStarts = 1
    MaxDrops = 0
INVARIANT
    ResumeNeverSkips
CHECK_DEADLOCK FALSE
