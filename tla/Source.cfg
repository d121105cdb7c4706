SPECIFICATION Spec
CONSTANTS
    Modes <- AllModes
    Bodies <- AllBodies
    PreBody <- Alter
    MaxLog = 10
    MaxStarts = 2
    MaxDrops = 1
INVARIANTS
    TypeOK
    ResumeNeverSkips
    ResumeReplaysOnlyOwnTxn
    IDsAreStable
    SchemaNeverOlder
CHECK_DEADLOCK FALSE
