SPECIFICATION Spec
CONSTANTS
    Letters <- ColumnNames
    Files <- SomeFiles
    Changes <- SomeChanges
    MaxRecords = 2
INVARIANTS
    KeysAreExact
    PayloadReadsBack
    ReplayIsIdentical
    OwnStateIsNotCaptured
    BuiltIsRunnable
CHECK_DEADLOCK FALSE
