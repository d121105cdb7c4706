SPECIFICATION Spec
CONSTANTS
    b1 = b1
    b2 = b2
    Batch = {b1, b2}
    Size = 2
    MaxInflight = 1
    MaxRuns = 2
INVARIANTS
    TypeOK
    FailureSurfaces
PROPERTIES
    ImplementsContract
    SlotsComeBack
CHECK_DEADLOCK FALSE
