SPECIFICATION Spec
CONSTANTS
    MaxSeq = 4
    Coord = {c1, c2}
    NoCoord = c0
INVARIANTS
    TypeOK
    CheckpointIsHighestPrefix
    PendingIsRest
    DirtyUntilTaken
