SPECIFICATION Spec
CONSTANTS
    MaxPos = 3
    Kinds = {"file", "mysql"}
    MaxCrashes = 2
INVARIANT
    TypeOK
PROPERTIES
    ImplementsStore
    LoadedIsStable
    CallsReturn
