SPECIFICATION Spec
CONSTANTS
    MaxSaves = 2
INVARIANTS
    StorageReady
    SchemaTruthful
PROPERTY CursorKept
