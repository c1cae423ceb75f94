CONSTANTS
    Reverts = {"soft", "hard"}
    Concurrent = TRUE
    MaxVersion = 3
    MaxForeign = 1
    MaxStamp = 3
SPECIFICATION MCSpec
INVARIANTS
    TypeOK
    OneWrite
    SavesAreWritten
    WorkIsKept
PROPERTIES
    TypedStays
    NoBlindOverwrite
    SavesSettle
CHECK_DEADLOCK FALSE
