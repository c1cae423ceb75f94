CONSTANTS
    Reverts = {}
    Concurrent = TRUE
    MaxVersion = 3
    MaxForeign = 1
    MaxStamp = 3
SPECIFICATION Spec
INVARIANTS
    CleanIsSaved
CHECK_DEADLOCK FALSE
