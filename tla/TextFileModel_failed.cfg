CONSTANTS
    Reverts = {"hard"}
    Concurrent = TRUE
    MaxVersion = 2
    MaxForeign = 0
    MaxStamp = 3
SPECIFICATION Spec
PROPERTIES
    FailedRevertStaysDirty
CHECK_DEADLOCK FALSE
