CONSTANTS
    c1 = c1
    c2 = c2
    Copy = {c1, c2}
    Alone = c1
    Scratchpad = {c2}
    EmptyWindow = FALSE
    Fallible = {"write", "delete"}
    Interference = {}
    MaxText = 3
    MaxSession = 3
SPECIFICATION MCSpec
INVARIANTS
    TypeOK
    HotExitKeeps
    BackedUp
    CleanIsDiscarded
    ModelIsInStep
PROPERTIES
    ImplementsHotExit
\* The edits and the sessions run out.
CHECK_DEADLOCK FALSE
