CONSTANTS
    c1 = c1
    c2 = c2
    Copy = {c1, c2}
    Scratchpad = {c2}
    EmptyWindow = FALSE
    Fallible = {}
    Interference = {}
    MaxText = 2
    MaxSession = 1
SPECIFICATION Spec
INVARIANTS
    NoStaleBackup
\* The edits and the sessions run out.
CHECK_DEADLOCK FALSE
