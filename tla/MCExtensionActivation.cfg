CONSTANTS
    base = base
    lib = lib
    tool = tool
    Ext <- MCExt
    Deps <- MCDeps
    OnEvent <- MCOnEvent
    Fallible = {base}
    MaxDelta = 2
    MaxRestart = 2
SPECIFICATION FairSpec
INVARIANTS
    TypeOK
    WindowKnowsHost
    DependenciesFirst
PROPERTIES
    RequestedIsActivated
\* The changes of the extensions and the restarts run out.
CHECK_DEADLOCK FALSE
