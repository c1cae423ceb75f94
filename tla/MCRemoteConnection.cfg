CONSTANTS
    mgmt = mgmt
    exthost = exthost
    Connection = {mgmt, exthost}
    Management = {mgmt}
    Alone = mgmt
    Host = exthost
    GiveUpAfter = 0
    MaxSocket = 3
SPECIFICATION MCSpec
INVARIANTS
    TypeOK
    Agreement
    GraceOnlyWhenClosed
    NoStaleControl
    LossIsHandled
PROPERTIES
    LoopEnds
    AbandonedIsReleased
\* The sockets run out, and connections are given up.
CHECK_DEADLOCK FALSE
