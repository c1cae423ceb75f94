CONSTANTS
    s0 = s0
    s1 = s1
    auth = auth
    Socket = {s0, s1}
    FirstSocket = s0
    ControlData = {auth}
    NoData = NoData
    MaxMsg = 2
    MaxInFlight = 1
SPECIFICATION MCSpec
INVARIANTS
    TypeOK
    ExactlyOnceInOrder
    NoMessageLost
    OwedAckHasTimer
    UnackedIsWatched
    BufferedIsScheduled
PROPERTIES
    ImplementsReliableChannel
\* The messages and sockets run out.
CHECK_DEADLOCK FALSE
