CONSTANTS
    exthost = exthost
    Connection = {exthost}
    Management = {}
    GiveUpAfter = 0
    MaxSocket = 1
SPECIFICATION Spec
PROPERTIES
    NoAttemptAfterFailure
\* The sockets run out, and connections are given up.
CHECK_DEADLOCK FALSE
