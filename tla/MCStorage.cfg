CONSTANTS
    w1 = w1
    w2 = w2
    main = main
    k1 = k1
    k2 = k2
    Window = {w1, w2}
    Alone = w1
    Main = main
    Key = {k1, k2}
    OneKey = k1
    Value = {1}
    Fallible = {"update", "close", "recover"}
    MaxSet = 3
    MaxSession = 2
SPECIFICATION MCSpec
INVARIANTS
    TypeOK
    Converges
    SetIsWritten
    CloseKeeps
PROPERTIES
    ImplementsDurableItems
    
\* The changes and the sessions run out.
CHECK_DEADLOCK FALSE
