SPECIFICATION Spec
CONSTANTS
    Sessions = {"s1"}
    Ids <- FiveIds
    Request <- LiveRequest
    MaxConns = 2
    MaxPerConn = 1
    MaxDetached = 1
    MaxHeld = 1
    StartsMayFail = TRUE
    Moves = TRUE
    MaxDrops = 2
PROPERTIES
    EveryRequestSettles
    AbsencesEnd
CHECK_DEADLOCK FALSE
