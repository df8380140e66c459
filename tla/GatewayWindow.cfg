SPECIFICATION Spec
CONSTANTS
    Sessions = {"s1", "s2"}
    Ids <- FiveIds
    Request <- WindowRequest
    MaxConns = 2
    MaxPerConn = 1
    MaxDetached = 1
    MaxHeld = 1
    StartsMayFail = FALSE
    Moves = FALSE
    MaxDrops = 2
INVARIANTS
    TypeOK
    BooksAgree
    SeatsFollowSessions
    NoneForgotten
    OwedIsServed
    OneTerminal
PROPERTIES
    DeadlinesEndTheirOwn
CHECK_DEADLOCK FALSE
