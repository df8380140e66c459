SPECIFICATION Spec
CONSTANTS
    Sessions = {"s1", "s2"}
    Ids <- FiveIds
    Request <- PoolRequest
    PerWorker = 2
    StartsMayFail = TRUE
    InOrder = TRUE
    MaxWorkers = 5
    MaxSeats = 5
INVARIANTS
    TypeOK
    PoolMatchesSessions
    NoneForgotten
    OneTerminal
    TargetsAreHere
    OneDeadlinePerRound
CHECK_DEADLOCK FALSE
