SPECIFICATION LoopFairSpec
CONSTANTS
    Sessions = {"s1", "s2"}
    Ids <- FiveIds
    Request <- LiveRequest
    PerWorker = 2
    StartsMayFail = FALSE
    InOrder = TRUE
    MaxWorkers = 4
    MaxSeats = 4
INVARIANTS
    SeatsMatchSessions
PROPERTIES
    CancelsResolve
    EveryRequestAnswered
CHECK_DEADLOCK FALSE
