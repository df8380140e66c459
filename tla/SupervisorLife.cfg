SPECIFICATION Spec
CONSTANTS
    Sessions = {"s1"}
    Ids <- EightIds
    Request <- LifeRequest
    PerWorker = 2
    StartsMayFail = TRUE
    InOrder = TRUE
    MaxWorkers = 5
    MaxSeats = 5
INVARIANTS
    LogIsTheGraph
CHECK_DEADLOCK FALSE
