SPECIFICATION Spec
CONSTANTS
    Sessions = {"s1", "s2"}
    Ids <- FiveIds
    Request <- ReturnRequest
    PerWorker = 2
    StartsMayFail = FALSE
    InOrder = TRUE
    MaxWorkers = 5
    MaxSeats = 5
INVARIANT FailedOpensAreClosed
CHECK_DEADLOCK FALSE
