SPECIFICATION Spec
CONSTANTS
    Sessions = {"s1", "s2"}
    Ids <- SixIds
    Request <- LogRequest
    PerWorker = 2
    StartsMayFail = FALSE
    InOrder = TRUE
    MaxWorkers = 5
    MaxSeats = 5
INVARIANT ExactlyOneTerminal
CHECK_DEADLOCK FALSE
