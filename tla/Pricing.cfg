SPECIFICATION Spec
CONSTANTS
    W = 8
    MaxSamples = 5
    MaxBatches = 3
    MaxEntries = 3
    Calls <- MCCalls
INVARIANTS TypeOK NothingIgnored PricedAsDocumented AskedIsAnswered BatchesAddUp BooksAreWhole
CHECK_DEADLOCK FALSE
