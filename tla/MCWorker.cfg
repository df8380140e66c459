SPECIFICATION FairSpec
CONSTANTS
    Frames <- MCFrames
    Seeds <- MCSeeds
    MaxRequests = 3
INVARIANTS
    TypeOK
    OneFate
    StopsOnlyItsTarget
    StopNotLost
    DeathAfterAnswer
    NoGhostAnswers
PROPERTIES
    NothingStartsAfterKill
    KeepsItsPromise
CHECK_DEADLOCK FALSE
