SPECIFICATION Spec
CONSTANTS
    LastDay = 2
    MaxJointDepth = 1
    MaxLabels = 3
    MaxAxisPoints = 2
    MaxPoints = 6
    MaxKills = 1
    Scripts <- MCScripts
INVARIANTS TypeOK NothingDangles CachesAreFresh ReplayRebuilds PricesAreTheGrid
PROPERTIES SweepsPutBack UpdatesAreWhole
CHECK_DEADLOCK FALSE
