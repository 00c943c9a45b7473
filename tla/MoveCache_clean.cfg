SPECIFICATION FairSpec
CONSTANTS
    Callers = {c1, c2}
    Keys <- MCKeys
    expirationTime = 1
    maxEntries = 1
    MaxCalls = 3
    MaxTime = 2
INVARIANTS
    CountExact
    LatestKept
PROPERTIES
    TooBigIsCleaned
CHECK_DEADLOCK FALSE
