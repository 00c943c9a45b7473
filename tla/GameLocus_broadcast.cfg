SPECIFICATION FairSpec
CONSTANTS
    Clients = {c1, c2}
    Events = {e1, e2}
    Buffer = 1
    Burst = 1
    NoOne = NoOne
INVARIANTS
    MapSteady
    GapsOnlyIfTold
PROPERTIES
    CatchesUpOrCloses
    ClosedLeaves
    PublishReturns
    StreamedInTurn
CHECK_DEADLOCK FALSE
