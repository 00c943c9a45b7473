SPECIFICATION FairSpec
CONSTANTS
    Clients = {k1}
INVARIANTS
    HangsIffSchemaFailed
PROPERTIES
    SetupEnds
    ServeEndEndsProcess
    ComesBack
CHECK_DEADLOCK FALSE
