SPECIFICATION Spec
CONSTANTS
    SideLenGameboard = 3
    Proposals <- SixPlies
INVARIANTS
    NoPanic
    IndicesInBounds
    HiddenEdgesByColumn
    TileEdgeIffTouch
    QuickRejectSound
    DeclaredSpansBoard
    ReplayRejected
PROPERTIES
    PlaysByTheRules
CHECK_DEADLOCK FALSE
