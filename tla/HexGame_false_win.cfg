SPECIFICATION Spec
CONSTANTS
    SideLenGameboard = 3
    Proposals <- SevenPlies
INVARIANTS
    WinImpliesPath
CHECK_DEADLOCK FALSE
