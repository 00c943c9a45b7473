SPECIFICATION FairSpec
CONSTANTS
    Players <- MCPlayers
    PlayerChans <- MCPlayerChans
    NoName = NoName
    MaxPairings = 3
INVARIANTS
    AckSpentOnce
PROPERTIES
    TwoPlayersMatch
    AwaitEnds
    CancelReturns
