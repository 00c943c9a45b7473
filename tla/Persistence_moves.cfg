SPECIFICATION Spec
CONSTANTS
    Callers = {c1, c2}
    Games = {g1}
    NoGame = NoGame
    LastMoves <- MCLastMoves
    MaxAdds = 4
INVARIANTS
    NumberedInTurn
    FetchedInTurn
    AcknowledgedIsStored
PROPERTIES
    DeletesAllOrNothing
    KeepsTheRecord
SYMMETRY Interchangeable
CHECK_DEADLOCK FALSE
