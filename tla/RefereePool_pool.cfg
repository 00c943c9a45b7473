SPECIFICATION FairSpec
CONSTANTS
    r1 = r1
    r2 = r2
    m1 = m1
    g1 = g1
    g2 = g2
    t1 = t1
    t2 = t2
    t3 = t3
    NoOne = NoOne
    Referees = {r1, r2}
    Managers = {m1}
    Games = {g1, g2}
    Tasks = {t1, t2, t3}
    GameID <- MCGameID
    Capacity = 1
INVARIANTS
    MapExclusive
    SerialGamesSaved
PROPERTIES
    TakenInTurn
    AllHandled
