SPECIFICATION FairSpec
CONSTANTS
    Players = {p1, p2, p3}
    Ranks = {0, 1, 3}
    T1 = 1
    T2 = 2
    T3 = 3
    D1 = 1
    D2 = 2
    MaxRequests = 3
    MaxCrashes = 1
INVARIANTS OneFate GamesNumberedApart
PROPERTIES NoneLeftBehind OldestFirst EveryoneServed
CHECK_DEADLOCK FALSE
