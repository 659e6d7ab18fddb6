SPECIFICATION Spec
CONSTANTS
    p1 = p1
    p2 = p2
    p3 = p3
    g1 = g1
    g2 = g2
    g3 = g3
    Players = {p1, p2, p3}
    Games = {g1, g2, g3}
    NoGame = NoGame
    Sides <- MCSides
    OneEach = FALSE
    MaxCrashes = 0
PROPERTY RunningKeyKept
CHECK_DEADLOCK FALSE
