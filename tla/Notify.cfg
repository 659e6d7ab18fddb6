SPECIFICATION Spec
CONSTANTS
    p1 = p1
    p2 = p2
    g1 = g1
    g2 = g2
    Conns = {c1, c2}
    NoConn = NoConn
    NoPlayer = NoPlayer
    Players = {p1, p2}
    Games = {g1, g2}
    NoGame = NoGame
    Sides <- MCSides
    OneEach = TRUE
    MaxCrashes = 0
SYMMETRY ConnSymmetry
INVARIANTS RegisteredOpen NoMissedGame
CHECK_DEADLOCK FALSE
