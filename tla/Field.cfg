SPECIFICATION FairSpec
CONSTANTS
    Sappers <- MCSappers
    AskedTiles <- MCAskedTiles
    Offsets <- MCOffsets
    Radii = {15, 55}
    Sight = 275
    Reach = 50
    Pace = 10
    MaxDead = 2
    MaxBuildings = 1
INVARIANTS BodiesApart PathClear NoDetour
PROPERTY Arrives
CHECK_DEADLOCK FALSE
