SPECIFICATION Spec
CONSTANTS
    Teams <- MCTeams
    Tiles <- MCTiles
    Obstacles <- MCObstacles
    Sites <- MCSites
    Matches <- MCMatches
    Health <- MCHealth
    CastDelay = 1
    CastDuration = 3
    LaserEnd = 3
    FreezeTime = 1
    CloudTime = 2
    BulletLife = 1
    PerDeaths = 1
    PerStep = 2
    SpawnDelay = 1
    PlayTime = 3
    OverTime = 1
    MaxUnits = 6
    MaxActions = 2
INVARIANTS TilesKept CastersUntouched BlastsBounded KnightsCounted
CHECK_DEADLOCK FALSE
