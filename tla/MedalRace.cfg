SPECIFICATION Spec
CONSTANTS
    Handlers = {h1, h2}
    Nobody = Nobody
    SlotCount = 1
    InitialRank = 5
    RankDownLimit = 5
    MedalsPerRank = 1
    RanksPerArena = 1
    ArenaCount = 6
    RequiredMedals = 1
    LevelMax = 4
    RelativeLv = 1
    InitialLevel = 1
    InitialHolding = 2
    InitialCoin = 2
    InitialCash = 1
    StartRanks = {5}
    StartOrder = 1
    CardCost <- MCCardCost
    CoinCost <- MCCoinCost
    Gains <- MCGains
    Prices = {1}
    MaxRequests = 2
    MaxMatches = 4
    MaxFails = 0
    MaxTimeouts = 0
INVARIANT MedalsSinceOpen
CHECK_DEADLOCK FALSE
