SPECIFICATION Spec
CONSTANTS
    Handlers = {h1, h2}
    Nobody = Nobody
    SlotCount = 1
    InitialRank = 5
    RankDownLimit = 5
    MedalsPerRank = 1
    RanksPerArena = 1
    ArenaCount = 6
    RequiredMedals = 1
    LevelMax = 4
    RelativeLv = 1
    InitialLevel = 1
    InitialHolding = 2
    InitialCoin = 2
    InitialCash = 1
    StartRanks = {1, 3, 5}
    StartOrder = 238
    CardCost <- MCCardCost
    CoinCost <- MCCoinCost
    Gains <- MCGains
    Prices = {1}
    MaxRequests = 2
    MaxMatches = 2
    MaxFails = 1
    MaxTimeouts = 1
SYMMETRY HandlerSymmetry
INVARIANTS RankInRange Balances LevelCapped ChestsOpen
PROPERTIES FloorHolds ChestsKept
CHECK_DEADLOCK FALSE
