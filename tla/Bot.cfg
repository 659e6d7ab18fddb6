SPECIFICATION BotFairSpec
CONSTANTS
    s1 = s1
    s2 = s2
    Squires = {s1, s2}
    LeftKnight = kl
    RightKnight = kr
    Leader = kc
    NoCard = NoCard
    Decks <- MCDecks
    DeckSize = 4
    HandSize = 2
    DrawInterval = 1
    MaxEnergy = 3
    StartEnergy = 1
    EnergyPerFrame = 1
    Cost <- MCCost
    Spells = {kl}
    ThinkInterval = 2
    FirstPatience = 1
    Patiences = {1}
    EnergyGap = 0
    RivalReady = 2
INVARIANTS CardsConserved DrawNeverPanics KnightCardHasKnight
           PickAffordable BotFindsTarget
PROPERTIES SlotsRefilled BotKeepsPlaying
