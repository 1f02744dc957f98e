CONSTANTS
    alice = alice
    bob = bob
    carol = carol
    ring1 = ring1
    ring2 = ring2
    sword = sword
    token1 = token1
    token2 = token2
    token3 = token3
    token4 = token4
    herb = herb
    enchant = enchant
    Players <- ThreePlayers
    NoPlayer = NoPlayer
    NoTrade = NoTrade
    Items <- Rings
    NoItem = NoItem
    Kind <- RingKind
    Limit <- RingLimit
    Capacity <- RingRoom
    TradedCount = 2
    Spells = {enchant}
    NoSpell = NoSpell
    MaxMoney = 2
    FirstBags <- RingBags
    FirstMoney <- RingGold
    MaxDeals = 1
    MaxPending = 1
    MaxEvents = 2
SPECIFICATION Spec
INVARIANTS
    TypeOK
    TradesArePaired
    AcceptedAsSeen
    NothingLost
    SavedTogether
PROPERTIES
    ExchangeAsAccepted
