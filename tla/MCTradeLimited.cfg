CONSTANTS
    alice = alice
    bob = bob
    carol = carol
    ring1 = ring1
    ring2 = ring2
    sword = sword
    token1 = token1
    token2 = token2
    token3 = token3
    token4 = token4
    herb = herb
    enchant = enchant
    Players <- TwoPlayers
    NoPlayer = NoPlayer
    NoTrade = NoTrade
    Items <- Tokens
    NoItem = NoItem
    Kind <- TokenKind
    Limit <- TokenLimit
    Capacity <- TokenRoom
    TradedCount = 3
    Spells = {}
    NoSpell = NoSpell
    MaxMoney = 2
    FirstBags <- TokenBags
    FirstMoney <- TokenGold
    MaxDeals = 1
    MaxPending = 1
    MaxEvents = 0
SPECIFICATION Spec
INVARIANTS NothingLost
