CONSTANTS
    deadmines = deadmines
    stockade = stockade
    solo = solo
    tank = tank
    healer = healer
    party = party
    NoGroup = NoGroup
    Dungeons <- BothDungeons
    Players <- ThreePlayers
    Groups <- MCGroups
    GroupOf <- GroupOfThree
    ResetDelay = 1
    RespawnDelay = 1
    MaxTime = 3
    Chunk = 32
    Word = 64
    MaxId = 1
SPECIFICATION Spec
INVARIANTS ResetOnlyScheduledWhenEmpty
