CONSTANTS
    continent = continent
    dungeon = dungeon
    arena = arena
    dungeon1 = dungeon1
    dungeon2 = dungeon2
    arena1 = arena1
    w1 = w1
    w2 = w2
    NoMap = NoMap
    BaseMaps <- MCBaseMaps
    Instances <- MCInstances
    Parent <- MCParent
    Workers <- MCWorkers
SPECIFICATION FairSpec
INVARIANTS
    TypeOK
    PendingCountsRequests
    WorldThreadAlone
    TickComplete
    OneRequestPerLiveMap

PROPERTIES
    TickEnds
    ShutdownEnds
    ImplementsWorldTick
