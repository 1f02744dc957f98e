CONSTANTS
    alice1 = alice1
    alice2 = alice2
    bob1 = bob1
    gm1 = gm1
    alice = alice
    bob = bob
    gm = gm
    NoSession = NoSession
    Connections <- MCConnections
    Accounts <- MCAccounts
    AccountOf <- MCAccountOf
    Privileged <- MCPrivileged
    Characters = {alice}
    PlayerLimits = {1, 2}
    Tolerance = FALSE
    MayStop = FALSE
    NetworkThreads = 2
    Iocp = FALSE
SPECIFICATION Spec
SYMMETRY Symmetry
INVARIANTS
    TypeOK
    NoDanglingSession
    OrdinaryWithinLimit
    NobodyWaitsBesideFreeSlot
    PositionsAreTold
PROPERTIES
    FirstComeFirstServed
