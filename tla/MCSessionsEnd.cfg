CONSTANTS
    alice1 = alice1
    alice2 = alice2
    bob1 = bob1
    gm1 = gm1
    alice = alice
    bob = bob
    gm = gm
    NoSession = NoSession
    Connections <- BothOfAlice
    Accounts <- OnlyAlice
    AccountOf <- AccountOfAlice
    Privileged = {}
    Characters = {alice}
    PlayerLimits = {0, 1}
    Tolerance = TRUE
    MayStop = TRUE
    NetworkThreads = 2
    Iocp = FALSE
SPECIFICATION FairSpec
INVARIANTS
    ShutdownLogsOut
PROPERTIES
    ClosedSessionsEnd
