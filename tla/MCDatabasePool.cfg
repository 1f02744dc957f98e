CONSTANTS
    mail = mail
    trade = trade
    ban = ban
    NoTask = NoTask
    Transactions <- MCTransactions
    Statements <- NoStatements
    Length <- TransactionLength
    Connections = 2
    Retries = 2
    MaxDrops = 1
SPECIFICATION FairSpec
INVARIANTS
    TypeOK
    AllOrNothing
    OrderKept
PROPERTIES
    TasksRun
    CloseEnds
