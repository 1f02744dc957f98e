CONSTANTS
    mail = mail
    trade = trade
    ban = ban
    NoTask = NoTask
    Transactions <- MCTransactions
    Statements <- MCStatements
    Length <- MCLength
    Connections = 1
    Retries = 2
    MaxDrops = 1
SPECIFICATION Spec
INVARIANTS SavesAreExecuted
