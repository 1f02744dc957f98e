CONSTANTS
    error = error
    spell = spell
    mail = mail
    Packets <- MCPackets
    Size <- MCSize
    Error = error
    BufferSize = 3
    Room = 2
SPECIFICATION FairSpec
INVARIANTS
    TypeOK
    StreamInOrder
PROPERTIES
    PacketsAreWritten
