CONSTANTS
    Path <- MCPath
    Block <- MCBlock
    Queue <- MCQueue
    Versions <- MCVersions
    DeckFrames <- MCDeckFrames
    MaxChunk = 2
    MaxConns = 1
    Window = 12
    MaxFaults = 1
SPECIFICATION Spec
CHECK_DEADLOCK FALSE
INVARIANTS
    TypeOK
    StreamFitsOffer
    SentIsHashed
