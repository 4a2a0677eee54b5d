CONSTANTS
    Path <- OnePath
    Place <- OnePlace
    Block <- MCBlock
    Queue <- OneQueue
    Candidates <- OneCandidates
    PartialAt <- NoPartialAt
    Versions <- OneVersions
    MaxChunk = 1
    MaxConns = 5
    Window = 1
    MaxFaults = 2
SPECIFICATION FairSpec
CHECK_DEADLOCK FALSE
PROPERTIES
    EventuallyDone
    ReceiverReturns
