CONSTANTS
    Path <- OnePath
    Place <- OnePlace
    Block <- MCBlock
    Queue <- OneQueue
    Candidates <- OneCandidates
    PartialAt <- NoPartialAt
    Versions <- OneVersions
    MaxChunk = 1
    MaxConns = 3
    Window = 2
    MaxFaults = 2
SPECIFICATION Spec
CHECK_DEADLOCK FALSE
PROPERTIES
    ResumeKept
    Delivers
