CONSTANTS
    Path <- TwoPath
    Place <- TwoPlace
    Block <- MCBlock
    Queue <- TwoQueue
    Candidates <- TwoCandidates
    PartialAt <- NoPartialAt
    Versions <- TwoVersions
    MaxChunk = 1
    MaxConns = 2
    Window = 2
    MaxFaults = 1
SPECIFICATION Spec
CHECK_DEADLOCK FALSE
INVARIANTS
    CompletedNotRewritten
