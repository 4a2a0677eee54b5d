CONSTANTS
    Path <- TwoPath
    Place <- TwoPlace
    Block <- MCBlock
    Queue <- TwoQueue
    Candidates <- TwoCandidates
    PartialAt <- NoPartialAt
    Versions <- TwoVersions
    MaxChunk = 1
    MaxConns = 3
    Window = 2
    MaxFaults = 2
SPECIFICATION Spec
CHECK_DEADLOCK FALSE
INVARIANTS
    TypeOK
    DoneMeansStored
    NeverBothWaiting
    PeersAgree
PROPERTIES
    KeepsBoth
    Delivers
