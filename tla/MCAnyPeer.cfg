CONSTANTS
    Path <- MCPath
    Place <- MCPlace
    Block <- MCBlock
    Candidates <- MCCandidates
    PartialAt <- MCPartialAt
    PeerFrames <- MCPeerFrames
    MaxChunk = 1
    MaxConns = 2
    Window = 1
    MaxFaults = 1
SPECIFICATION Spec
CHECK_DEADLOCK FALSE
INVARIANTS
    TypeOK
    StoredWhole
    HashedIsStored
    ResumeCurrent
PROPERTIES
    KeepsBoth
    Delivers
