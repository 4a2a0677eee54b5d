CONSTANTS
    MaxControl = 3
    MaxChunk = 1
    IndexSize = 1
    Kind <- MCKind
    Sizes = {0, 1, 2, 3, 4}
    Peers <- MCPeers
    MaxFrames = 2
    MaxPieces = 8
SPECIFICATION Spec
CHECK_DEADLOCK FALSE
INVARIANTS
    TypeOK
    GotIsWritten
    ErrorsAreReal
    VersionsFailClearly
PROPERTIES
    EveryFrameArrives
