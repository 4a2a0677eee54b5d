CONSTANTS
    Path = {"a", "b"}
    MaxQueue = 2
    MaxTransfers = 2
    Counts = {1, 2}
    MaxStarts = 2
    MaxConnections = 2
SPECIFICATION Spec
INVARIANTS
    TypeOK
    OneWorker
    StatusIsTrue
PROPERTIES
    ProgressAdvances
    OutcomeShown
