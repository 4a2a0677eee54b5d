CONSTANTS
    Receivers <- MCReceivers
    Offered <- Both
    MaxTransfers = 5
    MaxFaults = 1
SPECIFICATION Spec
CHECK_DEADLOCK FALSE
INVARIANTS
    TypeOK
    HashedIsStored
    NoPartialAtName
