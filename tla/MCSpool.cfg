SPECIFICATION FairSpec
CONSTANTS
    MaxRecords = 2
    MaxBytes = 4
    LineLimit = 3
    Sizes <- MCSizes
    CoarseClock = TRUE
    TornWrites = TRUE
    Rejected <- MCRejected
    MaxAppends = 3
    MaxFaults = 1
    RetriedCap = 1
INVARIANTS
    TypeOK
    NoSilentLoss
    RecordsBounded
    CountersAccount
PROPERTIES
    NothingDroppedNeedlessly
    ImplementsOutbox
    ReplayedWhileReadable
CHECK_DEADLOCK FALSE
