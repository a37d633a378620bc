\* No fault at all, and a backend that refuses nothing: one record whose line
\* is longer than the reader's buffer.
SPECIFICATION FairSpec
CONSTANTS
    MaxRecords = 2
    MaxBytes = 4
    LineLimit = 3
    Sizes <- MCSizes
    CoarseClock = FALSE
    TornWrites = FALSE
    Rejected <- MCNone
    MaxAppends = 2
    MaxFaults = 0
    RetriedCap = 1
PROPERTY ReplayedAfterReconnect
CHECK_DEADLOCK FALSE
