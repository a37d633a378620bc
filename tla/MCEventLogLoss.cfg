\* No fault at all: the service is stopped and started once.
SPECIFICATION Spec
CONSTANTS
    Slots = {p, q}
    QueueSize = 1
    Room = 1
    MaxRecord = 3
    Matching <- MCMatching
    TooLong <- MCNone
    MaxRestarts = 1
    MaxFaults = 0
    NoSlot = NoSlot
INVARIANT NoLossAroundCheckpoint
