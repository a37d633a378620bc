SPECIFICATION FairSpec
CONSTANTS
    Slots = {p, q}
    QueueSize = 1
    Room = 1
    MaxRecord = 3
    Matching <- MCMatching
    TooLong <- MCTooLong
    MaxRestarts = 1
    MaxFaults = 1
    NoSlot = NoSlot
INVARIANTS
    UploadedInOrder
    MissedIsReported
PROPERTIES
    SubscriptionTurns
    QueuedIsUploaded
