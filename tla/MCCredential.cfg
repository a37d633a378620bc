SPECIFICATION FairSpec
CONSTANTS
    Workers = {w1, w2}
    MaxUses = 2
    MaxRotations = 2
    MaxReprovisions = 1
    MaxFaults = 1
    NoState = NoState
    Torn = Torn
INVARIANTS
    LockoutHasCause
    DuplicatesHaveCause
    RestartKeepsIdentity
PROPERTIES
    RevocationIsFinal
    RotationIsPickedUp
