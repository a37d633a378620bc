\* A token for one use, and an enrollment the agent gives up on and repeats.
SPECIFICATION FairSpec
CONSTANTS
    Workers = {w1, w2}
    MaxUses = 1
    MaxRotations = 0
    MaxReprovisions = 0
    MaxFaults = 1
    NoState = NoState
    Torn = Torn
INVARIANT UseLimitHolds
