\* No fault at all: two rotations, the second scheduled during a heartbeat.
SPECIFICATION FairSpec
CONSTANTS
    Workers = {w1, w2}
    MaxUses = 1
    MaxRotations = 2
    MaxReprovisions = 0
    MaxFaults = 0
    NoState = NoState
    Torn = Torn
PROPERTY RotationReachesAgent
