SPECIFICATION TelemetrySpec
CONSTANTS
    dns = dns
    start = start
    encoded = encoded
    Observation <- MCObservation
    Shape <- MCShape
    Batches <- MCBatches
    RuleFiles <- MCRuleFiles
    Malformed = Malformed
    Separate = TRUE
    MaxAttempts = 3
    MaxFaults = 3
    Pids = {p1, p2}
    QueueSize = 2
    MaxExited = 1
    Retention = 0
    Nothing = Nothing
    MaxProcesses = 3
    MaxTime = 1
CHECK_DEADLOCK FALSE
INVARIANTS
    NoDetectionGap
    ReferencesResolve
    ExactWithoutReuse
    ConfusionHasCause
