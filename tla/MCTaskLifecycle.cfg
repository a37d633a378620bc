SPECIFICATION Spec
CONSTANTS
    Tasks = {t1, t2}
    Workers = {w1, w2}
    MaxClaim = 2
    Reported = {"succeeded", "failed"}
    SpoolCap = 1
    RetriedTasks = {t1}
    MaxRetries = 1
    MaxFaults = 1
    NoResult = NoResult
INVARIANTS
    ExecutedOncePerDispatch
    PolicyBlockHolds
    NoPhantomOutcome
    AuditKeptUntilRetry
    NoResultVanishes
