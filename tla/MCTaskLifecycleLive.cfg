SPECIFICATION FairSpec
CONSTANTS
    Tasks = {t1}
    Workers = {w1, w2}
    MaxClaim = 1
    Reported = {"succeeded", "failed"}
    SpoolCap = 1
    RetriedTasks = {t1}
    MaxRetries = 1
    MaxFaults = 2
    NoResult = NoResult
PROPERTIES
    ResultsArrive
    ClaimsSettle
