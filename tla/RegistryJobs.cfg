CONSTANTS
    Servers = {a, b}
    Unpinned = {b}
    RetryOn = TRUE
    MayMiss = FALSE
    MaxCommit = 2
    MaxRuns = 2
    MaxChanges = 2
    MaxFaults = 2
SPECIFICATION FairSpec
CHECK_DEADLOCK FALSE
INVARIANTS TypeOK FailureSurvivesJobs PassIsEarned FaultlessRunIsRight
PROPERTY ImplementsRetriedAudit RunsEnd
