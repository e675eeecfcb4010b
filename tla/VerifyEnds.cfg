CONSTANTS
    Servers = {a, b}
    Concurrency = 1
    RetryOn = TRUE
    Version = "any"
    GraceOn = FALSE
    VersionMismatch = "fail"
    OtherSeverities = {"error"}
    MaxCommit = 1
    MaxChanges = 0
SPECIFICATION FairSpec
CHECK_DEADLOCK FALSE
PROPERTY RunEnds
