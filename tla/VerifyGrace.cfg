CONSTANTS
    Servers = {a}
    Concurrency = 1
    RetryOn = TRUE
    Version = "latest"
    GraceOn = TRUE
    VersionMismatch = "fail"
    OtherSeverities = {"warn", "error"}
    MaxCommit = 3
    MaxChanges = 3
SPECIFICATION Spec
CHECK_DEADLOCK FALSE
INVARIANTS NoFalseAlarm
