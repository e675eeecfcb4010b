CONSTANTS
    Servers = {a, b}
    Concurrency = 1
    RetryOn = TRUE
    Version = "any"
    GraceOn = FALSE
    VersionMismatch = "fail"
    OtherSeverities = {"error"}
    MaxCommit = 2
    MaxChanges = 2
SPECIFICATION Spec
SYMMETRY Symmetric
CHECK_DEADLOCK FALSE
INVARIANTS FinishedDeployPasses
