CONSTANTS
    Servers = {a, b}
    Concurrency = 2
    RetryOn = FALSE
    Version = "latest"
    GraceOn = FALSE
    VersionMismatch = "fail"
    OtherSeverities = {"error"}
    MaxCommit = 2
    MaxChanges = 2
SPECIFICATION Spec
SYMMETRY Symmetric
CHECK_DEADLOCK FALSE
INVARIANTS SameVersion
