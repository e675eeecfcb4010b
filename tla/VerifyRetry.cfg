CONSTANTS
    Servers = {a, b}
    Concurrency = 1
    RetryOn = TRUE
    Version = "any"
    GraceOn = FALSE
    VersionMismatch = "fail"
    OtherSeverities = {"fail"}
    MaxCommit = 2
    MaxChanges = 1
SPECIFICATION Spec
SYMMETRY Symmetric
CHECK_DEADLOCK FALSE
INVARIANTS TypeOK FailureKept RestoredNotClean VerdictIsFresh ReportIsTrue AtMostConcurrency
PROPERTY ImplementsRetriedAudit
