SPECIFICATION Spec
CONSTANTS
    Callers = {a, b}
    Strays = {s}
    Keys = {k1, k2}
    Kinds = {"check", "enroll"}
    Transports = {"ssh", "kubernetes"}
    MaxPending = 2
    MaxOutput = 1
    MaxParts = 2
    MaxFaults = 1
INVARIANTS TypeOK CallsEndWhole PendingIsQueue EnrolledIsInTpm
PROPERTY CallsSettle
CHECK_DEADLOCK FALSE
