CONSTANTS
    Pids = {p, q}
    MaxNow = 4
    MaxUpgrades = 1
    MaxIma = 2
    MaxUnclaimed = 1
    Tolerance = 2
SPECIFICATION Spec
INVARIANTS
    TypeOK
    CodeIsSeen
    ProgramsAreAccounted
    LogExplainsQuote
CHECK_DEADLOCK FALSE
