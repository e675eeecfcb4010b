CONSTANTS
    b1 = b1
    b2 = b2
    k1 = k1
    k2 = k2
    Builds = {b1, b2}
    Keys = {k1, k2}
    Account = TRUE
    Parallels = {2}
    LeavesBehind = FALSE
    MayFail = FALSE
    MaxCrashes = 0
    KeyOf <- DistinctKeys
SPECIFICATION Spec
CHECK_DEADLOCK FALSE
INVARIANTS CachedIsReproduced
