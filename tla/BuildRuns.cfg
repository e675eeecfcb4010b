CONSTANTS
    b1 = b1
    b2 = b2
    k1 = k1
    k2 = k2
    Builds = {b1, b2}
    Keys = {k1, k2}
    Account = TRUE
    Parallels = {1, 2}
    LeavesBehind = TRUE
    MayFail = TRUE
    MaxCrashes = 1
    KeyOf <- DistinctKeys
SPECIFICATION FairSpec
CHECK_DEADLOCK FALSE
INVARIANTS TypeOK TurnsAreEnough VerifierIsAlone
PROPERTY BuildsSettle
