CONSTANTS
    Instances = {main, dev}
    Commits = {c1, c2}
    MaxPushes = 1
    MaxRuns = 2
    MaxFaults = 1
SPECIFICATION Spec
SYMMETRY Symmetric
CHECK_DEADLOCK FALSE
INVARIANTS TypeOK OneSnapshot TreesAreWhole
