---------------------------- MODULE MCBuildRuns ----------------------------
EXTENDS BuildRuns

CONSTANTS b1, b2, k1, k2

\* Two commits, or two build configurations.
DistinctKeys == [b \in Builds |-> IF b = b1 THEN k1 ELSE k2]
============================================================================
