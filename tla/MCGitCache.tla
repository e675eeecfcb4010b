---------------------------- MODULE MCGitCache -----------------------------
EXTENDS GitCache, TLC

Symmetric == Permutations(Instances) \cup Permutations(Commits)
============================================================================
