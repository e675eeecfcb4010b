---------------------------- MODULE MCVerifyRun ----------------------------
EXTENDS VerifyRun, TLC

Symmetric == Permutations(Servers)
============================================================================
