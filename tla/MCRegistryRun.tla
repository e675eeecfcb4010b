--------------------------- MODULE MCRegistryRun ---------------------------
EXTENDS RegistryRun, TLC

Symmetric == Permutations(Servers)
============================================================================
