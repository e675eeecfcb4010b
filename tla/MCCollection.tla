---------------------------- MODULE MCCollection ----------------------------
EXTENDS Collection
=============================================================================
