---------------------------- MODULE MCAttesterCalls ----------------------------
EXTENDS AttesterCalls, TLC
==============================================================================
