---------------------------- MODULE MCResetPolicy ----------------------------
EXTENDS ResetPolicy, TLC
=============================================================================
