------------------------------ MODULE MCNotices ------------------------------
EXTENDS Notices, TLC
=============================================================================
