------------------------------ MODULE MCSharedLock ------------------------------
EXTENDS SharedLock

CONSTANTS t1, t2, t3
=============================================================================
