------------------------- MODULE MCLockPersistence -------------------------
\* An instance of LockPersistence with two jobs, of which b is the more urgent.
EXTENDS LockPersistence, TLC

CONSTANTS a, b

MCPrio == (a :> 2) @@ (b :> 1)
=============================================================================
