--------------------------- MODULE MCInstanceMobility ---------------------------
EXTENDS InstanceMobility

CONSTANTS a, b
=============================================================================
