----------------------- MODULE MCConfigDistribution -----------------------
\* Instances of ConfigDistribution with two callers and two node groups.
EXTENDS ConfigDistribution
=============================================================================
