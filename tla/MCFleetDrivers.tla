--------------------------- MODULE MCFleetDrivers ---------------------------
\* Model-checking instance of FleetDrivers.
EXTENDS FleetDrivers, TLC

Symmetry == Permutations(Orgs) \union Permutations(Drivers)
=============================================================================
