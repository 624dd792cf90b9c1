--------------------------- MODULE MCFleetRecords ---------------------------
\* Model-checking instance of FleetRecords.
EXTENDS FleetRecords, TLC

Symmetry == Permutations(Orgs) \union Permutations(Cars)
=============================================================================
