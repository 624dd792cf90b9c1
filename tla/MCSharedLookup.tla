---------------------------- MODULE MCSharedLookup ----------------------------
(* Instances of SharedLookup for TLC.  Every provider supports the query of
   k1; that of k2 is one for the second provider, or for none.            *)
EXTENDS SharedLookup

CONSTANTS k1, k2, p1, p2

TwoQueries == {[k \in {k1, k2} |-> IF k = k1 THEN 1 .. N ELSE S] : S \in {{}, {2}}}
=============================================================================
