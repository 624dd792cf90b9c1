---------------------------- MODULE MCFineService ----------------------------
(* Instances of FineService for TLC.  The bounds keep the order of the code's
   constants: softTTL 15s < L1 cap 20s < hardTTL 2min.                    *)
EXTENDS FineService

CONSTANTS c1, r1, k1, pba, f1, f2
=============================================================================
