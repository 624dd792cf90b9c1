--------------------------- MODULE MCFinesRefresher ---------------------------
(* Instances of FinesRefresher for TLC: one source answers, one is dead. *)
EXTENDS FinesRefresher

CONSTANTS k1, k2, h1
=============================================================================
