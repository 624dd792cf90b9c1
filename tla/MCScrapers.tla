------------------------------ MODULE MCScrapers ------------------------------
(* Instances of Scrapers for TLC. *)
EXTENDS Scrapers

CONSTANTS c1, c2
=============================================================================
