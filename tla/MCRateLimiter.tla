---------------------------- MODULE MCRateLimiter ----------------------------
(* Instances of RateLimiter for TLC; idleTTL is longer than the window, as
   three minutes are than one.                                            *)
EXTENDS RateLimiter

CONSTANTS a, b
=============================================================================
