--------------------------- MODULE MCCaptchaToken ---------------------------
(* Instance of CaptchaToken for TLC: two callers, times in the real order. *)
EXTENDS CaptchaToken

CONSTANTS c1, c2
=============================================================================
