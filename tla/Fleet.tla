-------------------------------- MODULE Fleet --------------------------------
(***************************************************************************)
(* What the tables of a fleet have in common.                              *)
(***************************************************************************)

CONSTANTS
  Orgs,  \* the organizations a token can be for
  None   \* SQL NULL, JSON null, or an empty plate
=============================================================================
