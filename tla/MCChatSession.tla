---------------------------- MODULE MCChatSession ----------------------------
(* Instances of ChatSession for TLC. *)
EXTENDS ChatSession, TLC

CONSTANTS k1, k2, h1, h2, s1, s2, s3

Symmetric == Permutations(Handlers) \cup Permutations(Sessions)
=============================================================================
