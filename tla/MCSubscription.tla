---------------------------- MODULE MCSubscription ----------------------------
(* Instances of Subscription for TLC: two organisations, a trial shorter than
   the month, and the month two days long.                                *)
EXTENDS Subscription, TLC

CONSTANTS o1, o2, p1, p2, w1, w2

Symmetric == Permutations(Orgs) \cup Permutations(Payments) \cup Permutations(Workers)
=============================================================================
