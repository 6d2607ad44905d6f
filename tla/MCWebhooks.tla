------------------------------ MODULE MCWebhooks ------------------------------
(* Small instance of Webhooks for TLC. *)
EXTENDS Webhooks, TLC

CONSTANTS w1, e1, e2, p1, p2

UnPoint == {w1}
DeuxEvenements == {e1, e2}
DeuxPasses == {p1, p2}

Symetrie == Permutations(DeuxEvenements) \cup Permutations(DeuxPasses)
==============================================================================
