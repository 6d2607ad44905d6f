--------------------------- MODULE MCBailInvitation ---------------------------
(* Small instances of BailInvitation for TLC. *)
EXTENDS BailInvitation, TLC

CONSTANTS l1, l2, a1, a2, t1, t2, r1, r2, r3, r4

DeuxLocataires == {l1, l2}
DeuxAnnonces   == {a1, a2}
UnePubliee     == {a1}
DeuxTokens     == {t1, t2}
QuatreRequetes == {r1, r2, r3, r4}
Symetrie       == Permutations(QuatreRequetes)
==============================================================================
