---------------------------- MODULE MCCandidatures ----------------------------
(* Small instance of Candidatures for TLC. *)
EXTENDS Candidatures, TLC

CONSTANTS r1, r2, r3, r4, r5

CinqRequetes == {r1, r2, r3, r4, r5}
Symetrie == Permutations(CinqRequetes)
==============================================================================
