---------------------------- MODULE MCEtatDesLieux ----------------------------
(* Small instance of EtatDesLieux for TLC. *)
EXTENDS EtatDesLieux, TLC

CONSTANTS s1, r1, r2, r3, r4

UneSauvegarde == {s1}
QuatreDemandes == {r1, r2, r3, r4}
Symetrie == Permutations(QuatreDemandes)
==============================================================================
