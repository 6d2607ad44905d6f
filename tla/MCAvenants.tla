------------------------------ MODULE MCAvenants ------------------------------
(* Small instances of Avenants for TLC. *)
EXTENDS Avenants, TLC

CONSTANTS i1, i2, r1, r2, r3, r4

DeuxIds == {i1, i2}
QuatreRequetes == {r1, r2, r3, r4}
Symetrie == Permutations(QuatreRequetes) \cup Permutations(DeuxIds)
==============================================================================
