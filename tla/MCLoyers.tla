------------------------------- MODULE MCLoyers -------------------------------
(* Small instance of Loyers for TLC. *)
EXTENDS Loyers, TLC

CONSTANTS r1, r2

DeuxRequetes == {r1, r2}
Symetrie == Permutations(DeuxRequetes)
==============================================================================
