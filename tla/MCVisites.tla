------------------------------- MODULE MCVisites -------------------------------
(* Small instance of Visites for TLC. *)
EXTENDS Visites, TLC

CONSTANTS v1, v2, pl, pb1, pb2

DeuxIds == {v1, v2}
UnePage == {pl}
DeuxPages == {pb1, pb2}
Symetrie == Permutations(DeuxPages) \cup Permutations(DeuxIds)
==============================================================================
