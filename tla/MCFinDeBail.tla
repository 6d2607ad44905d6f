------------------------------ MODULE MCFinDeBail ------------------------------
(* Small instances of FinDeBail for TLC. *)
EXTENDS FinDeBail

CONSTANTS l1, l2, b1, o1, c1

DeuxLocataires == {l1, l2}
UnBailleur  == {b1}
UnOccupant  == {o1}
UneTache    == {c1}
==============================================================================
