--------------------------- MODULE MCBailSignature ---------------------------
(* Small instances of BailSignature for TLC. *)
EXTENDS BailSignature

CONSTANTS l1, g1, r1, r2

UnLocataire    == {l1}
SansGarant     == {}
UnGarant       == {g1}
DeuxRequetes   == {r1, r2}
EnAttente      == {"en_attente"}
EnAttenteOuValidee == {"en_attente", "validee"}
==============================================================================
