--------------------------- MODULE DoubleSignature ---------------------------
(***************************************************************************)
(* What a two-party signature promises, whatever handlers carry it out:    *)
(* each party signs when it likes, and the act takes effect once, after    *)
(* every party has signed.  bail/signer (the lease itself) and             *)
(* bail/avenant/[id]/signer (an amendment) are two implementations: see    *)
(* BailSignature and Avenants, which instantiate this module.              *)
(***************************************************************************)
CONSTANT Parties

VARIABLES signe,  \* the parties whose signature is recorded
          actif   \* the act has taken effect

dsVars == <<signe, actif>>

DSInit == signe = {} /\ actif = FALSE

Signer(p) ==
  /\ signe' = signe \cup {p}
  /\ UNCHANGED actif

Activer ==
  /\ signe = Parties
  /\ ~actif
  /\ actif' = TRUE
  /\ UNCHANGED signe

DSNext == Activer \/ \E p \in Parties : Signer(p)

DSSafeSpec == DSInit /\ [][DSNext]_dsVars

DSSpec == DSSafeSpec /\ WF_dsVars(Activer)
==============================================================================
