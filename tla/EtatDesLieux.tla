----------------------------- MODULE EtatDesLieux -----------------------------
(***************************************************************************)
(* The inspection of entry of one let: the owner writes it and sends it    *)
(* (/api/edl/save), the tenant signs it (/api/edl/signer) or disputes it   *)
(* (/api/edl/save, /api/edl/contester), the owner countersigns, and an     *)
(* inspection of exit may be created once an entry one is valid.           *)
(*                                                                         *)
(* The module takes any request the routes accept: the pages offer less,   *)
(* on a copy of the row that may be old.  edl/save reads the row again and *)
(* refuses the owner once the tenant has signed (V68 #3), then updates by  *)
(* id; until then the owner may save any status, "valide" included, and    *)
(* another type.  The other routes do not look at the status, except       *)
(* edl/contester.  A signature does not say which text it signs: the text  *)
(* is a version number, new at each save of the owner that changes it.     *)
(***************************************************************************)
EXTENDS Naturals, FiniteSets

CONSTANTS
  Sauvegardes,  \* the owner's saves that may arrive
  Demandes,     \* the other requests that may
  MaxPannes     \* bound on killed functions and lost writes

ASSUME EdlHypotheses == MaxPannes \in Nat

Requetes == Sauvegardes \cup Demandes

Statuts == {"brouillon", "envoye", "valide", "conteste"}
Genres == {"entree", "sortie"}
Roles == {"locataire", "bailleur"}
Etapes == {"attente", "relire", "ecrire", "contester", "denoncer", "signer",
           "valider", "contresigner", "tamponner", "inserer", "fini"}

VARIABLES
  entree,      \* the row: statut, type, texte, signeLoc, signeBail (signe_*_at)
  signatures,  \* edl_signatures: the roles that have a row
  importe,     \* the row was inserted valid by bail/accepter, with a paper original
  ancienne,    \* the annonce has a valid inspection of entry of a former let
  sortie,      \* there is an inspection of exit
  requete,     \* the requests being served: pc, statut, type and texte to
               \* write, avant
  versions,    \* versions of the text written so far
  pannes,      \* failures so far
  signee,      \* history: the text when the tenant's signature was recorded
  croise,      \* history: an owner's write landed over a signature it had not seen
  avalisee     \* history: the owner has saved the row, unsigned, as valid or as
               \* an inspection of exit

fixes == <<importe, ancienne>>
vars == <<entree, signatures, fixes, sortie, requete, versions, pannes,
          signee, croise, avalisee>>

\* avant: the row bore no signature of the tenant when edl/save read it.
Depart == [pc |-> "attente", statut |-> "brouillon", type |-> "entree", texte |-> 0,
           avant |-> TRUE]

\* The owner's insert takes any status; bail/accepter's is valid and signed.
Init ==
  /\ importe \in BOOLEAN /\ ancienne \in BOOLEAN
  /\ \E s \in IF importe THEN {"valide"} ELSE Statuts :
       /\ entree = [statut |-> s, type |-> "entree", texte |-> 0,
                    signeLoc |-> importe, signeBail |-> importe]
       /\ avalisee = (~importe /\ s = "valide")
  /\ signatures = {}
  /\ sortie = FALSE
  /\ requete = [r \in Requetes |-> Depart]
  /\ versions = 0 /\ pannes = 0
  /\ signee = 0 /\ croise = FALSE

Aller(r, etape) == requete' = [requete EXCEPT ![r].pc = etape]
Finir(r) == requete' = [requete EXCEPT ![r] = [Depart EXCEPT !.pc = "fini"]]

-----------------------------------------------------------------------------
(* Mutations, none of them part of the specification.                      *)

\* edl/save before V68 #3.
SauverRelireSansGarde(r) ==
  /\ requete[r].pc = "relire"
  /\ requete' = [requete EXCEPT ![r] = [@ EXCEPT !.pc = "ecrire", !.avant = ~entree.signeLoc]]
  /\ UNCHANGED <<entree, signatures, fixes, sortie, versions, pannes, signee, croise, avalisee>>

\* edl/save before V70.1, an inspection of entry of any status being enough.
SortieLireSansStatut(r) ==
  /\ requete[r].pc = "attente"
  /\ Aller(r, "inserer")
  /\ UNCHANGED <<entree, signatures, fixes, sortie, versions, pannes, signee, croise, avalisee>>

\* edl/signer writing a status that VALID_STATUTS does not have.
ValiderHorsListe(r) ==
  /\ requete[r].pc = "valider"
  /\ entree' = [entree EXCEPT !.statut = "signe", !.signeLoc = TRUE]
  /\ signee' = entree.texte
  /\ Finir(r)
  /\ UNCHANGED <<signatures, fixes, sortie, versions, pannes, croise, avalisee>>

-----------------------------------------------------------------------------
(* POST /api/edl/save by the owner.                                        *)

\* A save says a status and a type, as the pages do, and a text (0: the same).
Ouvrir(r) ==
  /\ requete[r].pc = "attente"
  /\ \E s \in Statuts, t \in Genres, n \in {0, versions + 1} :
       /\ requete' = [requete EXCEPT ![r] =
            [@ EXCEPT !.pc = "relire", !.statut = s, !.type = t, !.texte = n]]
       /\ versions' = IF n = 0 THEN versions ELSE n
  /\ UNCHANGED <<entree, signatures, fixes, sortie, pannes, signee, croise, avalisee>>

SauverRelire(r) ==
  /\ requete[r].pc = "relire"
  /\ \/ entree.signeLoc /\ Finir(r)
     \/ /\ ~entree.signeLoc
        /\ requete' = [requete EXCEPT ![r] = [@ EXCEPT !.pc = "ecrire", !.avant = TRUE]]
  /\ UNCHANGED <<entree, signatures, fixes, sortie, versions, pannes, signee, croise, avalisee>>

SauverEcrire(r) ==
  /\ requete[r].pc = "ecrire"
  /\ LET q == requete[r] IN
       /\ entree' = [entree EXCEPT !.statut = q.statut, !.type = q.type,
                                   !.texte = IF q.texte = 0 THEN @ ELSE q.texte]
       /\ sortie' = (sortie \/ q.type = "sortie")
       /\ avalisee' = (avalisee \/ q.statut = "valide" \/ q.type = "sortie")
       /\ croise' = (croise \/ (entree.signeLoc /\ q.avant))
  /\ Finir(r)
  /\ UNCHANGED <<signatures, fixes, versions, pannes, signee>>

-----------------------------------------------------------------------------
(* The tenant, and the owner's countersignature.                           *)

\* Whatever the status and the other signature, the tenant signs or, by
\* edl/save, disputes, and the owner countersigns.
Lire(r) ==
  /\ requete[r].pc = "attente"
  /\ \E etape \in {"signer", "contester", "contresigner"} : Aller(r, etape)
  /\ UNCHANGED <<entree, signatures, fixes, sortie, versions, pannes, signee, croise, avalisee>>

Contester(r) ==
  /\ requete[r].pc = "contester"
  /\ entree' = [entree EXCEPT !.statut = "conteste"]
  /\ Finir(r)
  /\ UNCHANGED <<signatures, fixes, sortie, versions, pannes, signee, croise, avalisee>>

\* edl/contester: not disputed yet, and signed by the owner.
DenoncerLire(r) ==
  /\ requete[r].pc = "attente"
  /\ entree.statut # "conteste" /\ entree.signeBail
  /\ Aller(r, "denoncer")
  /\ UNCHANGED <<entree, signatures, fixes, sortie, versions, pannes, signee, croise, avalisee>>

Denoncer(r) ==
  /\ requete[r].pc = "denoncer"
  /\ entree' = [entree EXCEPT !.statut = "conteste"]
  /\ Finir(r)
  /\ UNCHANGED <<signatures, fixes, sortie, versions, pannes, signee, croise, avalisee>>

\* The upsert of the signature, then the update of the row.
Signer(r) ==
  /\ requete[r].pc = "signer"
  /\ signatures' = signatures \cup {"locataire"}
  /\ Aller(r, "valider")
  /\ UNCHANGED <<entree, fixes, sortie, versions, pannes, signee, croise, avalisee>>

Valider(r) ==
  /\ requete[r].pc = "valider"
  /\ entree' = [entree EXCEPT !.statut = "valide", !.signeLoc = TRUE]
  /\ signee' = entree.texte
  /\ Finir(r)
  /\ UNCHANGED <<signatures, fixes, sortie, versions, pannes, croise, avalisee>>

Contresigner(r) ==
  /\ requete[r].pc = "contresigner"
  /\ signatures' = signatures \cup {"bailleur"}
  /\ Aller(r, "tamponner")
  /\ UNCHANGED <<entree, fixes, sortie, versions, pannes, signee, croise, avalisee>>

Tamponner(r) ==
  /\ requete[r].pc = "tamponner"
  /\ entree' = [entree EXCEPT !.signeBail = TRUE]
  /\ Finir(r)
  /\ UNCHANGED <<signatures, fixes, sortie, versions, pannes, signee, croise, avalisee>>

-----------------------------------------------------------------------------
(* The inspection of exit (V70.1): any valid entry one of the annonce will *)
(* do, of this let or of a former one.                                     *)

SortieLire(r) ==
  /\ requete[r].pc = "attente"
  /\ ancienne \/ (entree.type = "entree" /\ entree.statut = "valide")
  /\ Aller(r, "inserer")
  /\ UNCHANGED <<entree, signatures, fixes, sortie, versions, pannes, signee, croise, avalisee>>

SortieInserer(r) ==
  /\ requete[r].pc = "inserer"
  /\ sortie' = TRUE
  /\ Finir(r)
  /\ UNCHANGED <<entree, signatures, fixes, versions, pannes, signee, croise, avalisee>>

-----------------------------------------------------------------------------
\* The function is killed, or its next write fails: the only one that is
\* followed by another, the signature, ends the request when it does.
Interrompre(r) ==
  /\ requete[r].pc \notin {"attente", "fini"}
  /\ pannes < MaxPannes
  /\ pannes' = pannes + 1
  /\ Finir(r)
  /\ UNCHANGED <<entree, signatures, fixes, sortie, versions, signee, croise, avalisee>>

Next ==
  \/ \E r \in Sauvegardes : Ouvrir(r)
  \/ \E r \in Demandes : Lire(r) \/ DenoncerLire(r) \/ SortieLire(r)
  \/ \E r \in Requetes :
       \/ SauverRelire(r) \/ SauverEcrire(r)
       \/ Contester(r) \/ Denoncer(r) \/ Signer(r) \/ Valider(r)
       \/ Contresigner(r) \/ Tamponner(r) \/ SortieInserer(r)
       \/ Interrompre(r)

Spec == Init /\ [][Next]_vars

-----------------------------------------------------------------------------
(* Properties.                                                             *)

\* Types; the text is one the owner has written.
TypeOK ==
  /\ entree \in [statut : Statuts, type : Genres, texte : Nat,
                 signeLoc : BOOLEAN, signeBail : BOOLEAN]
  /\ entree.texte <= versions
  /\ signatures \in SUBSET Roles
  /\ importe \in BOOLEAN /\ ancienne \in BOOLEAN /\ sortie \in BOOLEAN
  /\ requete \in [Requetes -> [pc : Etapes, statut : Statuts, type : Genres, texte : Nat,
                               avant : BOOLEAN]]
  /\ versions \in Nat
  /\ pannes \in 0..MaxPannes
  /\ signee \in Nat
  /\ croise \in BOOLEAN /\ avalisee \in BOOLEAN

\* edl/save V68 #3: once the tenant has signed, the text is the one the row had
\* then and the row is valid or disputed, never a draft again, whatever the
\* owner saves; the only way out is a save whose check came before the
\* signature.
SignatureTient ==
  entree.signeLoc /\ ~croise =>
    entree.texte = signee /\ entree.statut \in {"valide", "conteste"}

\* edl/save V70.1, "statut='valide' (= signé par locataire)": an inspection of
\* exit stands on an inspection of entry that the tenant of the let has signed,
\* here or on paper, whatever writes fail or cross, with two exceptions: the
\* entry one of a former let serves, and so does the owner's own word, by a save
\* of the unsigned row as valid or as an inspection of exit.
SortieFondee == sortie => importe \/ ancienne \/ avalisee \/ "locataire" \in signatures
==============================================================================
