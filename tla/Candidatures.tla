----------------------------- MODULE Candidatures -----------------------------
(***************************************************************************)
(* The candidacy of a tenant on an annonce: /api/messages/candidature,     *)
(* valider, refuser and devalider under /api/candidatures, and the gate    *)
(* that a validated candidacy opens in /api/visites/proposer.              *)
(*                                                                         *)
(* A candidacy is not a row of its own but a status on the message that    *)
(* opened the conversation: the decisions write it on the oldest such      *)
(* message, the gate reads it on the latest one.                           *)
(*                                                                         *)
(* One annonce and one candidate: candidates of the same annonce share     *)
(* nothing but the annonce.  A message is dated just before it is inserted *)
(* (created_at), so two inserts may land in the other order.               *)
(***************************************************************************)
EXTENDS Naturals, FiniteSets

CONSTANTS
  Requetes,  \* the requests that may arrive
  MaxPannes  \* bound on killed functions and lost writes

ASSUME CandidaturesHypotheses == MaxPannes \in Nat

Decisions == {"validee", "refusee", "nulle"}
Statuts == Decisions \cup {"en_attente"}
Etapes == {"attente", "existe", "inserer", "choisir", "marquer", "poster",
           "porte", "proposer", "fini"}

VARIABLES
  annonce,   \* "libre", "choisi" (locataire_email is the candidate), "loue" (to
             \* the candidate), "autre" (taken by another tenant)
  auto,      \* the automatic validation of bail/signer is still to come
  ligne,     \* the type = 'candidature' message each request has inserted: rang
             \* (created_at, 0 when there is none), statut (statut_candidature)
  carte,     \* last decision posted in the conversation
  visites,   \* requests that have inserted a visit
  requete,   \* the requests being served: pc, decision, rang taken, cible found
  horloge,   \* dates given so far
  pannes,    \* failures so far
  accord,    \* history: the candidacy has been validated, by owner or by lease
  croise     \* history: a request read the messages while another one had read
             \* them and not finished

vars == <<annonce, auto, ligne, carte, visites, requete, horloge, pannes, accord, croise>>

Depart == [pc |-> "attente", decision |-> "validee", rang |-> 0, cible |-> {}]

Init ==
  /\ annonce = "libre" /\ auto = FALSE
  /\ ligne = [r \in Requetes |-> [rang |-> 0, statut |-> "nulle"]]
  /\ carte = "aucune"
  /\ visites = {}
  /\ requete = [r \in Requetes |-> Depart]
  /\ horloge = 0 /\ pannes = 0
  /\ accord = FALSE /\ croise = FALSE

Messages == {r \in Requetes : ligne[r].rang > 0}
\* order("created_at", ascending true or false).limit(1): the set of that row.
Ancienne == {r \in Messages : \A q \in Messages : ligne[r].rang <= ligne[q].rang}
Derniere == {r \in Messages : \A q \in Messages : ligne[r].rang >= ligne[q].rang}
PorteOuverte == \E r \in Derniere : ligne[r].statut = "validee"

Aller(r, etape) == requete' = [requete EXCEPT ![r].pc = etape]
\* A read of the messages, noted when another request is between read and end.
NoterCroisement(r) ==
  croise' = (croise \/ \E q \in Requetes \ {r} :
               requete[q].pc \in {"inserer", "marquer", "poster"})

-----------------------------------------------------------------------------
(* Mutations, none of them part of the specification.                      *)

\* update ... where statut_candidature = 'en_attente', the card posted anyway.
MarquerSiEnAttente(r) ==
  /\ requete[r].pc = "marquer"
  /\ ligne' = [q \in Requetes |->
       IF q \in requete[r].cible /\ ligne[q].statut = "en_attente"
       THEN [ligne[q] EXCEPT !.statut = requete[r].decision] ELSE ligne[q]]
  /\ accord' = (accord \/ requete[r].decision = "validee")
  /\ Aller(r, "poster")
  /\ UNCHANGED <<annonce, auto, carte, visites, horloge, pannes, croise>>

\* devalider writing a status that the CHECK of migration 022 does not have.
MarquerHorsCheck(r) ==
  /\ requete[r].pc = "marquer"
  /\ ligne' = [q \in Requetes |->
       IF q \in requete[r].cible
       THEN [ligne[q] EXCEPT !.statut = IF requete[r].decision = "nulle"
                                        THEN "devalidee" ELSE requete[r].decision]
       ELSE ligne[q]]
  /\ accord' = (accord \/ requete[r].decision = "validee")
  /\ Aller(r, "poster")
  /\ UNCHANGED <<annonce, auto, carte, visites, horloge, pannes, croise>>

\* Before V67: a candidacy is enough, validated or not.
PorteLireSansStatut(r) ==
  /\ requete[r].pc = "porte"
  /\ Aller(r, IF Derniere # {} THEN "proposer" ELSE "fini")
  /\ UNCHANGED <<annonce, auto, ligne, carte, visites, horloge, pannes, accord, croise>>

-----------------------------------------------------------------------------
(* POST /api/messages/candidature.                                         *)

CandidaterLire(r) ==
  /\ requete[r].pc = "attente"
  /\ annonce = "libre"
  /\ Aller(r, "existe")
  /\ UNCHANGED <<annonce, auto, ligne, carte, visites, horloge, pannes, accord, croise>>

\* Only a first contact is inserted with type = 'candidature'; a later message
\* is an ordinary one and changes nothing here.
CandidaterExiste(r) ==
  /\ requete[r].pc = "existe"
  /\ \/ /\ Messages # {}
        /\ Aller(r, "fini")
        /\ UNCHANGED <<horloge, croise>>
     \/ /\ Messages = {}
        /\ requete' = [requete EXCEPT ![r] =
             [@ EXCEPT !.pc = "inserer", !.rang = horloge + 1]]
        /\ horloge' = horloge + 1
        /\ NoterCroisement(r)
  /\ UNCHANGED <<annonce, auto, ligne, carte, visites, pannes, accord>>

CandidaterInserer(r) ==
  /\ requete[r].pc = "inserer"
  /\ ligne' = [ligne EXCEPT ![r] = [rang |-> requete[r].rang, statut |-> "en_attente"]]
  /\ Aller(r, "fini")
  /\ UNCHANGED <<annonce, auto, carte, visites, horloge, pannes, accord, croise>>

-----------------------------------------------------------------------------
(* POST /api/candidatures/valider, refuser, devalider.                     *)

\* devalider alone looks at the lease.
DeciderLire(r, decision) ==
  /\ requete[r].pc = "attente"
  /\ requete' = [requete EXCEPT ![r] =
       [@ EXCEPT !.decision = decision,
                 !.pc = IF decision = "nulle" /\ annonce = "loue"
                        THEN "fini" ELSE "choisir"]]
  /\ UNCHANGED <<annonce, auto, ligne, carte, visites, horloge, pannes, accord, croise>>

\* The answer is already there: valider of a validated candidacy, refuser of a
\* refused one, devalider of one that is not validated.
DejaDecide(statut, decision) ==
  IF decision = "nulle" THEN statut # "validee" ELSE statut = decision

DeciderChoisir(r) ==
  /\ requete[r].pc = "choisir"
  /\ \/ /\ \A q \in Ancienne : DejaDecide(ligne[q].statut, requete[r].decision)
        /\ Aller(r, "fini")
        /\ UNCHANGED croise
     \/ /\ \E q \in Ancienne : ~DejaDecide(ligne[q].statut, requete[r].decision)
        /\ requete' = [requete EXCEPT ![r] =
             [@ EXCEPT !.pc = "marquer", !.cible = Ancienne]]
        /\ NoterCroisement(r)
  /\ UNCHANGED <<annonce, auto, ligne, carte, visites, horloge, pannes, accord>>

\* By id, whatever the status has become.
Marquer(r) ==
  /\ requete[r].pc = "marquer"
  /\ ligne' = [q \in Requetes |->
       IF q \in requete[r].cible THEN [ligne[q] EXCEPT !.statut = requete[r].decision]
       ELSE ligne[q]]
  /\ accord' = (accord \/ requete[r].decision = "validee")
  /\ Aller(r, "poster")
  /\ UNCHANGED <<annonce, auto, carte, visites, horloge, pannes, croise>>

Poster(r) ==
  /\ requete[r].pc = "poster"
  /\ carte' = requete[r].decision
  /\ Aller(r, "fini")
  /\ UNCHANGED <<annonce, auto, ligne, visites, horloge, pannes, accord, croise>>

-----------------------------------------------------------------------------
(* POST /api/visites/proposer.                                             *)

ProposerLire(r) ==
  /\ requete[r].pc = "attente"
  /\ Aller(r, "porte")
  /\ UNCHANGED <<annonce, auto, ligne, carte, visites, horloge, pannes, accord, croise>>

PorteLire(r) ==
  /\ requete[r].pc = "porte"
  /\ Aller(r, IF PorteOuverte THEN "proposer" ELSE "fini")
  /\ UNCHANGED <<annonce, auto, ligne, carte, visites, horloge, pannes, accord, croise>>

ProposerInserer(r) ==
  /\ requete[r].pc = "proposer"
  /\ visites' = visites \cup {r}
  /\ Aller(r, "fini")
  /\ UNCHANGED <<annonce, auto, ligne, carte, horloge, pannes, accord, croise>>

-----------------------------------------------------------------------------
(* What the lease does to the candidacy (BailSignature).                   *)

\* The owner sends the lease to this candidate, or to another one.
BailEnvoyer ==
  /\ annonce = "libre"
  /\ annonce' \in {"choisi", "autre"}
  /\ UNCHANGED <<auto, ligne, carte, visites, requete, horloge, pannes, accord, croise>>

BailLouer ==
  /\ annonce = "choisi"
  /\ annonce' = "loue" /\ auto' = TRUE
  /\ UNCHANGED <<ligne, carte, visites, requete, horloge, pannes, accord, croise>>

\* .neq("statut_candidature", "validee"): a NULL status is not selected.
BailValider ==
  /\ auto
  /\ auto' = FALSE
  /\ ligne' = [q \in Requetes |->
       IF q \in Messages /\ ligne[q].statut \in {"en_attente", "refusee"}
       THEN [ligne[q] EXCEPT !.statut = "validee"] ELSE ligne[q]]
  /\ accord' = TRUE
  /\ UNCHANGED <<annonce, carte, visites, requete, horloge, pannes, croise>>

-----------------------------------------------------------------------------
\* The function is killed, or a write that ends the request fails; the error of
\* the message after a decision is not read.
Interrompre(r) ==
  /\ requete[r].pc \notin {"attente", "fini"}
  /\ pannes < MaxPannes
  /\ pannes' = pannes + 1
  /\ Aller(r, "fini")
  /\ UNCHANGED <<annonce, auto, ligne, carte, visites, horloge, accord, croise>>

Next ==
  \/ \E r \in Requetes :
       \/ CandidaterLire(r) \/ CandidaterExiste(r) \/ CandidaterInserer(r)
       \/ \E d \in Decisions : DeciderLire(r, d)
       \/ DeciderChoisir(r) \/ Marquer(r) \/ Poster(r)
       \/ ProposerLire(r) \/ PorteLire(r) \/ ProposerInserer(r)
       \/ Interrompre(r)
  \/ BailEnvoyer \/ BailLouer \/ BailValider

Spec == Init /\ [][Next]_vars

-----------------------------------------------------------------------------
(* Properties.                                                             *)

\* Types; messages have different dates.
TypeOK ==
  /\ annonce \in {"libre", "choisi", "loue", "autre"}
  /\ auto \in BOOLEAN
  /\ ligne \in [Requetes -> [rang : Nat, statut : Statuts]]
  /\ \A r, q \in Messages : ligne[r].rang = ligne[q].rang => r = q
  /\ carte \in Decisions \cup {"aucune"}
  /\ visites \subseteq Requetes
  /\ requete \in [Requetes -> [pc : Etapes, decision : Decisions, rang : Nat,
                               cible : SUBSET Requetes]]
  /\ horloge \in Nat
  /\ pannes \in 0..MaxPannes
  /\ accord \in BOOLEAN /\ croise \in BOOLEAN

Repos == \A r \in Requetes : requete[r].pc \in {"attente", "fini"}

\* No visit is proposed by a candidate whom neither the owner nor the signature
\* of the lease has validated (the gate of visites/proposer, V67).
VisitesAutorisees == visites # {} => accord

\* Before a lease is let, with no failure and no two requests crossing, what the
\* candidate was last told is what the gate applies: validated opens it, refused
\* or taken back closes it, whichever message the decision was written on.
PorteSuitVerdict ==
  Repos /\ annonce # "loue" /\ ~croise /\ pannes = 0 =>
    (PorteOuverte <=> carte = "validee")
==============================================================================
