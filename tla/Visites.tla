-------------------------------- MODULE Visites --------------------------------
(***************************************************************************)
(* The visits of one candidate to one annonce: the functions of the pages  *)
(* messages, proprietaire, visites, mes-candidatures and of BookingVisite, *)
(* each of which decides on the copy of the visits it has loaded and       *)
(* writes the row by its id alone.  A party has several pages open, of     *)
(* several devices or tabs; a form left open is one that is not reloaded.  *)
(*                                                                         *)
(* The routes refuser, annuler and no-show of /api/visites are not here:   *)
(* no page calls them, and the CHECK of migration 003 refuses what they    *)
(* write.  Whether the candidate may propose at all is the matter of       *)
(* Candidatures; the messages and mails that go along are left out.        *)
(***************************************************************************)
EXTENDS Naturals

CONSTANTS
  Ids,             \* ids that rows of visites may draw, a bound on their number
  PagesLocataire,  \* pages open in the browsers of the candidate ...
  PagesBailleur,   \* ... and of the owner
  MaxPannes        \* bound on failed or lost writes

ASSUME VisitesHypotheses ==
  /\ MaxPannes \in Nat
  /\ PagesLocataire \cap PagesBailleur = {}

Parties == {"locataire", "bailleur"}
Pages == PagesLocataire \cup PagesBailleur
Partie(p) == IF p \in PagesLocataire THEN "locataire" ELSE "bailleur"

Vivants == {"proposee", "confirmee"}
Statuts == Vivants \cup {"annulee", "effectuee"}  \* the CHECK of the table

VARIABLES
  visite,    \* rows of visites: statut ("absente": no row), par (propose_par)
  copie,     \* what each page has loaded: "autre" for a row that is neither
             \* proposee nor confirmee
  contre,    \* the page has cancelled a visit and is to insert another one
  pannes,    \* failures so far
  accordees, \* history: visits confirmed by the party that had not proposed them
  retire,    \* history: the candidate has withdrawn
  encours    \* history: visits proposed since, or confirmed again since from a
             \* page not reloaded

vars == <<visite, copie, contre, pannes, accordees, retire, encours>>

Init ==
  /\ visite = [v \in Ids |-> [statut |-> "absente", par |-> "locataire"]]
  /\ copie = [p \in Pages |-> [v \in Ids |-> "autre"]]
  /\ contre = [p \in Pages |-> FALSE]
  /\ pannes = 0
  /\ accordees = {} /\ retire = FALSE /\ encours = {}

-----------------------------------------------------------------------------
(* Mutations, none of them part of the specification.                      *)

\* A button without the test on propose_par.
AttendReponseSansAuteur(p, v) == copie[p][v] = "proposee"

\* A copy that keeps the status of closed rows.
VueBrute(statut) == statut

\* .eq("statut", "proposée") instead of .in(...).
RetirerProposees ==
  /\ visite' = [v \in Ids |-> IF visite[v].statut = "proposee"
                              THEN [visite[v] EXCEPT !.statut = "annulee"] ELSE visite[v]]
  /\ retire' = TRUE /\ encours' = {}
  /\ UNCHANGED <<copie, contre, pannes, accordees>>

-----------------------------------------------------------------------------
Vue(statut) == IF statut \in Vivants THEN statut ELSE "autre"
\* A page writes by id, whatever the row has become, and repeats the value in
\* its own copy.
Ecrire(p, v, statut) ==
  /\ visite' = [visite EXCEPT ![v].statut = statut]
  /\ copie' = [copie EXCEPT ![p][v] = Vue(statut)]
\* The row a page inserts; its copy gets it too.
Ajouter(p, v) ==
  /\ visite[v].statut = "absente"
  /\ visite' = [visite EXCEPT ![v] = [statut |-> "proposee", par |-> Partie(p)]]
  /\ copie' = [copie EXCEPT ![p][v] = "proposee"]
  /\ encours' = IF retire THEN encours \cup {v} ELSE encours
\* The page shows the other party's proposal as waiting.
AttendReponse(p, v) == copie[p][v] = "proposee" /\ visite[v].par # Partie(p)
\* History: a party that confirms what the other one proposed agrees with it.
Accorder(p, v) ==
  accordees' = IF visite[v].par # Partie(p) THEN accordees \cup {v} ELSE accordees

-----------------------------------------------------------------------------
(* The pages.                                                              *)

Charger(p) ==
  /\ copie' = [copie EXCEPT ![p] = [v \in Ids |-> Vue(visite[v].statut)]]
  /\ UNCHANGED <<visite, contre, pannes, accordees, retire, encours>>

Proposer(p, v) ==
  /\ ~contre[p]
  /\ Ajouter(p, v)
  /\ UNCHANGED <<contre, pannes, accordees, retire>>

\* changerStatutVisite, choisirSlotVisite, changerStatut and changerStatutAgenda:
\* the copy says that the other party's proposal is waiting, the row may not.
Confirmer(p, v) ==
  /\ AttendReponse(p, v)
  /\ Ecrire(p, v, "confirmee")
  /\ Accorder(p, v)
  /\ encours' = IF retire THEN encours \cup {v} ELSE encours
  /\ UNCHANGED <<contre, pannes, retire>>

\* annulerVisite, and the direct updates of the owner's agenda and BookingVisite.
Annuler(p, v) ==
  /\ copie[p][v] \in Vivants
  /\ Ecrire(p, v, "annulee")
  /\ UNCHANGED <<contre, pannes, accordees, retire, encours>>

\* proposerVisite with counterTarget: the other party's proposal is cancelled...
ContreProposer(p, v) ==
  /\ ~contre[p]
  /\ AttendReponse(p, v)
  /\ Ecrire(p, v, "annulee")
  /\ contre' = [contre EXCEPT ![p] = TRUE]
  /\ UNCHANGED <<pannes, accordees, retire, encours>>

\* ... then the new one is inserted ...
ContreInserer(p, v) ==
  /\ contre[p]
  /\ Ajouter(p, v)
  /\ contre' = [contre EXCEPT ![p] = FALSE]
  /\ UNCHANGED <<pannes, accordees, retire>>

\* ... or is not, without a word.
ContrePerdue(p) ==
  /\ contre[p] /\ pannes < MaxPannes
  /\ pannes' = pannes + 1
  /\ contre' = [contre EXCEPT ![p] = FALSE]
  /\ UNCHANGED <<visite, copie, accordees, retire, encours>>

Effectuer(p, v) ==
  /\ p \in PagesBailleur
  /\ copie[p][v] = "confirmee"
  /\ Ecrire(p, v, "effectuee")
  /\ UNCHANGED <<contre, pannes, accordees, retire, encours>>

\* The owner's page, and the tenant's BookingVisite when it cancels, do not look
\* at the error of their update: the copy changes and the row does not.
EcriturePerdue(p, v) ==
  /\ pannes < MaxPannes /\ pannes' = pannes + 1
  /\ \/ /\ p \in PagesBailleur /\ AttendReponse(p, v)
        /\ copie' = [copie EXCEPT ![p][v] = "confirmee"]
        /\ Accorder(p, v)
     \/ /\ \/ p \in PagesBailleur /\ copie[p][v] \in Vivants
           \/ copie[p][v] = "proposee"
        /\ copie' = [copie EXCEPT ![p][v] = "autre"]
        /\ UNCHANGED accordees
  /\ UNCHANGED <<visite, contre, retire, encours>>

\* retirerCandidature: one conditional update, of all the visits of the annonce.
Retirer ==
  /\ visite' = [v \in Ids |-> IF visite[v].statut \in Vivants
                              THEN [visite[v] EXCEPT !.statut = "annulee"] ELSE visite[v]]
  /\ retire' = TRUE /\ encours' = {}
  /\ UNCHANGED <<copie, contre, pannes, accordees>>

-----------------------------------------------------------------------------
Next ==
  \/ \E p \in Pages : Charger(p) \/ ContrePerdue(p)
  \/ \E p \in Pages, v \in Ids :
       \/ Proposer(p, v) \/ Confirmer(p, v) \/ Annuler(p, v)
       \/ ContreProposer(p, v) \/ ContreInserer(p, v)
       \/ Effectuer(p, v) \/ EcriturePerdue(p, v)
  \/ Retirer

Spec == Init /\ [][Next]_vars

-----------------------------------------------------------------------------
(* Properties.                                                             *)

TypeOK ==
  /\ visite \in [Ids -> [statut : Statuts \cup {"absente"}, par : Parties]]
  /\ copie \in [Pages -> [Ids -> Vivants \cup {"autre"}]]
  /\ contre \in [Pages -> BOOLEAN]
  /\ pannes \in 0..MaxPannes
  /\ accordees \subseteq Ids
  /\ retire \in BOOLEAN
  /\ encours \subseteq Ids

\* A visit that is confirmed or done was proposed by one party and confirmed by
\* the other, however old the pages are, whoever makes a counter-proposal and
\* whichever write is lost: no party settles a visit alone.
RendezVousADeux ==
  \A v \in Ids : visite[v].statut \in {"confirmee", "effectuee"} => v \in accordees

\* When the candidate withdraws, no visit stays open; one that is open later was
\* proposed since, or confirmed since by a page that still showed it as waiting.
RetraitComplet ==
  retire => \A v \in Ids : visite[v].statut \in Vivants => v \in encours
==============================================================================
