-------------------------- MODULE VisitesLoyersProofs --------------------------
(***************************************************************************)
(* Proofs about Visites and Loyers, what goes on before a lease and what   *)
(* it brings every month.  The two components share no state and no        *)
(* definition: the first part is about the visits, for any number of       *)
(* visits, pages and failures, the second about the rents, for any number  *)
(* of requests, months and failures and any length of the schedule.        *)
(***************************************************************************)
EXTENDS Visites, Loyers, TLAPS

-----------------------------------------------------------------------------
(* The visits: types.                                                      *)

Lignes == [statut : Statuts \cup {"absente"}, par : Parties]
Vues == Vivants \cup {"autre"}

LEMMA PartieType == ASSUME NEW p \in Pages PROVE Partie(p) \in Parties
BY DEF Partie, Parties

LEMMA VueType == ASSUME NEW s PROVE Vue(s) \in Vues
BY DEF Vue, Vues

LEMMA EcrireType ==
  ASSUME TypeOK, NEW p \in Pages, NEW v \in Ids, NEW s \in Statuts, Ecrire(p, v, s)
  PROVE  visite' \in [Ids -> Lignes] /\ copie' \in [Pages -> [Ids -> Vues]]
<1>1. visite \in [Ids -> Lignes] /\ copie \in [Pages -> [Ids -> Vues]]
  BY DEF TypeOK, Lignes, Vues
<1>2. visite' \in [Ids -> Lignes]
  BY <1>1 DEF Ecrire, Lignes
<1>3. copie' = [copie EXCEPT ![p] = [copie[p] EXCEPT ![v] = Vue(s)]]
  BY DEF Ecrire
<1>4. [copie[p] EXCEPT ![v] = Vue(s)] \in [Ids -> Vues]
  BY <1>1, VueType
<1> QED BY <1>1, <1>2, <1>3, <1>4

LEMMA AjouterType ==
  ASSUME TypeOK, NEW p \in Pages, NEW v \in Ids, Ajouter(p, v)
  PROVE  /\ visite' \in [Ids -> Lignes] /\ copie' \in [Pages -> [Ids -> Vues]]
         /\ encours' \subseteq Ids
<1>1. visite \in [Ids -> Lignes] /\ copie \in [Pages -> [Ids -> Vues]] /\ encours \subseteq Ids
  BY DEF TypeOK, Lignes, Vues
<1>2. visite' \in [Ids -> Lignes]
  BY <1>1, PartieType DEF Ajouter, Lignes, Statuts, Vivants
<1>3. copie' = [copie EXCEPT ![p] = [copie[p] EXCEPT ![v] = "proposee"]]
  BY DEF Ajouter
<1>4. [copie[p] EXCEPT ![v] = "proposee"] \in [Ids -> Vues]
  BY <1>1 DEF Vues, Vivants
<1> QED BY <1>1, <1>2, <1>3, <1>4 DEF Ajouter

LEMMA TypeInit == Init => TypeOK
<1> SUFFICES ASSUME Init PROVE TypeOK
  OBVIOUS
<1>1. visite \in [Ids -> Lignes]
  BY DEF Init, Lignes, Parties
<1>2. copie \in [Pages -> [Ids -> Vues]]
  BY DEF Init, Vues
<1>3. contre \in [Pages -> BOOLEAN]
  BY DEF Init
<1>4. pannes \in 0..MaxPannes
  BY VisitesHypotheses DEF Init
<1> QED BY <1>1, <1>2, <1>3, <1>4 DEF Init, TypeOK, Lignes, Vues

LEMMA TypeEtape == TypeOK /\ [Next]_vars => TypeOK'
<1> SUFFICES ASSUME TypeOK, [Next]_vars PROVE TypeOK'
  OBVIOUS
<1> USE VisitesHypotheses
<1>1. ASSUME NEW p \in Pages, Charger(p) PROVE TypeOK'
  BY <1>1, VueType DEF Charger, TypeOK, Vues
<1>2. ASSUME NEW p \in Pages, ContrePerdue(p) PROVE TypeOK'
  BY <1>2 DEF ContrePerdue, TypeOK
<1>3. ASSUME NEW p \in Pages, NEW v \in Ids, Proposer(p, v) PROVE TypeOK'
  <2>1. Ajouter(p, v) /\ UNCHANGED <<contre, pannes, accordees, retire>>
    BY <1>3 DEF Proposer
  <2> QED BY <2>1, AjouterType DEF TypeOK, Lignes, Vues
<1>4. ASSUME NEW p \in Pages, NEW v \in Ids, Confirmer(p, v) PROVE TypeOK'
  <2>1. Ecrire(p, v, "confirmee") /\ UNCHANGED <<contre, pannes, retire>>
    BY <1>4 DEF Confirmer
  <2>2. accordees' \subseteq Ids /\ encours' \subseteq Ids
    BY <1>4 DEF Confirmer, Accorder, TypeOK
  <2>3. "confirmee" \in Statuts
    BY DEF Statuts, Vivants
  <2> QED BY <2>1, <2>2, <2>3, EcrireType DEF TypeOK, Lignes, Vues
<1>5. ASSUME NEW p \in Pages, NEW v \in Ids, Annuler(p, v) PROVE TypeOK'
  <2>1. Ecrire(p, v, "annulee") /\ "annulee" \in Statuts
    BY <1>5 DEF Annuler, Statuts
  <2> QED BY <1>5, <2>1, EcrireType DEF Annuler, TypeOK, Lignes, Vues
<1>6. ASSUME NEW p \in Pages, NEW v \in Ids, ContreProposer(p, v) PROVE TypeOK'
  <2>1. Ecrire(p, v, "annulee") /\ "annulee" \in Statuts
    BY <1>6 DEF ContreProposer, Statuts
  <2>2. contre' \in [Pages -> BOOLEAN]
    BY <1>6 DEF ContreProposer, TypeOK
  <2> QED BY <1>6, <2>1, <2>2, EcrireType DEF ContreProposer, TypeOK, Lignes, Vues
<1>7. ASSUME NEW p \in Pages, NEW v \in Ids, ContreInserer(p, v) PROVE TypeOK'
  <2>1. Ajouter(p, v)
    BY <1>7 DEF ContreInserer
  <2>2. contre' \in [Pages -> BOOLEAN]
    BY <1>7 DEF ContreInserer, TypeOK
  <2> QED BY <1>7, <2>1, <2>2, AjouterType DEF ContreInserer, TypeOK, Lignes, Vues
<1>8. ASSUME NEW p \in Pages, NEW v \in Ids, Effectuer(p, v) PROVE TypeOK'
  <2>1. Ecrire(p, v, "effectuee") /\ "effectuee" \in Statuts
    BY <1>8 DEF Effectuer, Statuts
  <2> QED BY <1>8, <2>1, EcrireType DEF Effectuer, TypeOK, Lignes, Vues
<1>9. ASSUME NEW p \in Pages, NEW v \in Ids, EcriturePerdue(p, v) PROVE TypeOK'
  <2>1. PICK s \in Vues : copie' = [copie EXCEPT ![p] = [copie[p] EXCEPT ![v] = s]]
    BY <1>9 DEF EcriturePerdue, Vues, Vivants
  <2>2. copie' \in [Pages -> [Ids -> Vues]]
    BY <2>1 DEF TypeOK, Vues
  <2>3. accordees' \subseteq Ids /\ pannes' \in 0..MaxPannes
    BY <1>9 DEF EcriturePerdue, Accorder, TypeOK
  <2> QED BY <1>9, <2>2, <2>3 DEF EcriturePerdue, TypeOK, Vues
<1>10. CASE Retirer
  BY <1>10 DEF Retirer, TypeOK, Statuts
<1>11. CASE UNCHANGED vars
  BY <1>11 DEF vars, TypeOK
<1> QED BY <1>1, <1>2, <1>3, <1>4, <1>5, <1>6, <1>7, <1>8, <1>9, <1>10, <1>11 DEF Next

\* Type correctness of the visits and of the copies of the pages.
THEOREM VisitesTypeCorrect == Spec => []TypeOK
BY TypeInit, TypeEtape, PTL DEF Spec

-----------------------------------------------------------------------------
(* Appointments.                                                           *)

\* What a page shows as confirmed has been agreed on, as what the rows say.
Accordes ==
  /\ RendezVousADeux
  /\ \A p \in Pages, v \in Ids : copie[p][v] = "confirmee" => v \in accordees

LEMMA AccordesInit == Init => Accordes
BY DEF Init, Accordes, RendezVousADeux

\* What a write by id does to the row, to the page's copy and to the others.
LEMMA EcrireEffet ==
  ASSUME TypeOK, NEW p \in Pages, NEW v \in Ids, NEW s \in Statuts, Ecrire(p, v, s)
  PROVE  /\ \A w \in Ids : /\ visite'[w].par = visite[w].par
                           /\ visite'[w].statut = IF w = v THEN s ELSE visite[w].statut
         /\ \A q \in Pages, w \in Ids :
              copie'[q][w] = IF q = p /\ w = v THEN Vue(s) ELSE copie[q][w]
BY DEF Ecrire, TypeOK

LEMMA AjouterEffet ==
  ASSUME TypeOK, NEW p \in Pages, NEW v \in Ids, Ajouter(p, v)
  PROVE  /\ \A w \in Ids :
              visite'[w].statut = IF w = v THEN "proposee" ELSE visite[w].statut
         /\ \A q \in Pages, w \in Ids :
              copie'[q][w] = IF q = p /\ w = v THEN "proposee" ELSE copie[q][w]
BY DEF Ajouter, TypeOK

LEMMA AccordesEtape == TypeOK /\ Accordes /\ [Next]_vars => Accordes'
<1> SUFFICES ASSUME TypeOK, Accordes, [Next]_vars PROVE Accordes'
  OBVIOUS
<1> USE DEF Accordes, RendezVousADeux
<1>1. ASSUME NEW p \in Pages, Charger(p) PROVE Accordes'
  BY <1>1 DEF Charger, TypeOK, Vue
<1>2. ASSUME NEW p \in Pages, ContrePerdue(p) PROVE Accordes'
  BY <1>2 DEF ContrePerdue
<1>3. ASSUME NEW p \in Pages, NEW v \in Ids, Proposer(p, v) \/ ContreInserer(p, v)
      PROVE  Accordes'
  <2>1. Ajouter(p, v) /\ accordees' = accordees
    BY <1>3 DEF Proposer, ContreInserer
  <2> QED BY <2>1, AjouterEffet
<1>4. ASSUME NEW p \in Pages, NEW v \in Ids, Confirmer(p, v) PROVE Accordes'
  <2>1. Ecrire(p, v, "confirmee") /\ "confirmee" \in Statuts
    BY <1>4 DEF Confirmer, Statuts, Vivants
  <2>2. accordees' = accordees \cup {v}
    BY <1>4 DEF Confirmer, AttendReponse, Accorder
  <2> QED BY <2>1, <2>2, EcrireEffet
<1>5. ASSUME NEW p \in Pages, NEW v \in Ids, Annuler(p, v) \/ ContreProposer(p, v)
      PROVE  Accordes'
  <2>1. Ecrire(p, v, "annulee") /\ "annulee" \in Statuts /\ accordees' = accordees
    BY <1>5 DEF Annuler, ContreProposer, Statuts
  <2> QED BY <2>1, EcrireEffet DEF Vue, Vivants
<1>6. ASSUME NEW p \in Pages, NEW v \in Ids, Effectuer(p, v) PROVE Accordes'
  <2>1. Ecrire(p, v, "effectuee") /\ "effectuee" \in Statuts /\ accordees' = accordees
    BY <1>6 DEF Effectuer, Statuts
  <2>2. v \in accordees
    BY <1>6 DEF Effectuer
  <2> QED BY <2>1, <2>2, EcrireEffet DEF Vue, Vivants
<1>7. ASSUME NEW p \in Pages, NEW v \in Ids, EcriturePerdue(p, v) PROVE Accordes'
  <2>1. CASE /\ AttendReponse(p, v) /\ copie' = [copie EXCEPT ![p][v] = "confirmee"]
             /\ Accorder(p, v)
    <3>1. accordees' = accordees \cup {v} /\ visite' = visite
      BY <1>7, <2>1 DEF EcriturePerdue, AttendReponse, Accorder
    <3> QED BY <2>1, <3>1 DEF TypeOK
  <2>2. CASE copie' = [copie EXCEPT ![p][v] = "autre"] /\ UNCHANGED accordees
    BY <1>7, <2>2 DEF EcriturePerdue, TypeOK
  <2> QED BY <1>7, <2>1, <2>2 DEF EcriturePerdue
<1>8. CASE Retirer
  <2>1. \A w \in Ids : visite'[w].statut \in {visite[w].statut, "annulee"}
    BY <1>8 DEF Retirer, TypeOK
  <2> QED BY <1>8, <2>1 DEF Retirer
<1>9. CASE UNCHANGED vars
  BY <1>9 DEF vars
<1> QED BY <1>1, <1>2, <1>3, <1>4, <1>5, <1>6, <1>7, <1>8, <1>9 DEF Next

\* Appointments: no party settles a visit alone, whatever pages are stale.
THEOREM RendezVous == Spec => []RendezVousADeux
<1>1. TypeOK /\ Accordes /\ [Next]_vars => TypeOK' /\ Accordes'
  BY TypeEtape, AccordesEtape
<1>2. Init => TypeOK /\ Accordes
  BY TypeInit, AccordesInit
<1>3. Accordes => RendezVousADeux
  BY DEF Accordes
<1> QED BY <1>1, <1>2, <1>3, PTL DEF Spec

-----------------------------------------------------------------------------
(* Withdrawal.                                                             *)

LEMMA RetraitEtape == TypeOK /\ RetraitComplet /\ [Next]_vars => RetraitComplet'
<1> SUFFICES ASSUME TypeOK, RetraitComplet, [Next]_vars PROVE RetraitComplet'
  OBVIOUS
<1> USE DEF RetraitComplet
<1>1. ASSUME NEW p \in Pages, NEW v \in Ids, Proposer(p, v) \/ ContreInserer(p, v)
      PROVE  RetraitComplet'
  <2>1. Ajouter(p, v) /\ retire' = retire
    BY <1>1 DEF Proposer, ContreInserer
  <2>2. encours' = IF retire THEN encours \cup {v} ELSE encours
    BY <2>1 DEF Ajouter
  <2> QED BY <2>1, <2>2, AjouterEffet
<1>2. ASSUME NEW p \in Pages, NEW v \in Ids, Confirmer(p, v) PROVE RetraitComplet'
  <2>1. Ecrire(p, v, "confirmee") /\ "confirmee" \in Statuts
    BY <1>2 DEF Confirmer, Statuts, Vivants
  <2>2. retire' = retire /\ encours' = IF retire THEN encours \cup {v} ELSE encours
    BY <1>2 DEF Confirmer
  <2> QED BY <2>1, <2>2, EcrireEffet
<1>3. ASSUME NEW p \in Pages, NEW v \in Ids,
             Annuler(p, v) \/ ContreProposer(p, v) \/ Effectuer(p, v)
      PROVE  RetraitComplet'
  <2>1. PICK s \in {"annulee", "effectuee"} : Ecrire(p, v, s)
    BY <1>3 DEF Annuler, ContreProposer, Effectuer
  <2>2. s \in Statuts /\ s \notin Vivants
    BY <2>1 DEF Statuts, Vivants
  <2>3. retire' = retire /\ encours' = encours
    BY <1>3 DEF Annuler, ContreProposer, Effectuer
  <2> QED BY <2>1, <2>2, <2>3, EcrireEffet
<1>4. CASE Retirer
  <2>1. \A w \in Ids : visite'[w].statut \notin Vivants
    BY <1>4 DEF Retirer, TypeOK, Vivants
  <2> QED BY <2>1
<1>5. ASSUME NEW p \in Pages, Charger(p) \/ ContrePerdue(p) PROVE RetraitComplet'
  BY <1>5 DEF Charger, ContrePerdue
<1>6. ASSUME NEW p \in Pages, NEW v \in Ids, EcriturePerdue(p, v) PROVE RetraitComplet'
  BY <1>6 DEF EcriturePerdue
<1>7. CASE UNCHANGED vars
  BY <1>7 DEF vars
<1> QED BY <1>1, <1>2, <1>3, <1>4, <1>5, <1>6, <1>7 DEF Next

\* Withdrawal: what is open after it was proposed or confirmed since.
THEOREM Retraits == Spec => []RetraitComplet
<1>1. TypeOK /\ RetraitComplet /\ [Next]_vars => TypeOK' /\ RetraitComplet'
  BY TypeEtape, RetraitEtape
<1>2. Init => TypeOK /\ RetraitComplet
  BY TypeInit DEF Init, RetraitComplet
<1> QED BY <1>1, <1>2, PTL DEF Spec

-----------------------------------------------------------------------------
(* The rents: what an insert, a declaration and an end of request change.  *)

Demande == [pc : Etapes, mois : 0..MaxMois + MaxAvance]

LEMMA InsererEffet ==
  ASSUME TypeLoyers, NEW S, Inserer(S)
  PROVE  /\ lignes' \in [Mois -> Nat]
         /\ \A m \in Mois : lignes'[m] = IF m \in S THEN lignes[m] + 1 ELSE lignes[m]
         /\ \A m \in Mois : AUneLigne(m) => AUneLigne(m)'
         /\ \A m \in Mois : m \in S => AUneLigne(m)'
         /\ \A m \in Mois : AUneLigne(m)' => AUneLigne(m) \/ m \in S
<1>1. lignes \in [Mois -> Nat]
  BY DEF TypeLoyers
<1>2. /\ lignes' \in [Mois -> Nat]
      /\ \A m \in Mois : lignes'[m] = IF m \in S THEN lignes[m] + 1 ELSE lignes[m]
  BY <1>1 DEF Inserer
<1> QED BY <1>1, <1>2 DEF AUneLigne

LEMMA DeclarerEffet ==
  ASSUME TypeLoyers, NEW r \in Requetes, NEW m \in 1..mois + MaxAvance, Declarer(r, m)
  PROVE  /\ requete' \in [Requetes -> Demande]
         /\ requete'[r].pc = "declarer" /\ requete'[r].mois = m
         /\ \A q \in Requetes \ {r} : requete'[q] = requete[q]
<1>1. m \in 0..MaxMois + MaxAvance /\ "declarer" \in Etapes
  BY LoyersHypotheses DEF TypeLoyers, Etapes
<1> QED BY <1>1 DEF Declarer, TypeLoyers, Demande

LEMMA FinirEffet ==
  ASSUME TypeLoyers, NEW r \in Requetes, Finir(r)
  PROVE  /\ requete' \in [Requetes -> Demande]
         /\ requete'[r].pc = "fini"
         /\ \A q \in Requetes \ {r} : requete'[q] = requete[q]
<1>1. "fini" \in Etapes
  BY DEF Etapes
<1> QED BY <1>1 DEF Finir, TypeLoyers, Demande

\* The months of the schedule and those the pages deal with are months.
LEMMA MoisConnus ==
  ASSUME TypeLoyers
  PROVE  /\ Douzaine \subseteq Mois
         /\ debut \in Douzaine
         /\ 1..mois + MaxAvance \subseteq Mois /\ mois \in Mois /\ debut \in Mois
         /\ Mois \subseteq Nat
         /\ \A entree \in 0..mois : entree..mois \subseteq Mois
BY LoyersHypotheses DEF TypeLoyers, Douzaine, Mois

-----------------------------------------------------------------------------
(* Types.                                                                  *)

LEMMA TypeInitLoyers == InitLoyers => TypeLoyers
<1> SUFFICES ASSUME InitLoyers PROVE TypeLoyers
  OBVIOUS
<1>1. lignes \in [Mois -> Nat]
  BY DEF InitLoyers
<1>2. requete \in [Requetes -> [pc : Etapes, mois : 0..MaxMois + MaxAvance]]
  BY LoyersHypotheses DEF InitLoyers, Depart, Etapes
<1>3. mois \in 1..MaxMois /\ debut \in 0..MaxMois + MaxAvance /\ echecs \in 0..MaxEchecs
  BY LoyersHypotheses DEF InitLoyers
<1> QED BY <1>1, <1>2, <1>3 DEF InitLoyers, TypeLoyers

LEMMA TypeEtapeLoyers == TypeLoyers /\ [NextLoyers]_varsLoyers => TypeLoyers'
<1> SUFFICES ASSUME TypeLoyers, [NextLoyers]_varsLoyers PROVE TypeLoyers'
  OBVIOUS
<1> USE DEF passe
<1>1. CASE Louer
  <2>1. debut' \in 0..MaxMois + MaxAvance
    BY <1>1, LoyersHypotheses DEF Louer, TypeLoyers
  <2>2. avance' \in BOOLEAN
    BY <1>1 DEF Louer, EnAvance
  <2> QED BY <1>1, <2>1, <2>2 DEF Louer, TypeLoyers
<1>2. CASE Accepter
  <2>1. debut' \in 0..MaxMois + MaxAvance
    BY <1>2, LoyersHypotheses DEF Accepter, TypeLoyers
  <2>2. avance' \in BOOLEAN
    BY <1>2 DEF Accepter, EnAvance
  <2>3. echeancier'.mois \subseteq Mois /\ echeancier' \in
          [pc : {"attente", "lire", "rattraper", "inserer", "fini"}, mois : SUBSET Mois]
    BY <1>2, MoisConnus DEF Accepter, NePasInserer
  <2> QED BY <1>2, <2>1, <2>2, <2>3 DEF Accepter, TypeLoyers
<1>3. CASE EcheancierLire \/ EcheancierAveugle \/ RattraperLire
  <2>1. (NePasInserer /\ UNCHANGED croise) \/ \E S \in SUBSET Mois : Prevoir(S)
    <3>1. /\ Douzaine \in SUBSET Mois /\ echeancier.mois \in SUBSET Mois
          /\ {m \in echeancier.mois : ~AUneLigne(m)} \in SUBSET Mois
      BY MoisConnus DEF TypeLoyers
    <3> QED BY <1>3, <3>1 DEF EcheancierLire, EcheancierAveugle, RattraperLire
  <2>2. echeancier' \in
          [pc : {"attente", "lire", "rattraper", "inserer", "fini"}, mois : SUBSET Mois]
    BY <2>1 DEF NePasInserer, Prevoir
  <2>3. croise' \in BOOLEAN /\ aveugle' \in BOOLEAN
    BY <1>3, <2>1 DEF EcheancierLire, EcheancierAveugle, RattraperLire, Prevoir,
                      NoterCroisement, TypeLoyers
  <2>4. echecs' \in 0..MaxEchecs
    BY <1>3, LoyersHypotheses
       DEF EcheancierLire, EcheancierAveugle, RattraperLire, Echouer, TypeLoyers
  <2>5. UNCHANGED <<mois, bail, debut, lignes, job, requete, saisi, avance, vu>>
    BY <1>3 DEF EcheancierLire, EcheancierAveugle, RattraperLire
  <2> QED BY <2>2, <2>3, <2>4, <2>5 DEF TypeLoyers
<1>4. CASE EcheancierInserer
  <2>1. lignes' \in [Mois -> Nat]
    BY <1>4, InsererEffet DEF EcheancierInserer
  <2> QED BY <1>4, <2>1 DEF EcheancierInserer, NePasInserer, TypeLoyers
<1>5. CASE MoisSuivant
  <2>1. mois' \in 1..MaxMois
    BY <1>5, LoyersHypotheses DEF MoisSuivant, TypeLoyers
  <2> QED BY <1>5, <2>1 DEF MoisSuivant, TypeLoyers
<1>6. CASE JobLire \/ JobAveugle \/ InterrompreJob
  <2>1. croise' \in BOOLEAN /\ vu' \in BOOLEAN /\ job' \in BOOLEAN
    BY <1>6 DEF JobLire, JobAveugle, InterrompreJob, NoterCroisement, Commence, AUneLigne,
                TypeLoyers
  <2>2. UNCHANGED echecs \/ Echouer
    BY <1>6 DEF JobLire, JobAveugle, InterrompreJob
  <2>3. echecs' \in 0..MaxEchecs
    BY <2>2, LoyersHypotheses DEF Echouer, TypeLoyers
  <2>4. aveugle' \in BOOLEAN
    BY <1>6 DEF JobLire, JobAveugle, InterrompreJob, TypeLoyers
  <2>5. UNCHANGED <<mois, bail, debut, lignes, echeancier, requete, saisi, avance>>
    BY <1>6 DEF JobLire, JobAveugle, InterrompreJob
  <2> QED BY <2>1, <2>3, <2>4, <2>5 DEF TypeLoyers
<1>7. CASE JobInserer
  <2>1. lignes' \in [Mois -> Nat]
    BY <1>7, InsererEffet DEF JobInserer
  <2> QED BY <1>7, <2>1 DEF JobInserer, TypeLoyers
<1>8. ASSUME NEW r \in Requetes, DeclarerLire(r) \/ DeclarerAveugle(r) PROVE TypeLoyers'
  <2>1. PICK m \in 1..mois + MaxAvance : Declarer(r, m)
    BY <1>8 DEF DeclarerLire, DeclarerAveugle
  <2>2. requete' \in [Requetes -> Demande] /\ croise' \in BOOLEAN
    BY <2>1, DeclarerEffet DEF Declarer, NoterCroisement, TypeLoyers
  <2>3. UNCHANGED echecs \/ Echouer
    BY <1>8 DEF DeclarerLire, DeclarerAveugle
  <2>4. echecs' \in 0..MaxEchecs
    BY <2>3, LoyersHypotheses DEF Echouer, TypeLoyers
  <2>5. aveugle' \in BOOLEAN
    BY <1>8 DEF DeclarerLire, DeclarerAveugle, TypeLoyers
  <2>6. UNCHANGED <<mois, bail, debut, lignes, echeancier, job, saisi, avance, vu>>
    BY <1>8 DEF DeclarerLire, DeclarerAveugle
  <2> QED BY <2>2, <2>4, <2>5, <2>6 DEF TypeLoyers, Demande
<1>9. ASSUME NEW r \in Requetes, DeclarerInserer(r) PROVE TypeLoyers'
  <2>1. lignes' \in [Mois -> Nat] /\ requete' \in [Requetes -> Demande]
    BY <1>9, InsererEffet, FinirEffet DEF DeclarerInserer
  <2>2. avance' \in BOOLEAN
    BY <1>9 DEF DeclarerInserer, TypeLoyers
  <2> QED BY <1>9, <2>1, <2>2 DEF DeclarerInserer, TypeLoyers, Demande
<1>10. ASSUME NEW r \in Requetes, Saisir(r) PROVE TypeLoyers'
  <2>1. lignes' \in [Mois -> Nat] /\ requete' \in [Requetes -> Demande]
    BY <1>10, InsererEffet, FinirEffet DEF Saisir
  <2>2. avance' \in BOOLEAN
    BY <1>10 DEF Saisir, TypeLoyers
  <2> QED BY <1>10, <2>1, <2>2 DEF Saisir, TypeLoyers, Demande
<1>11. ASSUME NEW r \in Requetes, InterrompreRequete(r) PROVE TypeLoyers'
  <2>1. requete' \in [Requetes -> Demande]
    BY <1>11, FinirEffet DEF InterrompreRequete
  <2> QED BY <1>11, <2>1, LoyersHypotheses DEF InterrompreRequete, Echouer, TypeLoyers, Demande
<1>12. CASE InterrompreEcheancier
  BY <1>12, LoyersHypotheses DEF InterrompreEcheancier, NePasInserer, Echouer, TypeLoyers
<1>13. CASE UNCHANGED varsLoyers
  BY <1>13 DEF varsLoyers, TypeLoyers
<1> QED BY <1>1, <1>2, <1>3, <1>4, <1>5, <1>6, <1>7, <1>8, <1>9, <1>10, <1>11, <1>12, <1>13
        DEF NextLoyers

\* Type correctness of the rents: no row reaches further than a schedule begun
\* as late as MaxAvance months ahead.
THEOREM LoyersTypeCorrect == SpecLoyers => []TypeLoyers
BY TypeInitLoyers, TypeEtapeLoyers, PTL DEF SpecLoyers

-----------------------------------------------------------------------------
(* One rent per month.                                                     *)

BailVol == echeancier.pc = "inserer"
Declare(r) == requete[r].pc = "declarer"

AuPlusUne == \A m \in Mois : lignes[m] <= 1

\* One of the lease, the job and the declarations, between read and insert.
Seul ==
  /\ ~(job /\ BailVol)
  /\ \A r \in Requetes : Declare(r) => ~job /\ ~BailVol
  /\ \A r, q \in Requetes : Declare(r) /\ Declare(q) => r = q

\* What it read still holds: nothing has been inserted meanwhile.
Attendu ==
  /\ job => ~AUneLigne(mois)
  /\ BailVol => \A m \in echeancier.mois : ~AUneLigne(m)
  /\ \A r \in Requetes : Declare(r) => ~AUneLigne(requete[r].mois)

SansDoublon == ~croise /\ ~saisi /\ ~aveugle => AuPlusUne /\ Seul /\ Attendu

LEMMA SansDoublonInit == InitLoyers => SansDoublon
BY DEF InitLoyers, SansDoublon, AuPlusUne, Seul, Attendu, BailVol, Declare, Depart

\* An insert of one row for months that had none.
LEMMA AjoutSansDoublon ==
  ASSUME TypeLoyers, AuPlusUne, NEW S, Inserer(S), \A m \in S : ~AUneLigne(m)
  PROVE  AuPlusUne'
<1>1. \A m \in Mois : lignes'[m] = IF m \in S THEN lignes[m] + 1 ELSE lignes[m]
  BY InsererEffet
<1> QED BY <1>1 DEF AuPlusUne, AUneLigne, TypeLoyers

\* A read that finds nobody else between a read and an insert, or croise.
LEMMA SeulALire ==
  ASSUME NoterCroisement, ~croise'
  PROVE  /\ ~croise /\ ~job /\ ~BailVol
         /\ \A r \in Requetes : ~Declare(r)
<1>1. ~croise /\ EnVol = {}
  BY DEF NoterCroisement
<1> QED BY <1>1 DEF EnVol, BailVol, Declare

\* The histories only grow.
LEMMA Historiques ==
  ASSUME TypeLoyers, [NextLoyers]_varsLoyers
  PROVE  (croise => croise') /\ (saisi => saisi') /\ (aveugle => aveugle')
<1> USE DEF NextLoyers, varsLoyers, passe, Louer, EcheancierLire, Accepter, RattraperLire,
            EcheancierInserer, MoisSuivant, JobLire, JobInserer, DeclarerLire, DeclarerInserer,
            Saisir, InterrompreRequete, InterrompreEcheancier, InterrompreJob, DeclarerAveugle,
            EcheancierAveugle, JobAveugle, Prevoir, Declarer
<1>1. croise \in BOOLEAN /\ saisi \in BOOLEAN /\ aveugle \in BOOLEAN
  BY DEF TypeLoyers
<1>2. croise' = croise \/ NoterCroisement
  OBVIOUS
<1>3. saisi' = saisi \/ saisi' = TRUE
  OBVIOUS
<1>4. aveugle' = aveugle \/ aveugle' = TRUE
  OBVIOUS
<1> QED BY <1>1, <1>2, <1>3, <1>4 DEF NoterCroisement

LEMMA SansDoublonEtape ==
  TypeLoyers /\ SansDoublon /\ [NextLoyers]_varsLoyers => SansDoublon'
<1> SUFFICES ASSUME TypeLoyers, SansDoublon, [NextLoyers]_varsLoyers,
                    ~croise', ~saisi', ~aveugle'
             PROVE  (AuPlusUne /\ Seul /\ Attendu)'
  BY DEF SansDoublon
<1>0. AuPlusUne /\ Seul /\ Attendu
  BY Historiques DEF SansDoublon
<1> USE DEF BailVol, Declare
<1>1. CASE Louer \/ Accepter \/ MoisSuivant \/ InterrompreEcheancier \/ InterrompreJob
  BY <1>0, <1>1 DEF Louer, Accepter, MoisSuivant, InterrompreEcheancier, InterrompreJob,
                    NePasInserer, passe, TypeLoyers, AuPlusUne, Seul, Attendu, AUneLigne
<1>2. CASE EcheancierLire \/ RattraperLire
  <2>1. UNCHANGED <<mois, lignes, job, requete>>
    BY <1>2 DEF EcheancierLire, RattraperLire
  <2>2. CASE NePasInserer
    BY <1>0, <2>1, <2>2 DEF NePasInserer, AuPlusUne, Seul, Attendu, AUneLigne
  <2>3. CASE ~NePasInserer
    <3>1. PICK S \in SUBSET Mois : Prevoir(S) /\ \A m \in S : ~AUneLigne(m)
      <4>1. CASE EcheancierLire
        <5>1. Prevoir(Douzaine) /\ \A m \in Mois : m >= debut => ~AUneLigne(m)
          BY <2>3, <4>1 DEF EcheancierLire
        <5>2. Douzaine \subseteq Mois /\ \A m \in Douzaine : m >= debut
          BY MoisConnus DEF Douzaine
        <5> QED BY <5>1, <5>2
      <4>2. CASE RattraperLire
        <5>1. Prevoir({m \in echeancier.mois : ~AUneLigne(m)})
          BY <2>3, <4>2 DEF RattraperLire
        <5> QED BY <5>1 DEF TypeLoyers
      <4> QED BY <1>2, <4>1, <4>2
    <3>2. ~job /\ \A r \in Requetes : ~Declare(r)
      BY <3>1, SeulALire DEF Prevoir
    <3> QED BY <1>0, <2>1, <3>1, <3>2 DEF Prevoir, AuPlusUne, Seul, Attendu, AUneLigne
  <2> QED BY <2>2, <2>3
<1>3. CASE EcheancierInserer
  <2>1. ~job /\ \A r \in Requetes : ~Declare(r)
    BY <1>0, <1>3 DEF EcheancierInserer, Seul
  <2>2. AuPlusUne'
    BY <1>0, <1>3, AjoutSansDoublon DEF EcheancierInserer, Attendu
  <2> QED BY <1>3, <2>1, <2>2 DEF EcheancierInserer, NePasInserer, Seul, Attendu
<1>4. CASE JobLire
  <2>1. UNCHANGED <<mois, lignes, echeancier, requete>>
    BY <1>4 DEF JobLire
  <2>2. CASE job'
    <3>1. NoterCroisement /\ ~AUneLigne(mois)
      BY <1>4, <2>2 DEF JobLire
    <3>2. ~BailVol /\ \A r \in Requetes : ~Declare(r)
      BY <3>1, SeulALire
    <3> QED BY <1>0, <2>1, <3>1, <3>2 DEF AuPlusUne, Seul, Attendu, AUneLigne
  <2>3. CASE ~job'
    BY <1>0, <2>1, <2>3 DEF AuPlusUne, Seul, Attendu, AUneLigne
  <2> QED BY <2>2, <2>3
<1>5. CASE JobInserer
  <2>1. ~BailVol /\ \A r \in Requetes : ~Declare(r)
    BY <1>0, <1>5 DEF JobInserer, Seul
  <2>2. AuPlusUne'
    BY <1>0, <1>5, AjoutSansDoublon DEF JobInserer, Attendu
  <2> QED BY <1>5, <2>1, <2>2 DEF JobInserer, Seul, Attendu
<1>6. ASSUME NEW r \in Requetes, DeclarerLire(r) PROVE (AuPlusUne /\ Seul /\ Attendu)'
  <2>1. PICK m \in 1..mois + MaxAvance : ~AUneLigne(m) /\ Declarer(r, m)
    BY <1>6 DEF DeclarerLire
  <2>2. ~job /\ ~BailVol /\ \A q \in Requetes : ~Declare(q)
    BY <2>1, SeulALire DEF Declarer
  <2>3. /\ requete'[r].mois = m
        /\ \A q \in Requetes \ {r} : requete'[q] = requete[q]
    BY <2>1, DeclarerEffet
  <2>4. UNCHANGED <<mois, lignes, echeancier, job>>
    BY <1>6 DEF DeclarerLire
  <2> QED BY <1>0, <2>1, <2>2, <2>3, <2>4 DEF AuPlusUne, Seul, Attendu, AUneLigne
<1>7. ASSUME NEW r \in Requetes, DeclarerInserer(r) PROVE (AuPlusUne /\ Seul /\ Attendu)'
  <2>1. ~job /\ ~BailVol /\ \A q \in Requetes \ {r} : ~Declare(q)
    BY <1>0, <1>7 DEF DeclarerInserer, Seul
  <2>2. \A q \in Requetes : requete'[q].pc # "declarer"
    BY <1>7, <2>1, FinirEffet DEF DeclarerInserer
  <2>3. AuPlusUne'
    BY <1>0, <1>7, AjoutSansDoublon DEF DeclarerInserer, Attendu
  <2> QED BY <1>7, <2>1, <2>2, <2>3 DEF DeclarerInserer, Seul, Attendu
<1>8. ASSUME NEW r \in Requetes, Saisir(r) PROVE FALSE
  BY <1>8 DEF Saisir
<1>9. ASSUME NEW r \in Requetes, InterrompreRequete(r) PROVE (AuPlusUne /\ Seul /\ Attendu)'
  <2>1. /\ requete'[r].pc = "fini"
        /\ \A q \in Requetes \ {r} : requete'[q] = requete[q]
    BY <1>9, FinirEffet DEF InterrompreRequete
  <2>2. UNCHANGED <<mois, lignes, echeancier, job>>
    BY <1>9 DEF InterrompreRequete
  <2> QED BY <1>0, <2>1, <2>2 DEF AuPlusUne, Seul, Attendu, AUneLigne
<1>10. CASE EcheancierAveugle \/ JobAveugle \/ \E r \in Requetes : DeclarerAveugle(r)
  BY <1>10 DEF EcheancierAveugle, JobAveugle, DeclarerAveugle
<1>11. CASE UNCHANGED varsLoyers
  BY <1>0, <1>11 DEF varsLoyers, passe, AuPlusUne, Seul, Attendu, AUneLigne
<1> QED BY <1>1, <1>2, <1>3, <1>4, <1>5, <1>6, <1>7, <1>8, <1>9, <1>10, <1>11 DEF NextLoyers

\* One rent per month, whoever wrote it first, when no inserts cross, no read
\* fails unseen and the owner enters none by hand: the look before each insert
\* is then enough.
THEOREM UnLoyer == SpecLoyers => []UnLoyerParMois
<1>1. SansDoublon => UnLoyerParMois
  BY DEF SansDoublon, AuPlusUne, UnLoyerParMois
<1>2. InitLoyers => TypeLoyers /\ SansDoublon
  BY TypeInitLoyers, SansDoublonInit
<1>3. TypeLoyers /\ SansDoublon /\ [NextLoyers]_varsLoyers => TypeLoyers' /\ SansDoublon'
  BY TypeEtapeLoyers, SansDoublonEtape
<1> QED BY <1>1, <1>2, <1>3, PTL DEF SpecLoyers

-----------------------------------------------------------------------------
(* No month without its rent.                                              *)

\* Once the job has run with the lease let, it has left the month a rent or is
\* about to; no other step takes one away.
Combles ==
  vu => bail # "aucun" /\ (Commence => AUneLigne(mois) \/ job)

\* The schedule is that of a lease signed here, from its first month on.
Prevus ==
  /\ (bail = "aucun") <=> (echeancier.pc = "attente")
  /\ echeancier.pc = "lire" => bail = "signe"
  /\ echeancier.pc = "rattraper" => bail = "importe"
  /\ bail = "signe" /\ echeancier.pc = "inserer" => echeancier.mois = Douzaine

\* With no rent ahead before the schedule, one that stops on a row found stops
\* on a row of its first month, unless that month is past.
Entamee ==
  bail = "signe" /\ ~avance /\ echecs = 0 =>
    IF echeancier.pc = "fini" THEN debut >= mois => AUneLigne(debut) ELSE ~EnAvance

LEMMA CouvertureInit == InitLoyers => Combles /\ Prevus /\ Entamee
BY DEF InitLoyers, Combles, Prevus, Entamee

LEMMA ComblesEtape == TypeLoyers /\ Combles /\ [NextLoyers]_varsLoyers => Combles'
<1> SUFFICES ASSUME TypeLoyers, Combles, [NextLoyers]_varsLoyers, vu'
             PROVE  bail' # "aucun" /\ (Commence' => AUneLigne(mois)' \/ job')
  BY DEF Combles
<1>0. mois \in Mois
  BY MoisConnus
<1>1. CASE Louer \/ Accepter
  BY <1>1 DEF Louer, Accepter, Combles
<1>2. CASE \/ EcheancierLire \/ RattraperLire \/ EcheancierAveugle \/ InterrompreEcheancier
           \/ \E r \in Requetes : \/ DeclarerLire(r) \/ DeclarerAveugle(r)
                                  \/ InterrompreRequete(r)
  <2>1. UNCHANGED <<mois, bail, debut, lignes, job, vu>>
    BY <1>2 DEF EcheancierLire, RattraperLire, EcheancierAveugle, InterrompreEcheancier,
                DeclarerLire, DeclarerAveugle, InterrompreRequete, passe
  <2> QED BY <2>1 DEF Combles, Commence, AUneLigne
<1>3. CASE EcheancierInserer \/ \E r \in Requetes : DeclarerInserer(r) \/ Saisir(r)
  <2>1. PICK S : Inserer(S)
    BY <1>3 DEF EcheancierInserer, DeclarerInserer, Saisir
  <2>2. AUneLigne(mois) => AUneLigne(mois)'
    <3>1. mois' = mois
      BY <1>3 DEF EcheancierInserer, DeclarerInserer, Saisir
    <3>2. \A m \in Mois : AUneLigne(m) => lignes'[m] > 0
      BY <2>1, InsererEffet DEF AUneLigne
    <3> QED BY <1>0, <3>1, <3>2 DEF AUneLigne
  <2>3. UNCHANGED <<mois, bail, debut, job, vu>>
    BY <1>3 DEF EcheancierInserer, DeclarerInserer, Saisir, passe
  <2> QED BY <2>2, <2>3 DEF Combles, Commence
<1>4. CASE MoisSuivant \/ InterrompreJob
  BY <1>4 DEF MoisSuivant, InterrompreJob
<1>5. CASE JobLire \/ JobAveugle
  BY <1>5 DEF JobLire, JobAveugle, Commence, AUneLigne
<1>6. CASE JobInserer
  <2>1. lignes'[mois] > 0 /\ mois' = mois
    BY <1>0, <1>6, InsererEffet DEF JobInserer, AUneLigne
  <2> QED BY <1>6, <2>1 DEF JobInserer, passe, Combles, AUneLigne
<1>7. CASE UNCHANGED varsLoyers
  BY <1>7 DEF varsLoyers, passe, Combles, Commence, AUneLigne
<1> QED BY <1>1, <1>2, <1>3, <1>4, <1>5, <1>6, <1>7 DEF NextLoyers

LEMMA PrevusEtape == TypeLoyers /\ Prevus /\ [NextLoyers]_varsLoyers => Prevus'
<1> SUFFICES ASSUME TypeLoyers, Prevus, [NextLoyers]_varsLoyers PROVE Prevus'
  OBVIOUS
<1>1. CASE \/ Louer \/ Accepter
  BY <1>1 DEF Louer, Accepter, NePasInserer, Prevus
<1>2. CASE \/ EcheancierLire \/ RattraperLire \/ EcheancierAveugle \/ EcheancierInserer
           \/ InterrompreEcheancier
  BY <1>2 DEF EcheancierLire, RattraperLire, EcheancierAveugle, EcheancierInserer,
              InterrompreEcheancier, Prevoir, NePasInserer, Prevus, Douzaine
<1>3. CASE \/ MoisSuivant \/ JobLire \/ JobInserer \/ JobAveugle \/ InterrompreJob
           \/ UNCHANGED varsLoyers
           \/ \E r \in Requetes : \/ DeclarerLire(r) \/ DeclarerInserer(r) \/ Saisir(r)
                                  \/ InterrompreRequete(r) \/ DeclarerAveugle(r)
  <2>1. UNCHANGED <<bail, debut, echeancier>>
    BY <1>3 DEF MoisSuivant, JobLire, JobInserer, JobAveugle, InterrompreJob, varsLoyers,
                DeclarerLire, DeclarerInserer, Saisir, InterrompreRequete, DeclarerAveugle
  <2> QED BY <2>1 DEF Prevus, Douzaine
<1> QED BY <1>1, <1>2, <1>3 DEF NextLoyers

\* A row for a month that has come brings nothing ahead, and takes none away.
LEMMA AjoutEchu ==
  ASSUME TypeLoyers, Entamee, NEW S, Inserer(S), \A m \in S : m <= mois,
         UNCHANGED <<mois, bail, debut, echeancier, echecs, avance>>
  PROVE  Entamee'
<1>1. debut \in Mois /\ Mois \subseteq Nat /\ mois \in Nat
  BY MoisConnus
<1>2. \A m \in Mois : /\ AUneLigne(m) => lignes'[m] > 0
                      /\ lignes'[m] > 0 => AUneLigne(m) \/ m \in S
  BY InsererEffet DEF AUneLigne
<1>3. ~EnAvance => ~EnAvance'
  BY <1>1, <1>2 DEF EnAvance, AUneLigne
<1> QED BY <1>1, <1>2, <1>3 DEF Entamee, AUneLigne

LEMMA EntameeEtape ==
  TypeLoyers /\ Prevus /\ Entamee /\ [NextLoyers]_varsLoyers => Entamee'
<1> SUFFICES ASSUME TypeLoyers, Prevus, Entamee, [NextLoyers]_varsLoyers PROVE Entamee'
  OBVIOUS
<1>0. debut \in Mois /\ Mois \subseteq Nat /\ mois \in Nat /\ mois \in Mois
  BY MoisConnus
<1>1. CASE Louer \/ Accepter
  BY <1>1 DEF Louer, Accepter, Entamee, EnAvance, AUneLigne
<1>2. CASE EcheancierLire
  <2> SUFFICES ASSUME ~avance, echecs = 0, bail = "signe" PROVE Entamee'
    BY <1>2 DEF EcheancierLire, Entamee
  <2>1. ~EnAvance
    BY <1>2 DEF EcheancierLire, Entamee
  <2>2. CASE NePasInserer /\ \E m \in Mois : m >= debut /\ AUneLigne(m)
    <3>1. PICK m \in Mois : m >= debut /\ AUneLigne(m)
      BY <2>2
    <3>2. m <= mois
      BY <1>0, <2>1, <3>1 DEF EnAvance
    <3>3. debut >= mois => AUneLigne(debut)
      <4> HAVE debut >= mois
      <4>1. m = debut
        BY <1>0, <3>1, <3>2
      <4> QED BY <3>1, <4>1
    <3> QED BY <1>2, <2>2, <3>3 DEF EcheancierLire, NePasInserer, Entamee, AUneLigne
  <2>3. CASE Prevoir(Douzaine)
    BY <1>2, <2>1, <2>3 DEF EcheancierLire, Prevoir, Entamee, EnAvance, AUneLigne
  <2> QED BY <1>2, <2>2, <2>3 DEF EcheancierLire
<1>3. CASE RattraperLire
  BY <1>3 DEF RattraperLire, Prevus, Entamee
<1>4. CASE EcheancierInserer
  <2> SUFFICES ASSUME bail = "signe" PROVE lignes'[debut] > 0 /\ debut' = debut
    BY <1>4 DEF EcheancierInserer, NePasInserer, Entamee, AUneLigne
  <2>1. debut \in echeancier.mois
    BY <1>4, MoisConnus DEF EcheancierInserer, Prevus
  <2> QED BY <1>0, <1>4, <2>1, InsererEffet DEF EcheancierInserer, AUneLigne
<1>5. CASE MoisSuivant
  <2>1. mois' = mois + 1 /\ UNCHANGED <<bail, debut, lignes, echeancier, echecs, avance>>
    BY <1>5 DEF MoisSuivant
  <2> QED BY <1>0, <2>1 DEF Entamee, EnAvance, AUneLigne
<1>6. CASE JobInserer
  BY <1>0, <1>6, AjoutEchu DEF JobInserer, passe
<1>7. ASSUME NEW r \in Requetes, DeclarerInserer(r) PROVE Entamee'
  <2>1. requete[r].mois \in Nat /\ avance \in BOOLEAN
    BY DEF TypeLoyers
  <2>2. CASE requete[r].mois > mois
    BY <1>7, <2>2 DEF DeclarerInserer, Entamee
  <2>3. CASE requete[r].mois <= mois
    <3>1. avance' = avance
      BY <1>0, <1>7, <2>1, <2>3 DEF DeclarerInserer
    <3> QED BY <1>7, <2>3, <3>1, AjoutEchu DEF DeclarerInserer
  <2> QED BY <1>0, <2>1, <2>2, <2>3
<1>8. ASSUME NEW r \in Requetes, Saisir(r) PROVE Entamee'
  <2>1. PICK m \in 1..mois + MaxAvance : Inserer({m}) /\ avance' = (avance \/ m > mois)
    BY <1>8 DEF Saisir
  <2>2. CASE m > mois
    BY <2>1, <2>2 DEF Entamee
  <2>3. CASE m <= mois
    <3>1. avance' = avance
      BY <1>0, <2>1, <2>3 DEF TypeLoyers
    <3> QED BY <1>8, <2>1, <2>3, <3>1, AjoutEchu DEF Saisir
  <2> QED BY <1>0, <2>2, <2>3
<1>9. CASE \/ EcheancierAveugle \/ JobAveugle \/ InterrompreJob \/ InterrompreEcheancier
           \/ \E r \in Requetes : InterrompreRequete(r) \/ DeclarerAveugle(r)
  <2>1. echecs' = echecs + 1
    BY <1>9 DEF EcheancierAveugle, JobAveugle, InterrompreJob, InterrompreEcheancier,
                InterrompreRequete, DeclarerAveugle, Echouer
  <2> QED BY <2>1 DEF Entamee, TypeLoyers
<1>10. CASE JobLire \/ UNCHANGED varsLoyers \/ \E r \in Requetes : DeclarerLire(r)
  <2>1. UNCHANGED <<mois, bail, debut, lignes, echeancier, echecs, avance>>
    BY <1>10 DEF JobLire, DeclarerLire, varsLoyers, passe
  <2> QED BY <2>1 DEF Entamee, EnAvance, AUneLigne
<1> QED BY <1>1, <1>2, <1>3, <1>4, <1>5, <1>6, <1>7, <1>8, <1>9, <1>10 DEF NextLoyers

\* No month missing: whatever the lease's first month and the rows it finds, the
\* month has its rent once the job has run; and in the first month of a lease
\* signed here, without failure and without a rent ahead, as soon as the
\* schedule is over.
THEOREM MoisCouverts == SpecLoyers => []MoisCouvert
<1>1. TypeLoyers /\ Combles /\ Entamee => MoisCouvert
  BY DEF TypeLoyers, Combles, Entamee, MoisCouvert
<1>2. InitLoyers => TypeLoyers /\ Combles /\ Prevus /\ Entamee
  BY TypeInitLoyers, CouvertureInit
<1>3. TypeLoyers /\ Combles /\ Prevus /\ Entamee /\ [NextLoyers]_varsLoyers
        => TypeLoyers' /\ Combles' /\ Prevus' /\ Entamee'
  BY TypeEtapeLoyers, ComblesEtape, PrevusEtape, EntameeEtape
<1> QED BY <1>1, <1>2, <1>3, PTL DEF SpecLoyers
==============================================================================
