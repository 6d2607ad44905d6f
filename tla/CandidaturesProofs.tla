-------------------------- MODULE CandidaturesProofs --------------------------
(***************************************************************************)
(* Proofs about Candidatures, for any number of requests and failures.     *)
(***************************************************************************)
EXTENDS Candidatures, TLAPS

Lignes == [rang : Nat, statut : Statuts]
Process == [pc : Etapes, decision : Decisions, rang : Nat, cible : SUBSET Requetes]

\* Everything but the difference of dates.
Types ==
  /\ annonce \in {"libre", "choisi", "loue", "autre"}
  /\ auto \in BOOLEAN
  /\ ligne \in [Requetes -> Lignes]
  /\ carte \in Decisions \cup {"aucune"}
  /\ visites \subseteq Requetes
  /\ requete \in [Requetes -> Process]
  /\ horloge \in Nat
  /\ pannes \in 0..MaxPannes
  /\ accord \in BOOLEAN /\ croise \in BOOLEAN

\* A date is taken once, by one request, before it inserts.
Dates ==
  /\ \A r \in Requetes : requete[r].rang <= horloge
  /\ \A r \in Requetes : ligne[r].rang \in {0, requete[r].rang}
  /\ \A r \in Requetes : requete[r].pc \in {"attente", "existe"} => requete[r].rang = 0
  /\ \A r, q \in Requetes : requete[r].rang = requete[q].rang => r = q \/ requete[r].rang = 0

\* The steps, sorted by what they do to the requests.
Avance(r, e) == /\ e \in Etapes
                /\ Aller(r, e)
                /\ requete[r].pc # "attente" => e \notin {"attente", "existe"}

LEMMA AvanceEffet ==
  ASSUME Types, NEW r \in Requetes, NEW e, Avance(r, e)
  PROVE  /\ requete' \in [Requetes -> Process]
         /\ \A q \in Requetes : q # r => requete'[q] = requete[q]
         /\ requete'[r].pc = e
         /\ requete'[r].rang = requete[r].rang
         /\ requete'[r].decision = requete[r].decision
         /\ requete'[r].cible = requete[r].cible
BY DEF Avance, Aller, Types, Process

LEMMA EtapesListe ==
  {"attente", "existe", "inserer", "choisir", "marquer", "poster",
   "porte", "proposer", "fini"} \subseteq Etapes
BY DEF Etapes

LEMMA AvanceDates ==
  ASSUME Types, Dates, NEW r \in Requetes, NEW e, Avance(r, e), UNCHANGED horloge,
         \A q \in Requetes : ligne'[q].rang = ligne[q].rang
  PROVE  Dates'
<1>1. \A q \in Requetes : requete'[q].rang = requete[q].rang
  BY AvanceEffet
<1>2. \A q \in Requetes : requete'[q].pc \in {"attente", "existe"}
                            => requete[q].pc \in {"attente", "existe"}
  BY AvanceEffet DEF Avance
<1> QED BY <1>1, <1>2 DEF Dates

LEMMA TypesInit == Init => Types /\ Dates
<1> SUFFICES ASSUME Init PROVE Types /\ Dates
  OBVIOUS
<1>1. Depart \in Process
  BY DEF Depart, Process, Etapes, Decisions
<1>2. requete \in [Requetes -> Process]
  BY <1>1 DEF Init
<1>3. ligne \in [Requetes -> Lignes]
  BY DEF Init, Lignes, Statuts, Decisions
<1>4. pannes \in 0..MaxPannes
  BY CandidaturesHypotheses DEF Init
<1>5. horloge \in Nat /\ carte \in Decisions \cup {"aucune"}
  BY DEF Init
<1>6. Dates
  BY DEF Init, Depart, Dates
<1> QED BY <1>2, <1>3, <1>4, <1>5, <1>6 DEF Init, Types

\* Types and dates are kept by each step.
LEMMA TypesEtape == Types /\ Dates /\ [Next]_vars => Types' /\ Dates'
<1> SUFFICES ASSUME Types, Dates, [Next]_vars PROVE Types' /\ Dates'
  OBVIOUS
<1> USE EtapesListe
<1>1. ASSUME NEW r \in Requetes,
             \/ CandidaterLire(r) \/ ProposerLire(r) \/ PorteLire(r) \/ ProposerInserer(r)
             \/ Poster(r) \/ Interrompre(r)
      PROVE  Types' /\ Dates'
  <2>1. PICK e \in Etapes : Avance(r, e)
    BY <1>1 DEF Avance, CandidaterLire, ProposerLire, PorteLire, ProposerInserer, Poster,
                Interrompre
  <2>2. UNCHANGED <<annonce, auto, ligne, horloge, accord, croise>>
    BY <1>1 DEF CandidaterLire, ProposerLire, PorteLire, ProposerInserer, Poster, Interrompre
  <2>3. carte' \in Decisions \cup {"aucune"} /\ visites' \subseteq Requetes
    BY <1>1 DEF CandidaterLire, ProposerLire, PorteLire, ProposerInserer, Poster, Interrompre,
                Types, Process
  <2>4. pannes' \in 0..MaxPannes
    BY <1>1, CandidaturesHypotheses
       DEF CandidaterLire, ProposerLire, PorteLire, ProposerInserer, Poster, Interrompre, Types
  <2>5. Dates'
    BY <2>1, <2>2, AvanceDates
  <2>6. requete' \in [Requetes -> Process]
    BY <2>1, AvanceEffet
  <2> QED BY <2>2, <2>3, <2>4, <2>5, <2>6 DEF Types
<1>2. ASSUME NEW r \in Requetes, CandidaterExiste(r) PROVE Types' /\ Dates'
  <2>1. UNCHANGED <<annonce, auto, ligne, carte, visites, pannes, accord>>
    BY <1>2 DEF CandidaterExiste
  <2>2. CASE Aller(r, "fini") /\ UNCHANGED <<horloge, croise>>
    <3>1. Avance(r, "fini")
      BY <2>2 DEF Avance
    <3> QED BY <2>1, <2>2, <3>1, AvanceEffet, AvanceDates DEF Types
  <2>3. CASE /\ requete' = [requete EXCEPT ![r] =
                  [@ EXCEPT !.pc = "inserer", !.rang = horloge + 1]]
             /\ horloge' = horloge + 1
             /\ NoterCroisement(r)
    <3>1. requete \in [Requetes -> Process] /\ horloge \in Nat
      BY DEF Types
    <3>2. [requete[r] EXCEPT !.pc = "inserer", !.rang = horloge + 1] \in Process
      <4>1. requete[r] \in Process /\ horloge + 1 \in Nat
        BY <3>1
      <4> QED BY <4>1 DEF Process, Etapes
    <3>3. requete' \in [Requetes -> Process]
      BY <2>3, <3>1, <3>2
    <3>4. croise' \in BOOLEAN
      BY <2>3 DEF NoterCroisement, Types
    <3>5. \A q \in Requetes : q # r => requete'[q] = requete[q]
      BY <2>3, <3>1
    <3>6. requete'[r].rang = horloge + 1 /\ requete'[r].pc = "inserer"
      BY <2>3, <3>1 DEF Process
    <3>7. \A q \in Requetes : requete[q].rang \in Nat
      BY <3>1 DEF Process
    <3>8. requete[r].rang = 0
      BY <1>2 DEF CandidaterExiste, Dates
    <3>9. \A q \in Requetes : requete'[q].rang = IF q = r THEN horloge + 1 ELSE requete[q].rang
      BY <3>5, <3>6
    <3>10. Dates'
      <4>1. \A q \in Requetes : requete'[q].rang <= horloge'
        BY <2>3, <3>1, <3>7, <3>9 DEF Dates
      <4>2. \A q \in Requetes : ligne'[q].rang \in {0, requete'[q].rang}
        BY <2>1, <3>8, <3>9 DEF Dates
      <4>3. \A q \in Requetes : requete'[q].pc \in {"attente", "existe"} => requete'[q].rang = 0
        BY <3>5, <3>6 DEF Dates
      <4>4. \A q, s \in Requetes : requete'[q].rang = requete'[s].rang
                                   => q = s \/ requete'[q].rang = 0
        BY <3>1, <3>7, <3>9 DEF Dates
      <4> QED BY <4>1, <4>2, <4>3, <4>4 DEF Dates
    <3> QED BY <2>1, <2>3, <3>1, <3>3, <3>4, <3>10 DEF Types
  <2> QED BY <1>2, <2>2, <2>3 DEF CandidaterExiste
<1>3. ASSUME NEW r \in Requetes, CandidaterInserer(r) PROVE Types' /\ Dates'
  <2>1. UNCHANGED <<annonce, auto, carte, visites, horloge, pannes, accord, croise>>
    BY <1>3 DEF CandidaterInserer
  <2>2. Avance(r, "fini")
    BY <1>3 DEF CandidaterInserer, Avance
  <2>3. ligne' \in [Requetes -> Lignes]
    BY <1>3 DEF CandidaterInserer, Types, Lignes, Process, Statuts
  <2>4. \A q \in Requetes : ligne'[q].rang \in {ligne[q].rang, requete[q].rang}
    BY <1>3 DEF CandidaterInserer, Types, Lignes
  <2>5. \A q \in Requetes : requete'[q].rang = requete[q].rang
    BY <2>2, AvanceEffet
  <2>6. \A q \in Requetes : requete'[q].pc \in {"attente", "existe"}
                              => requete[q].pc \in {"attente", "existe"}
    BY <2>2, AvanceEffet
  <2>7. Dates'
    BY <2>1, <2>4, <2>5, <2>6 DEF Dates
  <2> QED BY <2>1, <2>2, <2>3, <2>7, AvanceEffet DEF Types
<1>4. ASSUME NEW r \in Requetes, NEW d \in Decisions, DeciderLire(r, d)
      PROVE  Types' /\ Dates'
  <2>1. UNCHANGED <<annonce, auto, ligne, carte, visites, horloge, pannes, accord, croise>>
    BY <1>4 DEF DeciderLire
  <2>2. PICK e \in {"fini", "choisir"} :
          requete' = [requete EXCEPT ![r] = [@ EXCEPT !.decision = d, !.pc = e]]
    BY <1>4 DEF DeciderLire
  <2>3. requete \in [Requetes -> Process]
    BY DEF Types
  <2>4. [requete[r] EXCEPT !.decision = d, !.pc = e] \in Process
    BY <2>2, <2>3 DEF Process
  <2>5. requete' \in [Requetes -> Process]
    BY <2>2, <2>3, <2>4
  <2>6. /\ \A q \in Requetes : q # r => requete'[q] = requete[q]
        /\ requete'[r].rang = requete[r].rang /\ requete'[r].pc = e
    BY <2>2, <2>3 DEF Process
  <2>7. Dates'
    BY <2>1, <2>2, <2>6 DEF Dates
  <2> QED BY <2>1, <2>5, <2>7 DEF Types
<1>5. ASSUME NEW r \in Requetes, DeciderChoisir(r) PROVE Types' /\ Dates'
  <2>1. UNCHANGED <<annonce, auto, ligne, carte, visites, horloge, pannes, accord>>
    BY <1>5 DEF DeciderChoisir
  <2>2. CASE Aller(r, "fini") /\ UNCHANGED croise
    <3>1. Avance(r, "fini")
      BY <2>2 DEF Avance
    <3> QED BY <2>1, <2>2, <3>1, AvanceEffet, AvanceDates DEF Types
  <2>3. CASE /\ requete' = [requete EXCEPT ![r] =
                  [@ EXCEPT !.pc = "marquer", !.cible = Ancienne]]
             /\ NoterCroisement(r)
    <3>1. requete \in [Requetes -> Process] /\ Ancienne \in SUBSET Requetes
      BY DEF Types, Ancienne, Messages
    <3>2. [requete[r] EXCEPT !.pc = "marquer", !.cible = Ancienne] \in Process
      BY <3>1 DEF Process
    <3>3. requete' \in [Requetes -> Process]
      BY <2>3, <3>1, <3>2
    <3>4. croise' \in BOOLEAN
      BY <2>3 DEF NoterCroisement, Types
    <3>5. /\ \A q \in Requetes : q # r => requete'[q] = requete[q]
          /\ requete'[r].rang = requete[r].rang /\ requete'[r].pc = "marquer"
      BY <2>3, <3>1 DEF Process
    <3>6. Dates'
      BY <2>1, <3>5 DEF Dates
    <3> QED BY <2>1, <3>3, <3>4, <3>6 DEF Types
  <2> QED BY <1>5, <2>2, <2>3 DEF DeciderChoisir
<1>6. ASSUME NEW r \in Requetes, Marquer(r) PROVE Types' /\ Dates'
  <2>1. UNCHANGED <<annonce, auto, carte, visites, horloge, pannes, croise>>
    BY <1>6 DEF Marquer
  <2>2. Avance(r, "poster")
    BY <1>6 DEF Marquer, Avance
  <2>3. requete[r].decision \in Statuts
    BY DEF Types, Process, Statuts
  <2>4. ligne' \in [Requetes -> Lignes] /\ \A q \in Requetes : ligne'[q].rang = ligne[q].rang
    BY <1>6, <2>3 DEF Marquer, Types, Lignes
  <2>5. accord' \in BOOLEAN
    BY <1>6 DEF Marquer, Types
  <2> QED BY <2>1, <2>2, <2>4, <2>5, AvanceEffet, AvanceDates DEF Types
<1>7. CASE BailEnvoyer \/ BailLouer
  BY <1>7 DEF BailEnvoyer, BailLouer, Types, Dates
<1>8. CASE BailValider
  <2>1. ligne' \in [Requetes -> Lignes] /\ \A q \in Requetes : ligne'[q].rang = ligne[q].rang
    BY <1>8 DEF BailValider, Types, Lignes, Statuts, Decisions
  <2> QED BY <1>8, <2>1 DEF BailValider, Types, Dates
<1>9. CASE UNCHANGED vars
  BY <1>9 DEF vars, Types, Dates
<1> QED BY <1>1, <1>2, <1>3, <1>4, <1>5, <1>6, <1>7, <1>8, <1>9 DEF Next

LEMMA CandidaturesTypes == Spec => [](Types /\ Dates)
BY TypesInit, TypesEtape, PTL DEF Spec

\* Type correctness of the candidacy: two messages never have the same date.
THEOREM CandidaturesTypeCorrect == Spec => []TypeOK
<1>1. Types /\ Dates => TypeOK
  <2> SUFFICES ASSUME Types, Dates PROVE TypeOK
    OBVIOUS
  <2>1. \A r, q \in Messages : ligne[r].rang = ligne[q].rang => r = q
    BY DEF Types, Dates, Messages, Lignes, Process
  <2> QED BY <2>1 DEF Types, TypeOK, Lignes, Process
<1> QED BY <1>1, CandidaturesTypes, PTL

-----------------------------------------------------------------------------
(* The gate of the visits.                                                 *)

\* A validated status, an open gate and a visit all rest on a validation.
Autorisations ==
  /\ VisitesAutorisees
  /\ \A r \in Requetes : requete[r].pc = "proposer" => accord
  /\ \A r \in Requetes : ligne[r].statut = "validee" => accord

LEMMA AutorisationsInit == Init => Autorisations
BY DEF Init, Depart, Autorisations, VisitesAutorisees

LEMMA AutorisationsEtape ==
  Types /\ Autorisations /\ [Next]_vars => Autorisations'
<1> SUFFICES ASSUME Types, Autorisations, [Next]_vars PROVE Autorisations'
  OBVIOUS
<1> USE EtapesListe DEF Autorisations, VisitesAutorisees
<1>0. requete \in [Requetes -> Process] /\ ligne \in [Requetes -> Lignes]
  BY DEF Types
<1>1. ASSUME NEW r \in Requetes,
             CandidaterLire(r) \/ ProposerLire(r) \/ Poster(r) \/ Interrompre(r)
      PROVE  Autorisations'
  <2>1. PICK e \in {"existe", "porte", "fini"} : Aller(r, e)
    BY <1>1 DEF CandidaterLire, ProposerLire, Poster, Interrompre
  <2>2. \A q \in Requetes : requete'[q].pc \in {requete[q].pc, e}
    BY <1>0, <2>1 DEF Aller, Process
  <2> QED BY <1>1, <2>1, <2>2 DEF CandidaterLire, ProposerLire, Poster, Interrompre
<1>2. ASSUME NEW r \in Requetes,
             CandidaterExiste(r) \/ DeciderChoisir(r) \/ \E d \in Decisions : DeciderLire(r, d)
      PROVE  Autorisations'
  <2>1. \A q \in Requetes : requete'[q].pc \in
          {requete[q].pc, "fini", "inserer", "marquer", "choisir"}
    <3>1. CASE CandidaterExiste(r)
      BY <1>0, <3>1 DEF CandidaterExiste, Aller, Process
    <3>2. CASE DeciderChoisir(r)
      BY <1>0, <3>2 DEF DeciderChoisir, Aller, Process
    <3>3. ASSUME NEW d \in Decisions, DeciderLire(r, d)
          PROVE  \A q \in Requetes : requete'[q].pc \in {requete[q].pc, "fini", "choisir"}
      BY <1>0, <3>3 DEF DeciderLire, Process
    <3> QED BY <1>2, <3>1, <3>2, <3>3
  <2>2. UNCHANGED <<ligne, visites, accord>>
    BY <1>2 DEF CandidaterExiste, DeciderChoisir, DeciderLire
  <2> QED BY <2>1, <2>2
<1>3. ASSUME NEW r \in Requetes, CandidaterInserer(r) \/ Marquer(r) PROVE Autorisations'
  <2>1. PICK e \in {"fini", "poster"} : Aller(r, e)
    BY <1>3 DEF CandidaterInserer, Marquer
  <2>2. \A q \in Requetes : requete'[q].pc \in {requete[q].pc, e}
    BY <1>0, <2>1 DEF Aller, Process
  <2>3. visites' = visites /\ (accord => accord')
    BY <1>3 DEF CandidaterInserer, Marquer
  <2>4. \A q \in Requetes : ligne'[q].statut = "validee" => accord'
    <3>1. CASE CandidaterInserer(r)
      <4>1. \A q \in Requetes : ligne'[q].statut \in {ligne[q].statut, "en_attente"}
        BY <1>0, <3>1 DEF CandidaterInserer
      <4> QED BY <2>3, <4>1
    <3>2. CASE Marquer(r)
      <4>1. \A q \in Requetes : ligne'[q].statut \in {ligne[q].statut, requete[r].decision}
        BY <1>0, <3>2 DEF Marquer, Lignes
      <4>2. requete[r].decision = "validee" => accord'
        BY <3>2 DEF Marquer
      <4> QED BY <2>3, <4>1, <4>2
    <3> QED BY <1>3, <3>1, <3>2
  <2> QED BY <2>1, <2>2, <2>3, <2>4
<1>4. ASSUME NEW r \in Requetes, PorteLire(r) PROVE Autorisations'
  <2>1. Aller(r, IF PorteOuverte THEN "proposer" ELSE "fini")
    BY <1>4 DEF PorteLire
  <2>2. UNCHANGED <<ligne, visites, accord>>
    BY <1>4 DEF PorteLire
  <2>3. PorteOuverte => accord
    BY DEF PorteOuverte, Derniere, Messages
  <2>4. \A q \in Requetes : requete'[q].pc = "proposer" =>
          requete[q].pc = "proposer" \/ PorteOuverte
    BY <1>0, <2>1 DEF Aller, Process
  <2> QED BY <2>2, <2>3, <2>4
<1>5. ASSUME NEW r \in Requetes, ProposerInserer(r) PROVE Autorisations'
  <2>1. \A q \in Requetes : requete'[q].pc \in {requete[q].pc, "fini"}
    BY <1>0, <1>5 DEF ProposerInserer, Aller, Process
  <2> QED BY <1>5, <2>1 DEF ProposerInserer
<1>6. CASE BailEnvoyer \/ BailLouer
  BY <1>6 DEF BailEnvoyer, BailLouer
<1>7. CASE BailValider
  BY <1>7 DEF BailValider
<1>8. CASE UNCHANGED vars
  BY <1>8 DEF vars
<1> QED BY <1>1, <1>2, <1>3, <1>4, <1>5, <1>6, <1>7, <1>8 DEF Next

\* The gate: no visit for a candidate nobody has validated.
THEOREM PorteGardee == Spec => []VisitesAutorisees
<1>1. Types /\ Dates /\ Autorisations /\ [Next]_vars
        => Types' /\ Dates' /\ Autorisations'
  BY TypesEtape, AutorisationsEtape
<1>2. Init => Types /\ Dates /\ Autorisations
  BY TypesInit, AutorisationsInit
<1>3. Autorisations => VisitesAutorisees
  BY DEF Autorisations
<1> QED BY <1>1, <1>2, <1>3, PTL DEF Spec

-----------------------------------------------------------------------------
(* The gate and the last decision.                                         *)

EnCours(r) == requete[r].pc \in {"inserer", "marquer", "poster"}
Calme == ~croise /\ pannes = 0 /\ annonce # "loue"

\* While no two requests cross, one at a time works on at most one message, and
\* what it has written so far is what the candidate is being told.
UnSeul ==
  /\ \A r, q \in Requetes : EnCours(r) /\ EnCours(q) => r = q
  /\ \A r, q \in Messages : r = q
Suivi ==
  /\ \A r \in Requetes : requete[r].pc = "inserer" => Messages = {}
  /\ \A r \in Requetes : requete[r].pc = "marquer" =>
       requete[r].cible = Messages /\ Messages # {}
  /\ \A r \in Requetes : requete[r].pc = "poster" =>
       Messages # {} /\ \A q \in Messages : ligne[q].statut = requete[r].decision
  /\ (\A r \in Requetes : requete[r].pc # "poster") =>
       ((\E q \in Messages : ligne[q].statut = "validee") <=> carte = "validee")
Verdict ==
  /\ auto => annonce = "loue"
  /\ Calme => UnSeul /\ Suivi

LEMMA VerdictInit == Init => Verdict
BY DEF Init, Depart, Verdict, UnSeul, Suivi, EnCours, Messages

\* A step that leaves alone the messages and the requests at work on them.
LEMMA VerdictCadre ==
  ASSUME Verdict, UNCHANGED <<auto, ligne, carte, annonce>>, Calme' => Calme,
         \A q \in Requetes : EnCours(q) \/ EnCours(q)' => requete'[q] = requete[q]
  PROVE  Verdict'
<1> SUFFICES ASSUME Calme' PROVE UnSeul' /\ Suivi'
  BY DEF Verdict
<1>1. UnSeul /\ Suivi /\ Messages' = Messages
  BY DEF Verdict, Messages
<1>2. \A q \in Requetes : \A e \in {"inserer", "marquer", "poster"} :
        requete'[q].pc = e \/ requete[q].pc = e => requete'[q] = requete[q]
  BY DEF EnCours
<1>3. UnSeul'
  BY <1>1, <1>2 DEF UnSeul, EnCours
<1>4. Suivi'
  BY <1>1, <1>2 DEF Suivi
<1> QED BY <1>3, <1>4

\* A request that takes up a message, alone when Calme' holds.
LEMMA SeulEnCours ==
  ASSUME NEW r \in Requetes, NoterCroisement(r), ~croise'
  PROVE  ~croise /\ \A q \in Requetes : EnCours(q) => q = r
BY DEF NoterCroisement, EnCours

LEMMA VerdictEtape == Types /\ Verdict /\ [Next]_vars => Verdict'
<1> SUFFICES ASSUME Types, Verdict, [Next]_vars PROVE Verdict'
  OBVIOUS
<1> USE EtapesListe
<1>0. requete \in [Requetes -> Process] /\ ligne \in [Requetes -> Lignes]
  BY DEF Types
<1>1. ASSUME NEW r \in Requetes,
             \/ CandidaterLire(r) \/ ProposerLire(r) \/ PorteLire(r) \/ ProposerInserer(r)
             \/ \E d \in Decisions : DeciderLire(r, d)
      PROVE  Verdict'
  <2>1. \A q \in Requetes : q # r => requete'[q] = requete[q]
    BY <1>0, <1>1 DEF CandidaterLire, ProposerLire, PorteLire, ProposerInserer, DeciderLire, Aller
  <2>2. ~EnCours(r) /\ ~EnCours(r)'
    <3>1. CASE CandidaterLire(r) \/ ProposerLire(r) \/ PorteLire(r) \/ ProposerInserer(r)
      <4>1. requete[r].pc \in {"attente", "porte", "proposer"}
        BY <3>1 DEF CandidaterLire, ProposerLire, PorteLire, ProposerInserer
      <4>2. PICK e \in {"existe", "porte", "proposer", "fini"} : Aller(r, e)
        BY <3>1 DEF CandidaterLire, ProposerLire, PorteLire, ProposerInserer
      <4>3. requete'[r].pc = e
        BY <1>0, <4>2 DEF Aller, Process
      <4> QED BY <4>1, <4>3 DEF EnCours
    <3>2. ASSUME NEW d \in Decisions, DeciderLire(r, d) PROVE ~EnCours(r) /\ ~EnCours(r)'
      <4>1. requete[r].pc = "attente" /\ requete'[r].pc \in {"fini", "choisir"}
        BY <1>0, <3>2 DEF DeciderLire, Process
      <4> QED BY <4>1 DEF EnCours
    <3> QED BY <1>1, <3>1, <3>2
  <2>3. UNCHANGED <<annonce, auto, ligne, carte, pannes, croise>>
    BY <1>1 DEF CandidaterLire, ProposerLire, PorteLire, ProposerInserer, DeciderLire
  <2> QED BY <2>1, <2>2, <2>3, VerdictCadre DEF Calme
<1>2. ASSUME NEW r \in Requetes, CandidaterExiste(r) PROVE Verdict'
  <2>1. UNCHANGED <<annonce, auto, ligne, carte, pannes>>
    BY <1>2 DEF CandidaterExiste
  <2>2. \A q \in Requetes : q # r => requete'[q] = requete[q]
    BY <1>0, <1>2 DEF CandidaterExiste, Aller
  <2>3. CASE Aller(r, "fini") /\ UNCHANGED croise
    <3>1. ~EnCours(r) /\ ~EnCours(r)'
      BY <1>0, <1>2, <2>3 DEF CandidaterExiste, Aller, EnCours, Process
    <3> QED BY <2>1, <2>2, <2>3, <3>1, VerdictCadre DEF Calme
  <2>4. CASE Messages = {} /\ requete'[r].pc = "inserer" /\ NoterCroisement(r)
    <3> SUFFICES ASSUME Calme' PROVE UnSeul' /\ Suivi'
      BY <2>1 DEF Verdict
    <3>1. ~croise /\ \A q \in Requetes : EnCours(q) => q = r
      BY <2>4, SeulEnCours DEF Calme
    <3>2. UnSeul /\ Suivi /\ Messages' = Messages
      BY <2>1, <3>1 DEF Verdict, Calme, Messages
    <3>3. \A q \in Requetes : EnCours(q)' => q = r
      BY <2>2, <3>1 DEF EnCours
    <3>4. requete[r].pc = "existe"
      BY <1>2 DEF CandidaterExiste
    <3>5. \A q \in Requetes : requete[q].pc # "poster"
      BY <3>1, <3>4 DEF EnCours
    <3>6. UnSeul'
      BY <3>2, <3>3 DEF UnSeul
    <3>7. Suivi'
      BY <2>1, <2>4, <3>2, <3>3, <3>5 DEF Suivi, EnCours
    <3> QED BY <3>6, <3>7
  <2>5. \/ Aller(r, "fini") /\ UNCHANGED croise
        \/ Messages = {} /\ requete'[r].pc = "inserer" /\ NoterCroisement(r)
    BY <1>0, <1>2 DEF CandidaterExiste, Process
  <2> QED BY <2>3, <2>4, <2>5
<1>3. ASSUME NEW r \in Requetes, CandidaterInserer(r) PROVE Verdict'
  <2>1. UNCHANGED <<annonce, auto, carte, pannes, croise>>
    BY <1>3 DEF CandidaterInserer
  <2>2. /\ \A q \in Requetes : q # r => requete'[q] = requete[q] /\ ligne'[q] = ligne[q]
        /\ requete'[r].pc = "fini" /\ ligne'[r].statut = "en_attente"
    BY <1>0, <1>3 DEF CandidaterInserer, Aller, Process
  <2> SUFFICES ASSUME Calme' PROVE UnSeul' /\ Suivi'
    BY <2>1 DEF Verdict
  <2>3. UnSeul /\ Suivi
    BY <2>1 DEF Verdict, Calme
  <2>4. requete[r].pc = "inserer" /\ Messages = {}
    BY <1>3, <2>3 DEF CandidaterInserer, Suivi
  <2>5. Messages' \subseteq {r}
    BY <2>2, <2>4 DEF Messages
  <2>6. \A q \in Requetes : ~EnCours(q)'
    BY <2>2, <2>3, <2>4 DEF UnSeul, EnCours
  <2>7. carte' # "validee"
    BY <2>1, <2>3, <2>4 DEF UnSeul, Suivi, EnCours
  <2> QED BY <2>2, <2>5, <2>6, <2>7 DEF UnSeul, Suivi, EnCours
<1>4. ASSUME NEW r \in Requetes, DeciderChoisir(r) PROVE Verdict'
  <2>1. UNCHANGED <<annonce, auto, ligne, carte, pannes>>
    BY <1>4 DEF DeciderChoisir
  <2>2. \A q \in Requetes : q # r => requete'[q] = requete[q]
    BY <1>0, <1>4 DEF DeciderChoisir, Aller
  <2>3. CASE Aller(r, "fini") /\ UNCHANGED croise
    <3>1. ~EnCours(r) /\ ~EnCours(r)'
      BY <1>0, <1>4, <2>3 DEF DeciderChoisir, Aller, EnCours, Process
    <3> QED BY <2>1, <2>2, <2>3, <3>1, VerdictCadre DEF Calme
  <2>4. CASE /\ Ancienne # {} /\ NoterCroisement(r)
             /\ requete'[r].pc = "marquer" /\ requete'[r].cible = Ancienne
    <3> SUFFICES ASSUME Calme' PROVE UnSeul' /\ Suivi'
      BY <2>1 DEF Verdict
    <3>1. ~croise /\ \A q \in Requetes : EnCours(q) => q = r
      BY <2>4, SeulEnCours DEF Calme
    <3>2. UnSeul /\ Suivi /\ Messages' = Messages
      BY <2>1, <3>1 DEF Verdict, Calme, Messages
    <3>3. \A q \in Requetes : EnCours(q)' => q = r
      BY <2>2, <3>1 DEF EnCours
    <3>4. requete[r].pc = "choisir"
      BY <1>4 DEF DeciderChoisir
    <3>5. \A q \in Requetes : requete[q].pc # "poster"
      BY <3>1, <3>4 DEF EnCours
    <3>6. Ancienne = Messages
      <4>1. \A q \in Messages : ligne[q].rang <= ligne[q].rang
        BY <1>0 DEF Messages, Lignes
      <4> QED BY <2>4, <3>2, <4>1 DEF Ancienne, UnSeul
    <3>7. UnSeul'
      BY <3>2, <3>3 DEF UnSeul
    <3>8. Suivi'
      BY <2>1, <2>4, <3>2, <3>3, <3>5, <3>6 DEF Suivi, EnCours
    <3> QED BY <3>7, <3>8
  <2>5. \/ Aller(r, "fini") /\ UNCHANGED croise
        \/ /\ Ancienne # {} /\ NoterCroisement(r)
           /\ requete'[r].pc = "marquer" /\ requete'[r].cible = Ancienne
    BY <1>0, <1>4 DEF DeciderChoisir, Process
  <2> QED BY <2>3, <2>4, <2>5
<1>5. ASSUME NEW r \in Requetes, Marquer(r) PROVE Verdict'
  <2>1. UNCHANGED <<annonce, auto, carte, pannes, croise>>
    BY <1>5 DEF Marquer
  <2>2. /\ \A q \in Requetes : q # r => requete'[q] = requete[q]
        /\ requete'[r].pc = "poster" /\ requete'[r].decision = requete[r].decision
    BY <1>0, <1>5 DEF Marquer, Aller, Process
  <2>3. \A q \in Requetes : /\ ligne'[q].rang = ligne[q].rang
                            /\ q \in requete[r].cible => ligne'[q].statut = requete[r].decision
    BY <1>0, <1>5 DEF Marquer, Lignes
  <2> SUFFICES ASSUME Calme' PROVE UnSeul' /\ Suivi'
    BY <2>1 DEF Verdict
  <2>4. UnSeul /\ Suivi
    BY <2>1 DEF Verdict, Calme
  <2>5. requete[r].pc = "marquer" /\ requete[r].cible = Messages /\ Messages # {}
    BY <1>5, <2>4 DEF Marquer, Suivi
  <2>6. Messages' = Messages
    BY <2>3 DEF Messages
  <2>7. \A q \in Requetes : EnCours(q)' => q = r
    BY <2>2, <2>4, <2>5 DEF UnSeul, EnCours
  <2>8. \A q \in Messages : ligne'[q].statut = requete'[r].decision
    BY <2>2, <2>3, <2>5 DEF Messages
  <2> QED BY <2>2, <2>4, <2>5, <2>6, <2>7, <2>8 DEF UnSeul, Suivi, EnCours
<1>6. ASSUME NEW r \in Requetes, Poster(r) PROVE Verdict'
  <2>1. UNCHANGED <<annonce, auto, ligne, pannes, croise>> /\ carte' = requete[r].decision
    BY <1>6 DEF Poster
  <2>2. (\A q \in Requetes : q # r => requete'[q] = requete[q]) /\ requete'[r].pc = "fini"
    BY <1>0, <1>6 DEF Poster, Aller, Process
  <2> SUFFICES ASSUME Calme' PROVE UnSeul' /\ Suivi'
    BY <2>1 DEF Verdict
  <2>3. UnSeul /\ Suivi /\ Messages' = Messages
    BY <2>1 DEF Verdict, Calme, Messages
  <2>4. /\ requete[r].pc = "poster" /\ Messages # {}
        /\ \A q \in Messages : ligne[q].statut = requete[r].decision
    BY <1>6, <2>3 DEF Poster, Suivi
  <2>5. \A q \in Requetes : ~EnCours(q)'
    BY <2>2, <2>3, <2>4 DEF UnSeul, EnCours
  <2> QED BY <2>1, <2>3, <2>4, <2>5 DEF UnSeul, Suivi, EnCours
<1>7. ASSUME NEW r \in Requetes, Interrompre(r) PROVE Verdict'
  <2>1. pannes' # 0 /\ UNCHANGED <<auto, annonce>>
    BY <1>7 DEF Interrompre, Types
  <2> QED BY <2>1 DEF Verdict, Calme
<1>8. CASE BailEnvoyer
  <2>1. annonce = "libre" /\ annonce' # "loue"
    BY <1>8 DEF BailEnvoyer
  <2>2. UNCHANGED <<auto, ligne, carte, requete, pannes, croise>>
    BY <1>8 DEF BailEnvoyer
  <2> QED BY <2>1, <2>2 DEF Verdict, Calme, UnSeul, Suivi, EnCours, Messages
<1>9. CASE BailLouer \/ BailValider
  <2>1. annonce' = "loue"
    BY <1>9 DEF BailLouer, BailValider, Verdict
  <2> QED BY <2>1 DEF Verdict, Calme
<1>10. CASE UNCHANGED vars
  BY <1>10, VerdictCadre DEF vars, Calme
<1> QED BY <1>1, <1>2, <1>3, <1>4, <1>5, <1>6, <1>7, <1>8, <1>9, <1>10 DEF Next

\* The gate applies what the candidate was last told, before the lease, when no
\* two requests cross and nothing fails.
THEOREM PorteEtVerdict == Spec => []PorteSuitVerdict
<1>1. Types /\ Dates /\ Verdict /\ [Next]_vars => Types' /\ Dates' /\ Verdict'
  BY TypesEtape, VerdictEtape
<1>2. Init => Types /\ Dates /\ Verdict
  BY TypesInit, VerdictInit
<1>3. Types /\ Verdict => PorteSuitVerdict
  <2> SUFFICES ASSUME Types, Verdict, Repos, Calme
               PROVE  PorteOuverte <=> carte = "validee"
    BY DEF PorteSuitVerdict, Calme
  <2>1. UnSeul /\ \A r \in Requetes : requete[r].pc # "poster"
    BY DEF Verdict, Repos
  <2>2. (\E q \in Messages : ligne[q].statut = "validee") <=> carte = "validee"
    BY <2>1 DEF Verdict, Suivi
  <2>3. Derniere = Messages
    <3>1. \A q \in Messages : ligne[q].rang >= ligne[q].rang
      BY DEF Messages, Lignes, Types
    <3> QED BY <2>1, <3>1 DEF Derniere, UnSeul
  <2> QED BY <2>2, <2>3 DEF PorteOuverte
<1> QED BY <1>1, <1>2, <1>3, PTL DEF Spec
==============================================================================
