---------------------------- MODULE FinDeBailProofs ----------------------------
(***************************************************************************)
(* Proofs about FinDeBail, for any number of tenants, sessions, runs of    *)
(* the job and failures.                                                   *)
(***************************************************************************)
EXTENDS FinDeBail, SequenceTheorems, TLAPS

LignesAnnonce ==
  [statut : {"disponible", "bail_envoye", "loue", "loue_termine"},
   locataire : Locataires \cup {Personne}, signe : SUBSET Parties,
   preavis : {"non", "locataire", "proprietaire"}, termine : Ages,
   ancien : Locataires \cup {Personne}, depot : BOOLEAN, averti : BOOLEAN]
Archivages == [locataire : Locataires, recent : BOOLEAN]
Process == [pc : Etapes, locataire : Locataires \cup {Personne},
            recent : BOOLEAN, lu : Nat, rendu : BOOLEAN]

Lignes ==
  /\ annonce \in LignesAnnonce
  /\ roles \subseteq Parties
  /\ edls \subseteq {"entree", "sortie"}
  /\ historique \in Seq(Archivages)
  /\ anciens \in [Locataires -> Nat]
  /\ requete \in [Requetes -> Process]
  /\ pannes \in 0..MaxPannes
  /\ rendus \subseteq Locataires
  /\ envois \subseteq [dest : Locataires, rendu : BOOLEAN]

LEMMA TypeLignes == TypeOK <=> Lignes
BY DEF TypeOK, Lignes, LignesAnnonce, Archivages, Process

(* Past the read that found a tenant, a request has one. *)
AvecLocataire == {"relouerEdl", "relouerDeja", "relouerArchiver", "relouerRemettre",
                  "relouerAnciens", "terminerAnciens", "ecrireAnciens", "depot",
                  "envoyer"}
UnLocataire ==
  \A r \in Requetes :
    requete[r].pc \in AvecLocataire => requete[r].locataire \in Locataires

Base == Lignes /\ UnLocataire

-----------------------------------------------------------------------------
(* What the steps do to the requests.                                      *)

(* The value of a request replaced by another of the right type. *)
LEMMA Remplacer ==
  ASSUME Base, NEW r \in Requetes, NEW p \in Process,
         p.pc \in AvecLocataire => p.locataire \in Locataires,
         requete' = [requete EXCEPT ![r] = p]
  PROVE  /\ requete' \in [Requetes -> Process]
         /\ requete'[r] = p
         /\ \A q \in Requetes \ {r} : requete'[q] = requete[q]
         /\ UnLocataire'
<1>1. requete \in [Requetes -> Process]
  BY DEF Base, Lignes
<1>2. requete' \in [Requetes -> Process]
  BY <1>1
<1>3. requete'[r] = p /\ \A q \in Requetes \ {r} : requete'[q] = requete[q]
  BY <1>1
<1>4. UnLocataire'
  BY <1>3 DEF UnLocataire, Base
<1> QED BY <1>2, <1>3, <1>4

(* Aller changes the step and nothing else. *)
LEMMA AllerEffet ==
  ASSUME Base, NEW r \in Requetes, NEW etape \in Etapes, Aller(r, etape),
         etape \in AvecLocataire => requete[r].locataire \in Locataires
  PROVE  /\ requete' \in [Requetes -> Process]
         /\ requete'[r].pc = etape
         /\ requete'[r].locataire = requete[r].locataire
         /\ \A q \in Requetes \ {r} : requete'[q] = requete[q]
         /\ UnLocataire'
<1> DEFINE p == [requete[r] EXCEPT !.pc = etape]
<1>1. requete[r] \in Process
  BY DEF Base, Lignes
<1>2. p \in Process /\ p.pc = etape /\ p.locataire = requete[r].locataire
  BY <1>1 DEF Process
<1>3. requete' = [requete EXCEPT ![r] = p]
  BY DEF Aller
<1> HIDE DEF p
<1> QED BY <1>2, <1>3, Remplacer

(* A request that ends forgets what it read. *)
LEMMA FinirEffet ==
  ASSUME Base, NEW r \in Requetes, Finir(r)
  PROVE  /\ requete' \in [Requetes -> Process]
         /\ requete'[r] = SansRequete
         /\ \A q \in Requetes \ {r} : requete'[q] = requete[q]
         /\ UnLocataire'
<1>1. SansRequete \in Process /\ SansRequete.pc \notin AvecLocataire
  BY DEF SansRequete, Process, Etapes, AvecLocataire
<1>2. requete' = [requete EXCEPT ![r] = SansRequete]
  BY DEF Finir
<1> QED BY <1>1, <1>2, Remplacer

(* A request that begins holds the tenant it read. *)
LEMMA LireEffet ==
  ASSUME Base, NEW r \in Requetes, NEW etape \in Etapes, Lire(r, etape),
         etape \in AvecLocataire => Loue
  PROVE  /\ requete' \in [Requetes -> Process]
         /\ requete'[r].pc = etape
         /\ requete'[r].locataire = annonce.locataire
         /\ \A q \in Requetes \ {r} : requete'[q] = requete[q]
         /\ UnLocataire'
         /\ UNCHANGED <<annonce, historique, anciens, autres>>
<1> DEFINE p == [SansRequete EXCEPT !.pc = etape, !.locataire = annonce.locataire,
                   !.recent = etape = "relouerEdl"
                                /\ annonce.termine \in {"non", "recent"}]
<1>1. annonce.locataire \in Locataires \cup {Personne}
  BY DEF Base, Lignes, LignesAnnonce
<1>2. p \in Process /\ p.pc = etape /\ p.locataire = annonce.locataire
  BY <1>1 DEF Process, SansRequete, Etapes
<1>3. etape \in AvecLocataire => annonce.locataire \in Locataires
  BY <1>1 DEF Loue
<1>4. requete' = [requete EXCEPT ![r] = p]
  BY DEF Lire
<1>5. UNCHANGED <<annonce, historique, anciens, autres>>
  BY DEF Lire
<1> HIDE DEF p
<1> QED BY <1>2, <1>3, <1>4, <1>5, Remplacer

-----------------------------------------------------------------------------
(* Type correctness.                                                       *)

LEMMA BaseInit == Init => Base
<1> SUFFICES ASSUME Init PROVE Base
  OBVIOUS
<1>1. SansRequete \in Process /\ SansRequete.pc \notin AvecLocataire
  BY DEF SansRequete, Process, Etapes, AvecLocataire
<1>2. requete \in [Requetes -> Process] /\ UnLocataire
  BY <1>1 DEF Init, UnLocataire
<1>3. annonce \in LignesAnnonce
  BY DEF Init, LignesAnnonce, Ages, Parties
<1>4. historique \in Seq(Archivages)
  BY EmptySeq DEF Init
<1>5. pannes \in 0..MaxPannes
  BY FinDeBailHypotheses DEF Init
<1> QED BY <1>2, <1>3, <1>4, <1>5 DEF Init, Base, Lignes

(* The job's read. *)
LEMMA RelanceLireEffet ==
  ASSUME Base, NEW r \in Requetes, RelanceLire(r)
  PROVE  /\ requete' \in [Requetes -> Process]
         /\ requete'[r].pc = "envoyer"
         /\ \A q \in Requetes \ {r} : requete'[q] = requete[q]
         /\ UnLocataire'
<1> DEFINE d == IF Loue THEN annonce.locataire ELSE annonce.ancien
           b == d \in rendus
           p == [SansRequete EXCEPT !.pc = "envoyer", !.locataire = d, !.rendu = b]
<1>1. d \in Locataires
  BY DEF Base, Lignes, LignesAnnonce, RelanceLire, Loue
<1>2. requete' = [requete EXCEPT ![r] = p]
  BY DEF RelanceLire
<1>3. b \in BOOLEAN
  OBVIOUS
<1> HIDE DEF d, b
<1>4. p \in Process /\ p.pc = "envoyer" /\ p.locataire \in Locataires
  BY <1>1, <1>3 DEF Process, SansRequete, Etapes
<1> HIDE DEF p
<1> QED BY <1>2, <1>4, Remplacer

LEMMA BaseArrivee ==
  ASSUME Base, NEW r \in Requetes, Arrivee(r)
  PROVE  Base' /\ UNCHANGED <<annonce, historique, anciens, autres>>
<1>1. CASE \E e \in {"preavis", "preavisAnnuler", "terminer"} : Lire(r, e)
  <2>1. PICK e \in {"preavis", "preavisAnnuler", "terminer"} : Lire(r, e)
    BY <1>1
  <2>2. e \in Etapes /\ e \notin AvecLocataire
    BY DEF Etapes, AvecLocataire
  <2> QED BY <2>1, <2>2, LireEffet DEF Base, Lignes, autres
<1>2. CASE Loue /\ \E e \in {"depot", "relouerEdl"} : Lire(r, e)
  <2>1. PICK e \in {"depot", "relouerEdl"} : Lire(r, e)
    BY <1>2
  <2>2. e \in Etapes /\ Loue
    BY <1>2 DEF Etapes
  <2> QED BY <2>1, <2>2, LireEffet DEF Base, Lignes, autres
<1>3. CASE RelanceLire(r)
  <2>1. UNCHANGED <<annonce, historique, anciens, autres>>
    BY <1>3 DEF RelanceLire
  <2> QED BY <1>3, <2>1, RelanceLireEffet DEF Base, Lignes, autres
<1> QED
  BY <1>1, <1>2, <1>3 DEF Arrivee, PreavisLire, PreavisAnnulerLire, TerminerLire,
                          DepotLire, RelouerLire

(* A request that reads the tenant's list of former homes. *)
LEMMA LireAnciens ==
  ASSUME Base, NEW r \in Requetes, TerminerAnciens(r) \/ RelouerAnciens(r)
  PROVE  /\ requete' \in [Requetes -> Process]
         /\ requete'[r].pc \in {"ecrireAnciens", "attente"}
         /\ \A q \in Requetes \ {r} : requete'[q] = requete[q]
         /\ UnLocataire'
         /\ UNCHANGED <<annonce, historique, anciens, autres>>
<1>1. requete[r] \in Process /\ requete[r].locataire \in Locataires
  BY DEF Base, Lignes, UnLocataire, AvecLocataire, TerminerAnciens, RelouerAnciens
<1>2. anciens[requete[r].locataire] \in Nat
  BY <1>1 DEF Base, Lignes
<1>3. PICK e \in {"ecrireAnciens", "attente"} :
        requete' = [requete EXCEPT ![r] =
          [requete[r] EXCEPT !.pc = e, !.lu = anciens[requete[r].locataire]]]
  <2>1. CASE TerminerAnciens(r)
    BY <2>1 DEF TerminerAnciens
  <2>2. CASE RelouerAnciens(r)
    BY <2>2 DEF RelouerAnciens
  <2> QED BY <2>1, <2>2
<1> DEFINE p == [requete[r] EXCEPT !.pc = e, !.lu = anciens[requete[r].locataire]]
<1>4. p \in Process /\ p.pc = e /\ p.locataire \in Locataires
  BY <1>1, <1>2 DEF Process, Etapes
<1>5. UNCHANGED <<annonce, historique, anciens, autres>>
  BY DEF TerminerAnciens, RelouerAnciens
<1> HIDE DEF p
<1> QED BY <1>3, <1>4, <1>5, Remplacer DEF p

(* The steps that write the annonce keep its type. *)
LEMMA EcrituresType ==
  ASSUME Base, NEW r \in Requetes,
         \/ PreavisEcrire(r) \/ PreavisAnnulerEcrire(r) \/ TerminerEcrire(r)
         \/ DepotEcrire(r) \/ RelouerRemettre(r) \/ RelanceMarquer(r)
  PROVE  annonce' \in LignesAnnonce
<1>1. annonce \in LignesAnnonce /\ requete[r].locataire \in Locataires \cup {Personne}
  BY DEF Base, Lignes, Process
<1> USE <1>1 DEF LignesAnnonce, Ages
<1>2. CASE PreavisEcrire(r)
  BY <1>2 DEF PreavisEcrire, Qui
<1>3. CASE PreavisAnnulerEcrire(r)
  BY <1>3 DEF PreavisAnnulerEcrire
<1>4. CASE TerminerEcrire(r)
  BY <1>4 DEF TerminerEcrire
<1>5. CASE DepotEcrire(r)
  BY <1>5 DEF DepotEcrire
<1>6. CASE RelouerRemettre(r)
  BY <1>6 DEF RelouerRemettre, Parties
<1>7. CASE RelanceMarquer(r)
  BY <1>7 DEF RelanceMarquer
<1> QED BY <1>2, <1>3, <1>4, <1>5, <1>6, <1>7

(* How a request moves: a next step, an end, or a read of the tenant's list. *)
LEMMA TraitementRequete ==
  ASSUME Base, NEW r \in Requetes, Traitement(r)
  PROVE  requete' \in [Requetes -> Process] /\ UnLocataire'
<1>1. CASE Finir(r)
  BY <1>1, FinirEffet
<1>2. CASE TerminerAnciens(r) \/ RelouerAnciens(r)
  BY <1>2, LireAnciens
<1>3. CASE requete[r].pc \in AvecLocataire \cup {"terminer"}
           /\ \E e \in {"relouerDeja", "relouerArchiver", "relouerRemettre",
                        "relouerAnciens", "terminerAnciens", "marquer", "attente"} :
                /\ Aller(r, e)
                /\ requete[r].pc = "terminer" /\ e # "attente"
                     => requete[r].locataire # Personne
  <2>1. PICK e \in {"relouerDeja", "relouerArchiver", "relouerRemettre",
                    "relouerAnciens", "terminerAnciens", "marquer", "attente"} :
          /\ Aller(r, e)
          /\ requete[r].pc = "terminer" /\ e # "attente"
               => requete[r].locataire # Personne
    BY <1>3
  <2>2. e \in Etapes
    BY DEF Etapes
  <2>3. e \in AvecLocataire => requete[r].locataire \in Locataires
    BY <1>3, <2>1 DEF Base, Lignes, Process, UnLocataire, AvecLocataire
  <2> QED BY <2>1, <2>2, <2>3, AllerEffet
<1>4. CASE PreavisEcrire(r) \/ PreavisAnnulerEcrire(r) \/ EcrireAnciens(r)
           \/ DepotEcrire(r) \/ RelanceMarquer(r)
  BY <1>1, <1>4 DEF PreavisEcrire, PreavisAnnulerEcrire, EcrireAnciens,
                    DepotEcrire, RelanceMarquer
<1>5. CASE TerminerEcrire(r)
  BY <1>3, <1>5 DEF TerminerEcrire
<1>6. CASE RelouerEdl(r)
  BY <1>3, <1>6 DEF RelouerEdl, AvecLocataire
<1>7. CASE RelouerDeja(r)
  BY <1>3, <1>7 DEF RelouerDeja, AvecLocataire
<1>8. CASE RelouerArchiver(r)
  BY <1>3, <1>8 DEF RelouerArchiver, AvecLocataire
<1>9. CASE RelouerRemettre(r)
  BY <1>3, <1>9 DEF RelouerRemettre, AvecLocataire
<1>10. CASE RelanceEnvoyer(r)
  BY <1>3, <1>10 DEF RelanceEnvoyer, AvecLocataire
<1> QED
  BY <1>2, <1>4, <1>5, <1>6, <1>7, <1>8, <1>9, <1>10 DEF Traitement

(* An archive is appended for a tenant. *)
LEMMA ArchiverEffet ==
  ASSUME Base, NEW r \in Requetes, RelouerArchiver(r)
  PROVE  /\ historique' \in Seq(Archivages)
         /\ Len(historique') = Len(historique) + 1
         /\ \A i \in DOMAIN historique : i \in DOMAIN historique' /\ historique'[i] = historique[i]
         /\ historique'[Len(historique')].locataire = requete[r].locataire
         /\ DOMAIN historique' = DOMAIN historique \cup {Len(historique')}
<1> DEFINE a == [locataire |-> requete[r].locataire, recent |-> requete[r].recent]
<1>1. a \in Archivages
  BY DEF Base, Lignes, UnLocataire, AvecLocataire, RelouerArchiver, Archivages, Process
<1>2. historique \in Seq(Archivages)
  BY DEF Base, Lignes
<1>3. historique' = Append(historique, a)
  BY DEF RelouerArchiver
<1>4. a.locataire = requete[r].locataire
  OBVIOUS
<1> HIDE DEF a
<1> QED BY <1>1, <1>2, <1>3, <1>4

LEMMA BaseTraitement ==
  ASSUME Base, NEW r \in Requetes, Traitement(r)
  PROVE  Base'
<1>1. requete' \in [Requetes -> Process] /\ UnLocataire'
  BY TraitementRequete
<1> USE DEF Base, Lignes, autres
<1>2. CASE PreavisEcrire(r) \/ PreavisAnnulerEcrire(r) \/ TerminerEcrire(r)
           \/ RelouerRemettre(r) \/ RelanceMarquer(r)
  <2>1. annonce' \in LignesAnnonce
    BY <1>2, EcrituresType
  <2> QED BY <1>1, <1>2, <2>1 DEF PreavisEcrire, PreavisAnnulerEcrire, TerminerEcrire,
                                  RelouerRemettre, RelanceMarquer
<1>3. CASE DepotEcrire(r)
  <2>1. annonce' \in LignesAnnonce
    BY <1>3, EcrituresType
  <2>2. requete[r].locataire \in Locataires
    BY <1>3 DEF UnLocataire, AvecLocataire, DepotEcrire
  <2> QED BY <1>1, <1>3, <2>1, <2>2 DEF DepotEcrire
<1>4. CASE EcrireAnciens(r)
  <2>1. requete[r].lu + 1 \in Nat
    BY DEF Process
  <2> QED BY <1>1, <1>4, <2>1 DEF EcrireAnciens
<1>5. CASE RelouerArchiver(r)
  BY <1>1, <1>5, ArchiverEffet DEF RelouerArchiver
<1>6. CASE RelanceEnvoyer(r)
  <2>1. requete[r].locataire \in Locataires /\ requete[r].rendu \in BOOLEAN
    BY <1>6 DEF UnLocataire, AvecLocataire, RelanceEnvoyer, Process
  <2> QED BY <1>1, <1>6, <2>1 DEF RelanceEnvoyer
<1>7. CASE TerminerAnciens(r) \/ RelouerAnciens(r) \/ RelouerEdl(r) \/ RelouerDeja(r)
  BY <1>1, <1>7 DEF TerminerAnciens, RelouerAnciens, RelouerEdl, RelouerDeja
<1> QED BY <1>2, <1>3, <1>4, <1>5, <1>6, <1>7 DEF Traitement

(* Time passing leaves the rows of the archive where they are. *)
LEMMA VieillirEffet ==
  ASSUME Base, NEW age \in {"jour", "mois"}, Vieillir(age)
  PROVE  /\ historique' \in Seq(Archivages)
         /\ DOMAIN historique' = DOMAIN historique
         /\ \A i \in DOMAIN historique : historique'[i].locataire = historique[i].locataire
         /\ annonce' \in LignesAnnonce
         /\ annonce'.locataire = annonce.locataire
         /\ annonce'.depot = annonce.depot
<1> USE DEF Base, Lignes
<1>1. historique \in Seq(Archivages)
  OBVIOUS
<1>2. Len(historique) \in Nat /\ DOMAIN historique = 1..Len(historique)
  BY <1>1, LenProperties
<1>3. \A i \in DOMAIN historique : historique[i] \in Archivages
  BY <1>1, <1>2, ElementOfSeq
<1>4. historique' = [i \in DOMAIN historique |-> [historique[i] EXCEPT !.recent = FALSE]]
  BY DEF Vieillir
<1>5. /\ DOMAIN historique' = DOMAIN historique
      /\ \A i \in DOMAIN historique :
           /\ historique'[i] \in Archivages
           /\ historique'[i].locataire = historique[i].locataire
  BY <1>3, <1>4 DEF Archivages
<1>6. historique' \in [1..Len(historique) -> Archivages]
  BY <1>2, <1>3, <1>4, <1>5 DEF Archivages
<1>7. historique' \in Seq(Archivages)
  BY <1>2, <1>6, SeqDef
<1>8. /\ annonce' \in LignesAnnonce
      /\ annonce'.locataire = annonce.locataire
      /\ annonce'.depot = annonce.depot
  BY DEF Vieillir, LignesAnnonce, Ages
<1> QED BY <1>5, <1>7, <1>8

(* Leases, signatures, inspections, time and failures. *)
LEMMA BaseAleas ==
  ASSUME Base,
         \/ \E l \in Locataires : NouveauBail(l)
         \/ \E p \in Parties : Signer(p)
         \/ \E t \in {"entree", "sortie"} : ValiderEdl(t)
         \/ \E age \in {"jour", "mois"} : Vieillir(age)
         \/ \E r \in Requetes : Interrompre(r)
  PROVE  Base'
<1> USE DEF Base, Lignes, autres
<1>1. ASSUME NEW l \in Locataires, NouveauBail(l) PROVE Base'
  <2>1. annonce' \in LignesAnnonce
    BY <1>1 DEF NouveauBail, LignesAnnonce, Parties
  <2> QED BY <1>1, <2>1 DEF NouveauBail, UnLocataire
<1>2. ASSUME NEW p \in Parties, Signer(p) PROVE Base'
  <2>1. annonce' \in LignesAnnonce
    BY <1>2 DEF Signer, LignesAnnonce
  <2> QED BY <1>2, <2>1 DEF Signer, UnLocataire
<1>3. ASSUME NEW t \in {"entree", "sortie"}, ValiderEdl(t) PROVE Base'
  BY <1>3 DEF ValiderEdl, UnLocataire
<1>4. ASSUME NEW age \in {"jour", "mois"}, Vieillir(age) PROVE Base'
  BY <1>4, VieillirEffet DEF Vieillir, UnLocataire
<1>5. ASSUME NEW r \in Requetes, Interrompre(r) PROVE Base'
  <2>1. requete' \in [Requetes -> Process] /\ UnLocataire'
    BY <1>5, FinirEffet DEF Interrompre
  <2>2. pannes' \in 0..MaxPannes
    BY <1>5, FinDeBailHypotheses DEF Interrompre
  <2> QED BY <1>5, <2>1, <2>2 DEF Interrompre
<1> QED BY <1>1, <1>2, <1>3, <1>4, <1>5

LEMMA BaseNext == Base /\ [Next]_vars => Base'
<1> SUFFICES ASSUME Base, [Next]_vars PROVE Base'
  OBVIOUS
<1>1. CASE UNCHANGED vars
  BY <1>1 DEF vars, Base, Lignes, UnLocataire
<1>2. CASE Next
  BY <1>2, BaseArrivee, BaseTraitement, BaseAleas DEF Next
<1> QED BY <1>1, <1>2

(* Type correctness: in particular the job never writes to nobody and no request
   touches the list of a tenant that is not there, whatever the annonce has
   become since the request read it. *)
THEOREM FinDeBailTypeCorrect == Spec => []TypeOK
<1>1. Base => TypeOK
  BY TypeLignes DEF Base
<1> QED BY <1>1, BaseInit, BaseNext, PTL DEF Spec
-----------------------------------------------------------------------------
(* The requests of the owner that count on the tenant they have read.       *)

EnCours == {"relouerEdl", "relouerDeja", "relouerArchiver", "relouerRemettre", "depot"}

(* The tenant a request of the owner works for is still the annonce's, unless
   another one has taken it off; and who is about to take it off has written
   its archive. *)
Fonde ==
  \A r \in Requetes :
    requete[r].pc \in EnCours =>
      /\ r \in Bailleurs
      /\ annonce.locataire \in {Personne, requete[r].locataire}
      /\ requete[r].pc = "relouerRemettre" =>
           \E i \in DOMAIN historique : historique[i].locataire = requete[r].locataire

(* An archive of a tenant, once written, is there for ever. *)
ArchivesGardees ==
  \A i \in DOMAIN historique :
    i \in DOMAIN historique' /\ historique'[i].locataire = historique[i].locataire

(* Steps that neither change the tenant nor bring a request to a step that
   counts on it. *)
LEMMA FondeNeutre ==
  ASSUME Fonde, ArchivesGardees,
         annonce'.locataire = annonce.locataire,
         \A q \in Requetes : requete'[q] = requete[q] \/ requete'[q].pc \notin EnCours
  PROVE  Fonde'
<1> SUFFICES ASSUME NEW q \in Requetes, requete'[q].pc \in EnCours
             PROVE  /\ q \in Bailleurs
                    /\ annonce'.locataire \in {Personne, requete'[q].locataire}
                    /\ requete'[q].pc = "relouerRemettre" =>
                         \E i \in DOMAIN historique' :
                           historique'[i].locataire = requete'[q].locataire
  BY DEF Fonde, EnCours
<1>1. requete'[q] = requete[q] /\ requete[q].pc \in EnCours
  OBVIOUS
<1> HIDE DEF EnCours
<1> QED BY <1>1 DEF Fonde, ArchivesGardees

(* A request that moves on, for the same tenant. *)
LEMMA FondeAvance ==
  ASSUME Fonde, ArchivesGardees, NEW r \in Requetes, r \in Bailleurs,
         annonce'.locataire = annonce.locataire,
         \A q \in Requetes \ {r} : requete'[q] = requete[q],
         annonce.locataire \in {Personne, requete'[r].locataire},
         requete'[r].pc = "relouerRemettre" =>
           \E i \in DOMAIN historique' : historique'[i].locataire = requete'[r].locataire
  PROVE  Fonde'
<1> SUFFICES ASSUME NEW q \in Requetes, requete'[q].pc \in EnCours
             PROVE  /\ q \in Bailleurs
                    /\ annonce'.locataire \in {Personne, requete'[q].locataire}
                    /\ requete'[q].pc = "relouerRemettre" =>
                         \E i \in DOMAIN historique' :
                           historique'[i].locataire = requete'[q].locataire
  BY DEF Fonde, EnCours
<1>1. CASE q = r
  BY <1>1
<1>2. CASE q # r
  <2>1. requete'[q] = requete[q]
    BY <1>2
  <2> QED BY <2>1 DEF Fonde, ArchivesGardees
<1> QED BY <1>1, <1>2

(* Most steps touch neither the tenant, the deposit nor the archives, and lead
   no request to a step that counts on them. *)
Neutre ==
  /\ annonce'.locataire = annonce.locataire
  /\ annonce'.depot = annonce.depot
  /\ ArchivesGardees
  /\ DOMAIN historique' = DOMAIN historique
  /\ rendus' = rendus
  /\ \A q \in Requetes : requete'[q] = requete[q] \/ requete'[q].pc \notin EnCours

(* The others are those of the owner's two requests, and the next lease. *)
Decisif(r) ==
  \/ r \in Bailleurs /\ (DepotLire(r) \/ RelouerLire(r))
  \/ RelouerEdl(r) \/ RelouerDeja(r) \/ RelouerArchiver(r) \/ RelouerRemettre(r)
  \/ DepotEcrire(r)

LEMMA HorsEnCours ==
  /\ SansRequete.pc \notin EnCours
  /\ {"preavis", "preavisAnnuler", "terminer", "envoyer", "marquer", "attente",
      "terminerAnciens", "ecrireAnciens", "relouerAnciens"} \cap EnCours = {}
BY DEF SansRequete, EnCours

LEMMA ArriveeNeutre ==
  ASSUME Base, NEW r \in Requetes,
         \/ PreavisLire(r) \/ PreavisAnnulerLire(r) \/ TerminerLire(r) \/ RelanceLire(r)
  PROVE  Neutre
<1>1. CASE \E e \in {"preavis", "preavisAnnuler", "terminer"} : Lire(r, e)
  <2>1. PICK e \in {"preavis", "preavisAnnuler", "terminer"} : Lire(r, e)
    BY <1>1
  <2>2. e \in Etapes /\ e \notin AvecLocataire
    BY DEF Etapes, AvecLocataire
  <2> QED BY <2>1, <2>2, LireEffet, HorsEnCours DEF Neutre, ArchivesGardees, autres
<1>2. CASE RelanceLire(r)
  <2>1. UNCHANGED <<annonce, historique, anciens, autres>>
    BY <1>2 DEF RelanceLire
  <2> QED BY <1>2, <2>1, RelanceLireEffet, HorsEnCours DEF Neutre, ArchivesGardees, autres
<1> QED BY <1>1, <1>2 DEF PreavisLire, PreavisAnnulerLire, TerminerLire

(* The steps of the other requests, and the deaths. *)
LEMMA TraitementNeutre ==
  ASSUME Base, NEW r \in Requetes,
         \/ PreavisEcrire(r) \/ PreavisAnnulerEcrire(r) \/ TerminerEcrire(r)
         \/ TerminerAnciens(r) \/ EcrireAnciens(r) \/ RelouerAnciens(r)
         \/ RelanceEnvoyer(r) \/ RelanceMarquer(r) \/ Interrompre(r)
  PROVE  Neutre
<1>1. requete \in [Requetes -> Process] /\ annonce \in LignesAnnonce
  BY DEF Base, Lignes
<1>2. /\ annonce'.locataire = annonce.locataire
      /\ annonce'.depot = annonce.depot
      /\ historique' = historique
      /\ rendus' = rendus
  BY <1>1 DEF LignesAnnonce, autres, PreavisEcrire, PreavisAnnulerEcrire, TerminerEcrire,
              TerminerAnciens, EcrireAnciens, RelouerAnciens, RelanceEnvoyer,
              RelanceMarquer, Interrompre
<1>3. /\ \A q \in Requetes \ {r} : requete'[q] = requete[q]
      /\ requete'[r].pc \notin EnCours
  <2>1. CASE Finir(r)
    BY <2>1, FinirEffet, HorsEnCours
  <2>2. CASE TerminerAnciens(r) \/ RelouerAnciens(r)
    BY <2>2, LireAnciens, HorsEnCours
  <2>3. CASE \E e \in {"terminerAnciens", "attente", "marquer"} : Aller(r, e)
    BY <1>1, <2>3, HorsEnCours DEF Aller, Process
  <2> QED
    BY <2>1, <2>2, <2>3 DEF PreavisEcrire, PreavisAnnulerEcrire, TerminerEcrire,
          EcrireAnciens, RelanceEnvoyer, RelanceMarquer, Interrompre
<1> QED BY <1>2, <1>3 DEF Neutre, ArchivesGardees

(* Every step is a neutral one, one of the decisive ones, or a new lease. *)
LEMMA Classement ==
  ASSUME Base, [Next]_vars
  PROVE  \/ Neutre
         \/ \E r \in Requetes : Decisif(r)
         \/ \E l \in Locataires : NouveauBail(l)
<1>1. CASE UNCHANGED vars
  BY <1>1 DEF vars, Neutre, ArchivesGardees
<1>2. ASSUME NEW r \in Requetes, Arrivee(r) PROVE Neutre \/ Decisif(r)
  BY <1>2, ArriveeNeutre DEF Arrivee, Decisif
<1>3. ASSUME NEW r \in Requetes, Traitement(r) PROVE Neutre \/ Decisif(r)
  BY <1>3, TraitementNeutre DEF Traitement, Decisif
<1>4. ASSUME NEW r \in Requetes, Interrompre(r) PROVE Neutre
  BY <1>4, TraitementNeutre
<1>5. ASSUME NEW p \in Parties, Signer(p) PROVE Neutre
  BY <1>5 DEF Signer, Neutre, ArchivesGardees, Base, Lignes, LignesAnnonce
<1>6. ASSUME NEW t \in {"entree", "sortie"}, ValiderEdl(t) PROVE Neutre
  BY <1>6 DEF ValiderEdl, Neutre, ArchivesGardees
<1>7. ASSUME NEW age \in {"jour", "mois"}, Vieillir(age) PROVE Neutre
  <2>1. requete' = requete /\ rendus' = rendus
    BY <1>7 DEF Vieillir
  <2> QED BY <1>7, <2>1, VieillirEffet DEF Neutre, ArchivesGardees
<1> QED BY <1>1, <1>2, <1>3, <1>4, <1>5, <1>6, <1>7 DEF Next

(* What the decisive steps do. *)
LEMMA DecisifEffet ==
  ASSUME Base, NEW r \in Requetes, Decisif(r)
  PROVE  /\ ArchivesGardees
         /\ \A q \in Requetes \ {r} : requete'[q] = requete[q]
         /\ ~RelouerRemettre(r) => annonce'.locataire = annonce.locataire
         /\ DepotLire(r) \/ RelouerLire(r) =>
              /\ requete'[r].pc = IF DepotLire(r) THEN "depot" ELSE "relouerEdl"
              /\ requete'[r].locataire = annonce.locataire
         /\ RelouerEdl(r) => requete'[r].pc \in {"relouerDeja", "attente"}
         /\ RelouerDeja(r) => requete'[r].pc \in {"relouerArchiver", "attente"}
         /\ RelouerArchiver(r) => requete'[r].pc = "relouerRemettre"
         /\ RelouerRemettre(r) => requete'[r].pc = "relouerAnciens"
         /\ DepotEcrire(r) => requete'[r].pc = "attente"
         /\ RelouerEdl(r) \/ RelouerDeja(r) \/ RelouerArchiver(r)
              => requete'[r].locataire = requete[r].locataire
<1> USE DEF ArchivesGardees
<1>1. requete \in [Requetes -> Process] /\ annonce \in LignesAnnonce
  BY DEF Base, Lignes
<1>2. requete[r].pc # "attente" => ~DepotLire(r) /\ ~RelouerLire(r)
  BY DEF DepotLire, RelouerLire, Lire
<1>3. CASE DepotLire(r) \/ RelouerLire(r)
  <2>1. PICK e \in {"depot", "relouerEdl"} :
          Lire(r, e) /\ e = IF DepotLire(r) THEN "depot" ELSE "relouerEdl"
    BY <1>3 DEF DepotLire, RelouerLire
  <2>2. requete[r].pc = "attente" /\ Loue
    BY <1>3 DEF DepotLire, RelouerLire, Lire
  <2>3. e \in Etapes
    BY DEF Etapes
  <2>4. UNCHANGED <<annonce, historique>>
    BY <2>1 DEF Lire
  <2>5. /\ requete'[r].pc = e /\ requete'[r].locataire = annonce.locataire
        /\ \A q \in Requetes \ {r} : requete'[q] = requete[q]
    BY <2>1, <2>2, <2>3, LireEffet
  <2>6. /\ ~RelouerEdl(r) /\ ~RelouerDeja(r) /\ ~RelouerArchiver(r)
        /\ ~RelouerRemettre(r) /\ ~DepotEcrire(r)
    BY <2>2 DEF RelouerEdl, RelouerDeja, RelouerArchiver, RelouerRemettre, DepotEcrire
  <2> QED BY <1>3, <2>1, <2>4, <2>5, <2>6
<1>4. CASE RelouerEdl(r) \/ RelouerDeja(r)
  BY <1>1, <1>2, <1>4 DEF RelouerEdl, RelouerDeja, RelouerArchiver, RelouerRemettre,
                          DepotEcrire, Aller, Process
<1>5. CASE RelouerArchiver(r)
  <2>1. ArchivesGardees
    BY <1>5, ArchiverEffet
  <2> QED BY <1>1, <1>2, <1>5, <2>1 DEF RelouerEdl, RelouerDeja, RelouerArchiver,
                          RelouerRemettre, DepotEcrire, Aller, Process
<1>6. CASE RelouerRemettre(r)
  BY <1>1, <1>2, <1>6 DEF RelouerEdl, RelouerDeja, RelouerArchiver, RelouerRemettre,
                          DepotEcrire, Aller, Process
<1>7. CASE DepotEcrire(r)
  <2>1. requete'[r].pc = "attente" /\ \A q \in Requetes \ {r} : requete'[q] = requete[q]
    BY <1>7, FinirEffet DEF DepotEcrire, SansRequete
  <2> QED BY <1>1, <1>2, <1>7, <2>1 DEF RelouerEdl, RelouerDeja, RelouerArchiver,
                          RelouerRemettre, DepotEcrire, LignesAnnonce
<1> QED BY <1>3, <1>4, <1>5, <1>6, <1>7 DEF Decisif

LEMMA FondeNext == Base /\ Fonde /\ [Next]_vars => Fonde'
<1> SUFFICES ASSUME Base, Fonde, [Next]_vars PROVE Fonde'
  OBVIOUS
<1>1. CASE Neutre
  BY <1>1, FondeNeutre DEF Neutre
<1>2. ASSUME NEW l \in Locataires, NouveauBail(l) PROVE Fonde'
  <2>1. \A r \in Requetes : requete[r].pc \notin EnCours
    BY <1>2, HorsEnCours DEF NouveauBail, Fonde
  <2> QED BY <1>2, <2>1 DEF NouveauBail, Fonde
<1>3. ASSUME NEW r \in Requetes, Decisif(r) PROVE Fonde'
  <2>1. /\ ArchivesGardees
        /\ \A q \in Requetes \ {r} : requete'[q] = requete[q]
    BY <1>3, DecisifEffet
  <2>2. requete[r].pc \in EnCours =>
          r \in Bailleurs /\ annonce.locataire \in {Personne, requete[r].locataire}
    BY DEF Fonde
  <2>3. CASE DepotLire(r) \/ RelouerLire(r)
    <3>1. r \in Bailleurs
      <4>1. requete[r].pc = "attente"
        BY <2>3 DEF DepotLire, RelouerLire, Lire
      <4> QED BY <1>3, <4>1 DEF Decisif, RelouerEdl, RelouerDeja, RelouerArchiver,
                                RelouerRemettre, DepotEcrire
    <3>2. annonce' = annonce
      BY <2>3 DEF DepotLire, RelouerLire, Lire
    <3> QED BY <1>3, <2>1, <2>3, <3>1, <3>2, DecisifEffet, FondeAvance
  <2>4. CASE RelouerEdl(r) \/ RelouerDeja(r)
    <3>1. requete[r].pc \in EnCours /\ annonce' = annonce
      BY <2>4 DEF RelouerEdl, RelouerDeja, EnCours
    <3>2. requete'[r].locataire = requete[r].locataire
      BY <1>3, <2>4, DecisifEffet
    <3>3. requete'[r].pc # "relouerRemettre"
      BY <1>3, <2>4, DecisifEffet
    <3> QED BY <2>1, <2>2, <3>1, <3>2, <3>3, FondeAvance
  <2>5. CASE RelouerArchiver(r)
    <3>1. requete[r].pc \in EnCours /\ annonce' = annonce
      BY <2>5 DEF RelouerArchiver, EnCours
    <3>2. requete'[r].locataire = requete[r].locataire
      BY <1>3, <2>5, DecisifEffet
    <3>3. \E i \in DOMAIN historique' : historique'[i].locataire = requete'[r].locataire
      BY <2>5, <3>2, ArchiverEffet
    <3> QED BY <2>1, <2>2, <3>1, <3>2, <3>3, FondeAvance
  <2>6. CASE RelouerRemettre(r)
    <3>1. annonce'.locataire = Personne
      BY <2>6 DEF RelouerRemettre, Base, Lignes, LignesAnnonce
    <3>2. requete'[r].pc \notin EnCours
      BY <1>3, <2>6, DecisifEffet, HorsEnCours
    <3>3. historique' = historique
      BY <2>6 DEF RelouerRemettre
    <3>4. ASSUME NEW q \in Requetes, requete'[q].pc \in EnCours
          PROVE  requete'[q] = requete[q]
      BY <2>1, <3>2, <3>4
    <3> QED BY <3>1, <3>3, <3>4 DEF Fonde
  <2>7. CASE DepotEcrire(r)
    <3>1. annonce'.locataire = annonce.locataire
      BY <2>7 DEF DepotEcrire, Base, Lignes, LignesAnnonce
    <3>2. requete'[r].pc \notin EnCours
      BY <1>3, <2>7, DecisifEffet, HorsEnCours
    <3> QED BY <2>1, <3>1, <3>2, FondeNeutre
  <2> QED BY <1>3, <2>3, <2>4, <2>5, <2>6, <2>7 DEF Decisif
<1> QED BY <1>1, <1>2, <1>3, Classement

(* For any number of sessions, runs of the job and failures, the tenant leaves the
   annonce only once its lease is in historique_baux. *)
THEOREM ArchiveAvant == Spec => ArchiveAvantRemise
<1>1. Init => Base /\ Fonde
  <2>1. Init => Fonde
    BY HorsEnCours DEF Init, Fonde
  <2> QED BY <2>1, BaseInit
<1>2. Base /\ Fonde /\ [Next]_vars => (Base /\ Fonde)'
  BY BaseNext, FondeNext
<1>3. Base /\ Fonde /\ [Next]_vars =>
        [\/ annonce'.locataire = annonce.locataire
         \/ ~Loue \/ Archives(annonce.locataire) # {}]_vars
  <2> SUFFICES ASSUME Base, Fonde, [Next]_vars, Loue,
                      annonce'.locataire # annonce.locataire
               PROVE  Archives(annonce.locataire) # {}
    OBVIOUS
  <2>1. PICK r \in Requetes : RelouerRemettre(r)
    BY Classement, DecisifEffet DEF Neutre, NouveauBail
  <2>2. requete[r].pc = "relouerRemettre"
    BY <2>1 DEF RelouerRemettre
  <2>3. annonce.locataire = requete[r].locataire
    BY <2>2 DEF Fonde, EnCours, Loue
  <2>4. \E i \in DOMAIN historique : historique[i].locataire = requete[r].locataire
    BY <2>2 DEF Fonde, EnCours
  <2> QED BY <2>3, <2>4 DEF Archives
<1> QED BY <1>1, <1>2, <1>3, PTL DEF Spec, ArchiveAvantRemise

-----------------------------------------------------------------------------
(* The deposit of the archived leases.  depot_restitue_at is one column of    *)
(* the annonce: that it speaks of the current lease needs the owner to make   *)
(* one request at a time, as the disabled buttons of one page impose.         *)

SessionUnique == \A b, c \in Bailleurs : b = c

(* V68 #4 of relouer, though depot_restitue_at is one column for all the leases. *)
RestitutionAvantArchive ==
  \A i \in DOMAIN historique : historique[i].locataire \in rendus

Rendu ==
  /\ annonce.depot => annonce.locataire \in rendus
  /\ \A r \in Requetes :
       requete[r].pc = "depot" => annonce.locataire = requete[r].locataire
  /\ \A r \in Requetes :
       requete[r].pc \in {"relouerEdl", "relouerDeja", "relouerArchiver"}
         => requete[r].locataire \in rendus
  /\ RestitutionAvantArchive

LEMMA RenduNeutre ==
  ASSUME Rendu, Neutre
  PROVE  Rendu'
<1>1. (annonce.depot => annonce.locataire \in rendus)'
  BY DEF Rendu, Neutre
<1>2. ASSUME NEW r \in Requetes, requete'[r].pc \in EnCours PROVE requete'[r] = requete[r]
  BY <1>2 DEF Neutre
<1>3. RestitutionAvantArchive'
  BY DEF Rendu, Neutre, RestitutionAvantArchive, ArchivesGardees
<1> QED BY <1>1, <1>2, <1>3 DEF Rendu, Neutre, EnCours

LEMMA RenduBail ==
  ASSUME Base, Fonde, Rendu, NEW l \in Locataires, NouveauBail(l)
  PROVE  Rendu'
<1>1. \A r \in Requetes : requete[r].pc \notin EnCours
  BY HorsEnCours DEF NouveauBail, Fonde
<1>2. ~annonce.depot
  BY FinDeBailHypotheses DEF NouveauBail, Loue, Rendu, Base, Lignes
<1>3. annonce'.depot = annonce.depot
  BY DEF NouveauBail, Base, Lignes, LignesAnnonce
<1>4. UNCHANGED <<historique, requete, rendus>>
  BY DEF NouveauBail, autres
<1> QED BY <1>1, <1>2, <1>3, <1>4 DEF Rendu, RestitutionAvantArchive, EnCours

LEMMA RenduDecisif ==
  ASSUME SessionUnique, Base, Fonde, Rendu, NEW r \in Requetes, Decisif(r)
  PROVE  Rendu'
<1>1. \A q \in Requetes \ {r} : requete'[q] = requete[q]
  BY DecisifEffet
<1>2. annonce \in LignesAnnonce
  BY DEF Base, Lignes
<1>3. CASE DepotLire(r) \/ RelouerLire(r)
  <2>1. UNCHANGED <<annonce, historique, rendus>>
    BY <1>3 DEF DepotLire, RelouerLire, Lire, autres
  <2>2. /\ requete'[r].pc = IF DepotLire(r) THEN "depot" ELSE "relouerEdl"
        /\ requete'[r].locataire = annonce.locataire
    BY <1>3, DecisifEffet
  <2>3. ~DepotLire(r) => annonce.locataire \in rendus
    BY <1>3 DEF RelouerLire, Rendu
  <2> QED BY <1>1, <2>1, <2>2, <2>3 DEF Rendu, RestitutionAvantArchive
<1>4. CASE RelouerEdl(r) \/ RelouerDeja(r)
  <2>1. UNCHANGED <<annonce, historique, rendus>>
    BY <1>4 DEF RelouerEdl, RelouerDeja, autres
  <2>2. /\ requete'[r].pc \in {"relouerDeja", "relouerArchiver", "attente"}
        /\ requete'[r].locataire = requete[r].locataire
    BY <1>4, DecisifEffet
  <2>3. requete[r].locataire \in rendus
    BY <1>4 DEF RelouerEdl, RelouerDeja, Rendu
  <2> QED BY <1>1, <2>1, <2>2, <2>3 DEF Rendu, RestitutionAvantArchive
<1>5. CASE RelouerArchiver(r)
  <2>1. UNCHANGED <<annonce, rendus>>
    BY <1>5 DEF RelouerArchiver, autres
  <2>2. requete'[r].pc = "relouerRemettre"
    BY <1>5, DecisifEffet
  <2>3. requete[r].locataire \in rendus
    BY <1>5 DEF RelouerArchiver, Rendu
  <2>4. RestitutionAvantArchive'
    BY <1>5, <2>1, <2>3, ArchiverEffet DEF RestitutionAvantArchive, Rendu
  <2> QED BY <1>1, <2>1, <2>2, <2>4 DEF Rendu
<1>6. CASE RelouerRemettre(r)
  <2>1. ~annonce'.depot /\ UNCHANGED <<historique, rendus>>
    BY <1>2, <1>6 DEF RelouerRemettre, LignesAnnonce, autres
  <2>2. requete'[r].pc = "relouerAnciens"
    BY <1>6, DecisifEffet
  <2>3. ASSUME NEW q \in Requetes, requete'[q].pc = "depot" PROVE FALSE
    <3>1. q # r /\ requete[q].pc = "depot"
      BY <1>1, <2>2, <2>3
    <3>2. q \in Bailleurs
      BY <3>1 DEF Fonde, EnCours
    <3>3. r \in Bailleurs
      BY <1>6 DEF RelouerRemettre, Fonde, EnCours
    <3> QED BY <3>1, <3>2, <3>3 DEF SessionUnique
  <2> QED BY <1>1, <2>1, <2>2, <2>3 DEF Rendu, RestitutionAvantArchive
<1>7. CASE DepotEcrire(r)
  <2>1. /\ annonce'.locataire = annonce.locataire
        /\ rendus' = rendus \cup {requete[r].locataire}
        /\ historique' = historique
    BY <1>2, <1>7 DEF DepotEcrire, LignesAnnonce
  <2>2. annonce.locataire = requete[r].locataire
    BY <1>7 DEF DepotEcrire, Rendu
  <2>3. requete'[r].pc = "attente"
    BY <1>7, DecisifEffet
  <2> QED BY <1>1, <2>1, <2>2, <2>3 DEF Rendu, RestitutionAvantArchive
<1> QED BY <1>3, <1>4, <1>5, <1>6, <1>7 DEF Decisif

(* With one session of the owner, and any number of leases, tenants' sessions, runs
   of the job and failures, a lease is archived only after its own deposit has
   been returned. *)
THEOREM RestitutionAvant ==
  ASSUME SessionUnique
  PROVE  Spec => []RestitutionAvantArchive
<1> DEFINE I == Base /\ Fonde /\ Rendu
<1>1. Init => I
  <2>1. Init => Fonde
    BY HorsEnCours DEF Init, Fonde
  <2>2. Init => Rendu
    BY DEF Init, Rendu, SansRequete, RestitutionAvantArchive
  <2> QED BY <2>1, <2>2, BaseInit
<1>2. I /\ [Next]_vars => I'
  <2> SUFFICES ASSUME I, [Next]_vars PROVE I'
    OBVIOUS
  <2>1. Rendu'
    BY Classement, RenduNeutre, RenduBail, RenduDecisif
  <2> QED BY <2>1, BaseNext, FondeNext
<1>3. I => RestitutionAvantArchive
  BY DEF Rendu
<1> QED BY <1>1, <1>2, <1>3, PTL DEF Spec

-----------------------------------------------------------------------------
(* FinDeBail implements BauxSuccessifs.  It needs the owner to make one       *)
(* request at a time, as the deposit does: a second relouer, of another tab,  *)
(* would archive a tenant who has left.                                       *)

(* The tenants whose lease is archived. *)
Partis == {historique[i].locataire : i \in DOMAIN historique}

(* A request of the owner works for the tenant in place. *)
EnPlace ==
  \A r \in Requetes :
    requete[r].pc \in EnCours => annonce.locataire = requete[r].locataire

(* Who got the deposit back is in place, or has left through the archive. *)
RendusConnus == rendus \subseteq Partis \cup {annonce.locataire}

LEMMA EnPlaceNext ==
  ASSUME SessionUnique, Base, Fonde, EnPlace, [Next]_vars
  PROVE  EnPlace'
<1>1. CASE Neutre
  <2>1. ASSUME NEW q \in Requetes, requete'[q].pc \in EnCours
        PROVE  requete'[q] = requete[q]
    BY <1>1, <2>1 DEF Neutre
  <2> QED BY <1>1, <2>1 DEF Neutre, EnPlace
<1>2. ASSUME NEW l \in Locataires, NouveauBail(l) PROVE EnPlace'
  <2>1. \A r \in Requetes : requete[r].pc \notin EnCours
    BY <1>2, HorsEnCours DEF NouveauBail, Fonde
  <2> QED BY <1>2, <2>1 DEF NouveauBail, EnPlace
<1>3. ASSUME NEW r \in Requetes, Decisif(r) PROVE EnPlace'
  <2>1. \A q \in Requetes \ {r} : requete'[q] = requete[q]
    BY <1>3, DecisifEffet
  <2>2. CASE RelouerRemettre(r)
    <3>1. requete'[r].pc \notin EnCours
      BY <1>3, <2>2, DecisifEffet, HorsEnCours
    <3>2. r \in Bailleurs
      BY <2>2 DEF RelouerRemettre, Fonde, EnCours
    <3>3. \A q \in Requetes \ {r} : requete'[q].pc \notin EnCours
      BY <2>1, <3>2 DEF Fonde, SessionUnique
    <3> QED BY <3>1, <3>3 DEF EnPlace
  <2>3. CASE ~RelouerRemettre(r)
    <3>1. annonce'.locataire = annonce.locataire
      BY <1>3, <2>3, DecisifEffet
    <3>2. CASE DepotLire(r) \/ RelouerLire(r)
      <4>1. requete'[r].locataire = annonce.locataire
        BY <1>3, <3>2, DecisifEffet
      <4> QED BY <2>1, <3>1, <4>1 DEF EnPlace
    <3>3. CASE RelouerEdl(r) \/ RelouerDeja(r) \/ RelouerArchiver(r)
      <4>1. requete[r].pc \in EnCours
        BY <3>3 DEF RelouerEdl, RelouerDeja, RelouerArchiver, EnCours
      <4>2. requete'[r].locataire = requete[r].locataire
        BY <1>3, <3>3, DecisifEffet
      <4> QED BY <2>1, <3>1, <4>1, <4>2 DEF EnPlace
    <3>4. CASE DepotEcrire(r)
      <4>1. requete'[r].pc \notin EnCours
        BY <1>3, <3>4, DecisifEffet, HorsEnCours
      <4> QED BY <2>1, <3>1, <4>1 DEF EnPlace
    <3> QED BY <1>3, <2>3, <3>2, <3>3, <3>4 DEF Decisif
  <2> QED BY <2>2, <2>3
<1> QED BY <1>1, <1>2, <1>3, Classement

(* The archives of every step but one are those that were there. *)
LEMMA PartisNeutre ==
  ASSUME Neutre
  PROVE  Partis' = Partis
BY DEF Neutre, ArchivesGardees, Partis

LEMMA PartisArchiver ==
  ASSUME Base, NEW r \in Requetes, RelouerArchiver(r)
  PROVE  Partis' = Partis \cup {requete[r].locataire}
BY ArchiverEffet DEF Partis

(* A decisive step is one of the owner's promises kept, or nothing that shows. *)
LEMMA PasDecisif ==
  ASSUME Base, Fonde, Rendu, EnPlace, NEW r \in Requetes, Decisif(r)
  PROVE  [Succession!BSNext]_(Succession!bsVars) /\ (RendusConnus => RendusConnus')
<1> USE DEF Succession!BSNext, Succession!bsVars
<1>0. annonce \in LignesAnnonce /\ annonce.locataire \in Locataires \cup {Personne}
  BY DEF Base, Lignes, LignesAnnonce
<1>1. CASE DepotLire(r) \/ RelouerLire(r) \/ RelouerEdl(r) \/ RelouerDeja(r)
  <2>1. UNCHANGED <<annonce, historique, rendus>>
    BY <1>1 DEF DepotLire, RelouerLire, RelouerEdl, RelouerDeja, Lire, autres
  <2> QED BY <2>1 DEF RendusConnus, Partis
<1>2. CASE DepotEcrire(r)
  <2>1. /\ annonce'.locataire = annonce.locataire
        /\ rendus' = rendus \cup {requete[r].locataire}
        /\ historique' = historique
    BY <1>0, <1>2 DEF DepotEcrire, LignesAnnonce
  <2>2. annonce.locataire = requete[r].locataire
    BY <1>2 DEF DepotEcrire, EnPlace, EnCours
  <2>3. annonce.locataire # Personne
    BY <1>2, <2>2, FinDeBailHypotheses DEF DepotEcrire, Base, UnLocataire, AvecLocataire
  <2>4. Succession!Rendre
    BY <2>1, <2>2, <2>3 DEF Succession!Rendre
  <2> QED BY <2>1, <2>2, <2>4 DEF RendusConnus, Partis
<1>3. CASE RelouerArchiver(r)
  <2>1. UNCHANGED <<annonce, rendus>>
    BY <1>3 DEF RelouerArchiver, autres
  <2>2. annonce.locataire = requete[r].locataire /\ requete[r].locataire \in rendus
    BY <1>3 DEF RelouerArchiver, EnPlace, EnCours, Rendu
  <2>3. Partis' = Partis \cup {annonce.locataire}
    BY <1>3, <2>2, PartisArchiver
  <2>4. Succession!Archiver
    BY <2>1, <2>2, <2>3 DEF Succession!Archiver, Partis
  <2> QED BY <2>1, <2>3, <2>4 DEF RendusConnus
<1>4. CASE RelouerRemettre(r)
  <2>1. annonce'.locataire = Personne /\ UNCHANGED <<historique, rendus>>
    BY <1>0, <1>4 DEF RelouerRemettre, LignesAnnonce, autres
  <2>2. annonce.locataire \in Partis
    BY <1>4 DEF RelouerRemettre, EnPlace, EnCours, Fonde, Partis
  <2>3. Succession!Liberer
    BY <2>1, <2>2 DEF Succession!Liberer, Partis
  <2> QED BY <2>1, <2>2, <2>3 DEF RendusConnus, Partis
<1> QED BY <1>1, <1>2, <1>3, <1>4 DEF Decisif

(* A new lease is one for a tenant who has never had one. *)
LEMMA PasBail ==
  ASSUME Base, RendusConnus, NEW l \in Locataires, NouveauBail(l)
  PROVE  Succession!Occuper(l) /\ RendusConnus'
<1>1. annonce.locataire = Personne /\ annonce'.locataire = l
  BY DEF NouveauBail, Loue, Base, Lignes, LignesAnnonce
<1>2. UNCHANGED <<historique, rendus>>
  BY DEF NouveauBail, autres
<1>3. Personne \notin rendus
  BY FinDeBailHypotheses DEF Base, Lignes
<1>4. rendus \subseteq Partis
  BY <1>1, <1>3 DEF RendusConnus
<1>5. l \notin Partis
  BY DEF NouveauBail, Archives, Partis
<1>6. l \notin rendus \cup Partis
  BY <1>4, <1>5
<1> QED BY <1>1, <1>2, <1>4, <1>6 DEF Succession!Occuper, RendusConnus, Partis

LEMMA SuccessionPas ==
  ASSUME Base, Fonde, Rendu, EnPlace, RendusConnus, [Next]_vars
  PROVE  [Succession!BSNext]_(Succession!bsVars) /\ RendusConnus'
<1>1. CASE Neutre
  <2>1. Partis' = Partis /\ UNCHANGED rendus /\ annonce'.locataire = annonce.locataire
    BY <1>1, PartisNeutre DEF Neutre
  <2> QED BY <2>1 DEF Succession!bsVars, RendusConnus, Partis
<1>2. ASSUME NEW l \in Locataires, NouveauBail(l)
      PROVE  [Succession!BSNext]_(Succession!bsVars) /\ RendusConnus'
  BY <1>2, PasBail DEF Succession!BSNext
<1>3. ASSUME NEW r \in Requetes, Decisif(r)
      PROVE  [Succession!BSNext]_(Succession!bsVars) /\ RendusConnus'
  BY <1>3, PasDecisif
<1> QED BY <1>1, <1>2, <1>3, Classement

(* With one session of the owner, and any number of tenants, jobs and failures, the
   leases of an annonce follow one another as BauxSuccessifs says: the deposit, the
   archive, the annonce free, the next lease, in this order for every tenant. *)
THEOREM Successifs ==
  ASSUME SessionUnique
  PROVE  Spec => SuccessionSafe
<1> DEFINE I == Base /\ Fonde /\ Rendu /\ EnPlace /\ RendusConnus
<1>1. Init => I /\ Succession!BSInit
  <2> SUFFICES ASSUME Init PROVE I /\ Succession!BSInit
    OBVIOUS
  <2>1. Fonde /\ EnPlace
    BY HorsEnCours DEF Init, Fonde, EnPlace
  <2>2. Rendu /\ RendusConnus
    BY DEF Init, Rendu, RendusConnus, SansRequete, RestitutionAvantArchive
  <2>3. Succession!BSInit
    BY DEF Init, Succession!BSInit
  <2> QED BY <2>1, <2>2, <2>3, BaseInit
<1>2. I /\ [Next]_vars => I' /\ [Succession!BSNext]_(Succession!bsVars)
  <2> SUFFICES ASSUME I, [Next]_vars
               PROVE  I' /\ [Succession!BSNext]_(Succession!bsVars)
    OBVIOUS
  <2>1. Rendu'
    BY Classement, RenduNeutre, RenduBail, RenduDecisif
  <2>2. Base' /\ Fonde' /\ EnPlace'
    BY BaseNext, FondeNext, EnPlaceNext
  <2>3. RendusConnus' /\ [Succession!BSNext]_(Succession!bsVars)
    BY SuccessionPas
  <2> QED BY <2>1, <2>2, <2>3
<1> QED BY <1>1, <1>2, PTL DEF Spec, SuccessionSafe, Succession!BSSafeSpec

-----------------------------------------------------------------------------
(* What is archived is let go.                                             *)

Suite == {"relouerRemettre", "relouerAnciens", "ecrireAnciens"}

(* As long as nothing has failed, the request that archived a tenant is still on
   its way to what relouer has left to do for that tenant. *)
ArchivesSuivies ==
  pannes = 0 =>
    \A i \in DOMAIN historique :
      LET l == historique[i].locataire IN
      /\ \/ annonce.locataire # l
         \/ \E r \in Requetes : requete[r].pc = "relouerRemettre"
                                /\ requete[r].locataire = l
      /\ \/ anciens[l] > 0
         \/ \E r \in Requetes : requete[r].pc \in Suite /\ requete[r].locataire = l

LEMMA SuiviesMaintien ==
  ASSUME ArchivesSuivies, pannes' = pannes, anciens' = anciens,
         annonce'.locataire = annonce.locataire,
         DOMAIN historique' = DOMAIN historique,
         \A i \in DOMAIN historique : historique'[i].locataire = historique[i].locataire,
         \A q \in Requetes : requete[q].pc \in Suite => requete'[q] = requete[q]
  PROVE  ArchivesSuivies'
<1> SUFFICES ASSUME pannes = 0, NEW i \in DOMAIN historique
             PROVE  LET l == historique[i].locataire IN
                    /\ \/ annonce'.locataire # l
                       \/ \E r \in Requetes : requete'[r].pc = "relouerRemettre"
                                              /\ requete'[r].locataire = l
                    /\ \/ anciens'[l] > 0
                       \/ \E r \in Requetes : requete'[r].pc \in Suite
                                              /\ requete'[r].locataire = l
  BY DEF ArchivesSuivies
<1> DEFINE l == historique[i].locataire
<1>1. \/ annonce.locataire # l
      \/ \E r \in Requetes : requete[r].pc = "relouerRemettre" /\ requete[r].locataire = l
  BY DEF ArchivesSuivies
<1>2. \/ anciens[l] > 0
      \/ \E r \in Requetes : requete[r].pc \in Suite /\ requete[r].locataire = l
  BY DEF ArchivesSuivies
<1>3. "relouerRemettre" \in Suite
  BY DEF Suite
<1> QED BY <1>1, <1>2, <1>3

(* The steps of a request with nothing left to do for an archive. *)
LEMMA SuiviesAutres ==
  ASSUME Base, ArchivesSuivies, NEW r \in Requetes,
         \/ Arrivee(r)
         \/ PreavisEcrire(r) \/ PreavisAnnulerEcrire(r) \/ TerminerEcrire(r)
         \/ TerminerAnciens(r) \/ DepotEcrire(r) \/ RelouerEdl(r) \/ RelouerDeja(r)
         \/ RelanceEnvoyer(r) \/ RelanceMarquer(r)
  PROVE  ArchivesSuivies'
<1>1. requete \in [Requetes -> Process] /\ annonce \in LignesAnnonce
  BY DEF Base, Lignes
<1>2. CASE Arrivee(r)
  <2>1. requete[r].pc = "attente"
    BY <1>2 DEF Arrivee, PreavisLire, PreavisAnnulerLire, TerminerLire, DepotLire,
                RelouerLire, RelanceLire, Lire
  <2>2. \E p : requete' = [requete EXCEPT ![r] = p]
    BY <1>2 DEF Arrivee, PreavisLire, PreavisAnnulerLire, TerminerLire, DepotLire,
                RelouerLire, RelanceLire, Lire
  <2>3. \A q \in Requetes : requete[q].pc \in Suite => requete'[q] = requete[q]
    BY <1>1, <2>1, <2>2 DEF Suite
  <2> QED BY <1>2, <2>3, BaseArrivee, SuiviesMaintien DEF autres
<1>3. CASE ~Arrivee(r)
  <2>1. requete[r].pc \notin Suite
    BY <1>3 DEF PreavisEcrire, PreavisAnnulerEcrire, TerminerEcrire, TerminerAnciens,
                DepotEcrire, RelouerEdl, RelouerDeja, RelanceEnvoyer, RelanceMarquer, Suite
  <2>2. \E p : requete' = [requete EXCEPT ![r] = p]
    BY <1>3 DEF PreavisEcrire, PreavisAnnulerEcrire, TerminerEcrire, TerminerAnciens,
                DepotEcrire, RelouerEdl, RelouerDeja, RelanceEnvoyer, RelanceMarquer,
                Aller, Finir
  <2>3. \A q \in Requetes : requete[q].pc \in Suite => requete'[q] = requete[q]
    BY <1>1, <2>1, <2>2
  <2>4. /\ annonce'.locataire = annonce.locataire
        /\ UNCHANGED <<historique, anciens, pannes>>
    BY <1>1, <1>3 DEF PreavisEcrire, PreavisAnnulerEcrire, TerminerEcrire,
                TerminerAnciens, DepotEcrire, RelouerEdl, RelouerDeja, RelanceEnvoyer,
                RelanceMarquer, LignesAnnonce, autres
  <2> QED BY <2>3, <2>4, SuiviesMaintien
<1> QED BY <1>2, <1>3

LEMMA SuiviesArchiver ==
  ASSUME Base, ArchivesSuivies, NEW r \in Requetes, RelouerArchiver(r)
  PROVE  ArchivesSuivies'
<1>1. requete \in [Requetes -> Process]
  BY DEF Base, Lignes
<1>2. /\ requete[r].pc = "relouerArchiver" /\ Aller(r, "relouerRemettre")
      /\ UNCHANGED <<annonce, anciens, pannes>>
  BY DEF RelouerArchiver, autres
<1>3. /\ requete'[r].pc = "relouerRemettre"
      /\ requete'[r].locataire = requete[r].locataire
      /\ \A q \in Requetes \ {r} : requete'[q] = requete[q]
  BY <1>1, <1>2 DEF Aller, Process
<1>4. /\ \A i \in DOMAIN historique : historique'[i] = historique[i]
      /\ historique'[Len(historique')].locataire = requete[r].locataire
      /\ DOMAIN historique' = DOMAIN historique \cup {Len(historique')}
  BY ArchiverEffet
<1>5. "relouerArchiver" \notin Suite /\ "relouerRemettre" \in Suite
  BY DEF Suite
<1>6. ASSUME pannes = 0, NEW i \in DOMAIN historique'
      PROVE  LET l == historique'[i].locataire IN
             /\ \/ annonce'.locataire # l
                \/ \E q \in Requetes : requete'[q].pc = "relouerRemettre"
                                       /\ requete'[q].locataire = l
             /\ \/ anciens'[l] > 0
                \/ \E q \in Requetes : requete'[q].pc \in Suite /\ requete'[q].locataire = l
  <2> DEFINE l == historique'[i].locataire
  <2>1. CASE l = requete[r].locataire
    BY <1>3, <1>5, <2>1
  <2>2. CASE l # requete[r].locataire
    <3>1. i \in DOMAIN historique /\ historique[i].locataire = l
      BY <1>4, <1>6, <2>2
    <3>2. \/ annonce.locataire # l
          \/ \E q \in Requetes : requete[q].pc = "relouerRemettre"
                                 /\ requete[q].locataire = l
      BY <1>6, <3>1 DEF ArchivesSuivies
    <3>3. \/ anciens[l] > 0
          \/ \E q \in Requetes : requete[q].pc \in Suite /\ requete[q].locataire = l
      BY <1>6, <3>1 DEF ArchivesSuivies
    <3> HIDE DEF l
    <3>4. \/ annonce'.locataire # l
          \/ \E q \in Requetes : requete'[q].pc = "relouerRemettre"
                                 /\ requete'[q].locataire = l
      BY <1>2, <1>3, <1>5, <3>2
    <3>5. \/ anciens'[l] > 0
          \/ \E q \in Requetes : requete'[q].pc \in Suite /\ requete'[q].locataire = l
      BY <1>2, <1>3, <1>5, <3>3
    <3> QED BY <3>4, <3>5 DEF l
  <2> QED BY <2>1, <2>2
<1> QED BY <1>2, <1>6 DEF ArchivesSuivies

LEMMA SuiviesRelouer ==
  ASSUME Base, ArchivesSuivies, NEW r \in Requetes,
         RelouerRemettre(r) \/ RelouerAnciens(r) \/ EcrireAnciens(r)
  PROVE  ArchivesSuivies'
<1>1. /\ requete \in [Requetes -> Process] /\ annonce \in LignesAnnonce
      /\ anciens \in [Locataires -> Nat]
      /\ historique \in Seq(Archivages)
  BY DEF Base, Lignes
<1>2. /\ UNCHANGED <<historique, pannes>>
      /\ requete[r].locataire \in Locataires
  BY DEF RelouerRemettre, RelouerAnciens, EcrireAnciens, autres, Base, UnLocataire,
         AvecLocataire
<1>3. \A q \in Requetes \ {r} : requete'[q] = requete[q]
  BY <1>1 DEF RelouerRemettre, RelouerAnciens, EcrireAnciens, Aller, Finir
<1>4. ASSUME pannes = 0, NEW i \in DOMAIN historique
      PROVE  LET l == historique[i].locataire IN
             /\ \/ annonce'.locataire # l
                \/ \E q \in Requetes : requete'[q].pc = "relouerRemettre"
                                       /\ requete'[q].locataire = l
             /\ \/ anciens'[l] > 0
                \/ \E q \in Requetes : requete'[q].pc \in Suite /\ requete'[q].locataire = l
  <2> DEFINE l == historique[i].locataire
  <2>1. historique[i] \in Archivages
    BY <1>1, <1>4, ElementOfSeq, LenProperties
  <2>2. l \in Locataires
    BY <2>1 DEF Archivages
  <2>3. /\ \/ annonce.locataire # l
           \/ \E q \in Requetes : requete[q].pc = "relouerRemettre"
                                  /\ requete[q].locataire = l
        /\ \/ anciens[l] > 0
           \/ \E q \in Requetes : requete[q].pc \in Suite /\ requete[q].locataire = l
    BY <1>4 DEF ArchivesSuivies
  <2> HIDE DEF l
  <2>4. CASE RelouerRemettre(r)
    <3>1. annonce'.locataire = Personne /\ anciens' = anciens
      BY <1>1, <2>4 DEF RelouerRemettre, LignesAnnonce
    <3>2. requete'[r].pc = "relouerAnciens" /\ requete'[r].locataire = requete[r].locataire
      BY <1>1, <2>4 DEF RelouerRemettre, Aller, Process
    <3>3. annonce'.locataire # l
      BY <2>2, <3>1, FinDeBailHypotheses
    <3>4. "relouerAnciens" \in Suite
      BY DEF Suite
    <3>5. \/ anciens'[l] > 0
          \/ \E q \in Requetes : requete'[q].pc \in Suite /\ requete'[q].locataire = l
      BY <1>3, <2>3, <3>1, <3>2, <3>4
    <3> QED BY <3>3, <3>5 DEF l
  <2>5. CASE RelouerAnciens(r)
    <3>1. annonce' = annonce /\ anciens' = anciens /\ requete[r].pc = "relouerAnciens"
      BY <2>5 DEF RelouerAnciens
    <3>2. requete'[r].pc = "ecrireAnciens" /\ requete'[r].locataire = requete[r].locataire
      BY <1>1, <2>5 DEF RelouerAnciens, Process
    <3>3. "ecrireAnciens" \in Suite
      BY DEF Suite
    <3>4. \/ annonce'.locataire # l
          \/ \E q \in Requetes : requete'[q].pc = "relouerRemettre"
                                 /\ requete'[q].locataire = l
      BY <1>3, <2>3, <3>1
    <3>5. \/ anciens'[l] > 0
          \/ \E q \in Requetes : requete'[q].pc \in Suite /\ requete'[q].locataire = l
      BY <1>3, <2>3, <3>1, <3>2, <3>3
    <3> QED BY <3>4, <3>5 DEF l
  <2>6. CASE EcrireAnciens(r)
    <3>1. annonce' = annonce /\ requete[r].pc = "ecrireAnciens"
      BY <2>6 DEF EcrireAnciens
    <3>2. requete[r].lu \in Nat
      BY <1>1 DEF Process
    <3>3. anciens'[l] = IF l = requete[r].locataire THEN requete[r].lu + 1 ELSE anciens[l]
      BY <1>1, <2>2, <2>6 DEF EcrireAnciens
    <3>4. \/ annonce'.locataire # l
          \/ \E q \in Requetes : requete'[q].pc = "relouerRemettre"
                                 /\ requete'[q].locataire = l
      BY <1>3, <2>3, <3>1
    <3>5. CASE l = requete[r].locataire
      BY <3>2, <3>3, <3>4, <3>5 DEF l
    <3>6. CASE l # requete[r].locataire
      <4>1. \/ anciens'[l] > 0
            \/ \E q \in Requetes : requete'[q].pc \in Suite /\ requete'[q].locataire = l
        BY <1>3, <2>3, <3>3, <3>6
      <4> QED BY <3>4, <4>1 DEF l
    <3> QED BY <3>5, <3>6
  <2> QED BY <2>4, <2>5, <2>6
<1> QED BY <1>2, <1>4 DEF ArchivesSuivies

LEMMA SuiviesNext ==
  ASSUME Base, ArchivesSuivies, [Next]_vars
  PROVE  ArchivesSuivies'
<1>1. ASSUME NEW r \in Requetes, Interrompre(r) PROVE ArchivesSuivies'
  <2>1. pannes' # 0
    BY <1>1, FinDeBailHypotheses DEF Interrompre, Base, Lignes
  <2> QED BY <2>1 DEF ArchivesSuivies
<1>2. ASSUME NEW l \in Locataires, NouveauBail(l) PROVE ArchivesSuivies'
  <2>1. /\ UNCHANGED <<historique, anciens, requete, pannes>>
        /\ annonce'.locataire = l /\ Archives(l) = {}
    BY <1>2 DEF NouveauBail, autres, Base, Lignes, LignesAnnonce
  <2>2. \A i \in DOMAIN historique : historique[i].locataire # l
    BY <2>1 DEF Archives
  <2> QED BY <2>1, <2>2 DEF ArchivesSuivies
<1>3. ASSUME NEW p \in Parties, Signer(p) PROVE ArchivesSuivies'
  BY <1>3, SuiviesMaintien DEF Signer, Base, Lignes, LignesAnnonce
<1>4. ASSUME NEW t \in {"entree", "sortie"}, ValiderEdl(t) PROVE ArchivesSuivies'
  BY <1>4, SuiviesMaintien DEF ValiderEdl
<1>5. ASSUME NEW age \in {"jour", "mois"}, Vieillir(age) PROVE ArchivesSuivies'
  <2>1. UNCHANGED <<requete, anciens, pannes>>
    BY <1>5 DEF Vieillir
  <2> QED BY <1>5, <2>1, VieillirEffet, SuiviesMaintien
<1>6. CASE UNCHANGED vars
  BY <1>6, SuiviesMaintien DEF vars
<1> QED BY <1>1, <1>2, <1>3, <1>4, <1>5, <1>6, SuiviesAutres, SuiviesArchiver,
           SuiviesRelouer DEF Next, Traitement

(* With no failure, and any number of sessions, what is archived is finished: the
   tenant leaves the annonce and finds it among the former homes. *)
THEOREM Archivees == Spec => []ArchiveAboutit
<1>1. Init => Base /\ ArchivesSuivies
  BY BaseInit DEF Init, ArchivesSuivies
<1>2. Base /\ ArchivesSuivies /\ [Next]_vars => (Base /\ ArchivesSuivies)'
  BY BaseNext, SuiviesNext
<1>3. ArchivesSuivies => ArchiveAboutit
  BY DEF ArchivesSuivies, ArchiveAboutit, Repos, Suite
<1> QED BY <1>1, <1>2, <1>3, PTL DEF Spec
==============================================================================
