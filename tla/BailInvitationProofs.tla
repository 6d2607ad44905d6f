------------------------- MODULE BailInvitationProofs -------------------------
(***************************************************************************)
(* Proofs about BailInvitation, for any number of annonces, tenants,       *)
(* tokens, requests and failures.                                          *)
(***************************************************************************)
EXTENDS BailInvitation, TLAPS

LignesAnnonce == [source : Sources, statut : {"disponible", "loue"},
                  locataire : Locataires \cup {Personne},
                  signe : BOOLEAN, installe : BOOLEAN]
LignesInvitation == [statut : Statuts, echue : BOOLEAN, croisee : BOOLEAN,
                     annonce : Annonces, locataire : Locataires]
Process == [pc : Etapes, annonce : Annonces, locataire : Locataires, token : Tokens]

LEMMA TypeLignes ==
  TypeOK <=> /\ annonce \in [Annonces -> LignesAnnonce]
             /\ invitation \in [Tokens -> LignesInvitation]
             /\ messages \in [Tokens -> [carte : Nat, refus : Nat]]
             /\ dossier \in [Annonces -> [loyers : Nat, edl : Nat]]
             /\ requete \in [Requetes -> Process]
             /\ pannes \in 0..MaxPannes
BY DEF TypeOK, LignesAnnonce, LignesInvitation, Process

-----------------------------------------------------------------------------
(* Type correctness.                                                       *)

LEMMA AllerType ==
  ASSUME TypeOK, NEW r \in Requetes, NEW e \in Etapes, Aller(r, e)
  PROVE  requete' \in [Requetes -> Process]
BY TypeLignes DEF Aller, Process

LEMMA RequeteType ==
  ASSUME TypeOK, NEW r \in Requetes
  PROVE  /\ requete[r].annonce \in Annonces
         /\ requete[r].locataire \in Locataires
         /\ requete[r].token \in Tokens
BY DEF TypeOK

LEMMA InsererType ==
  ASSUME TypeOK, NEW r \in Requetes, NEW t \in Tokens, Inserer(r, t)
  PROVE  invitation' \in [Tokens -> LignesInvitation]
BY DEF Inserer, TypeOK, LignesInvitation, Statuts

LEMMA TypeInit == Init => TypeOK
<1> SUFFICES ASSUME Init PROVE TypeOK
  OBVIOUS
<1> USE InvitationHypotheses DEF Init
<1>1. Depart \in Process
  BY DEF Depart, Process, Etapes
<1>2. requete \in [Requetes -> Process]
  BY <1>1
<1>3. annonce \in [Annonces -> LignesAnnonce]
  BY DEF AnnonceVierge, LignesAnnonce, Sources
<1>4. Depart.annonce \in Annonces /\ Depart.locataire \in Locataires
  BY <1>1 DEF Process
<1>5. invitation \in [Tokens -> LignesInvitation]
  BY <1>4 DEF LignesInvitation, Statuts
<1>6. messages \in [Tokens -> [carte : Nat, refus : Nat]]
  OBVIOUS
<1>7. dossier \in [Annonces -> [loyers : Nat, edl : Nat]]
  OBVIOUS
<1>8. pannes \in 0..MaxPannes
  OBVIOUS
<1> QED BY <1>2, <1>3, <1>5, <1>6, <1>7, <1>8, TypeLignes

LEMMA TypeArrivee ==
  ASSUME TypeOK, NEW r \in Requetes, Arrivee(r)
  PROVE  TypeOK'
<1>0. requete \in [Requetes -> Process] /\ requete[r] \in Process
  BY TypeLignes
<1>1. ASSUME NEW a \in Annonces, NEW l \in Locataires, CreerLire(r, a, l)
      PROVE  TypeOK'
  <2>1. requete' \in [Requetes -> Process]
    BY <1>0, <1>1 DEF CreerLire, Process, Etapes
  <2> QED BY <1>1, <2>1, TypeLignes DEF CreerLire, TypeOK, Process
<1>2. ASSUME NEW l \in Locataires, ImporterVerifier(r, l)
      PROVE  TypeOK'
  <2>1. requete' = [requete EXCEPT ![r] =
          [@ EXCEPT !.pc = "importerAnnonce", !.locataire = l]]
    BY <1>2 DEF ImporterVerifier
  <2>2. requete' \in [Requetes -> Process]
    BY <1>0, <2>1 DEF Process, Etapes
  <2>3. UNCHANGED <<annonce, invitation, messages, dossier, pannes>>
    BY <1>2 DEF ImporterVerifier
  <2> QED BY <2>2, <2>3 DEF TypeOK, Process
<1>3. ASSUME NEW t \in Tokens, NEW e \in Etapes, Repondre(r, t, e)
      PROVE  TypeOK'
  <2>1. requete' \in [Requetes -> Process]
    BY <1>0, <1>3 DEF Repondre, TypeOK, Process, Etapes
  <2> QED BY <1>3, <2>1 DEF Repondre, TypeOK, Process
<1>4. "accepterMarquer" \in Etapes /\ "refuserMarquer" \in Etapes
  BY DEF Etapes
<1> QED BY <1>1, <1>2, <1>3, <1>4 DEF Arrivee

LEMMA TypeCreation ==
  ASSUME TypeOK, NEW r \in Requetes,
         \/ CreerVerifier(r) \/ CreerInserer(r)
         \/ \E i \in BOOLEAN : ImporterAnnonce(r, i)
         \/ ImporterInserer(r) \/ ImporterNettoyer(r)
  PROVE  TypeOK'
<1>1. CASE CreerVerifier(r)
  <2>1. requete' \in [Requetes -> Process]
    BY <1>1, AllerType DEF CreerVerifier, Etapes
  <2> QED BY <1>1, <2>1 DEF CreerVerifier, TypeOK, Process
<1>2. CASE CreerInserer(r)
  <2>1. requete' \in [Requetes -> Process]
    BY <1>2, AllerType DEF CreerInserer, Etapes
  <2>2. invitation' \in [Tokens -> LignesInvitation]
    BY <1>2, InsererType, TypeLignes DEF CreerInserer
  <2> QED BY <1>2, <2>1, <2>2 DEF CreerInserer, TypeOK, Process, LignesInvitation
<1>3. CASE \E i \in BOOLEAN : ImporterAnnonce(r, i)
  <2>1. PICK i \in BOOLEAN, a \in Annonces :
          /\ annonce' = [annonce EXCEPT ![a] =
               AnnonceVierge("imported_pending", "loue", i)]
          /\ requete' = [requete EXCEPT ![r] =
               [@ EXCEPT !.pc = "importerInserer", !.annonce = a]]
    BY <1>3 DEF ImporterAnnonce
  <2>2. requete' \in [Requetes -> Process]
    BY <2>1 DEF TypeOK, Process, Etapes
  <2>3. annonce' \in [Annonces -> LignesAnnonce]
    <3>1. AnnonceVierge("imported_pending", "loue", i) \in LignesAnnonce
      BY DEF AnnonceVierge, LignesAnnonce, Sources
    <3> QED BY <2>1, <3>1, TypeLignes
  <2> QED BY <1>3, <2>2, <2>3, TypeLignes DEF ImporterAnnonce, TypeOK, Process, LignesAnnonce
<1>4. CASE ImporterInserer(r)
  <2>1. requete' \in [Requetes -> Process]
    BY <1>4, AllerType DEF ImporterInserer, Etapes
  <2>2. invitation' \in [Tokens -> LignesInvitation]
    BY <1>4, InsererType, TypeLignes DEF ImporterInserer
  <2> QED BY <1>4, <2>1, <2>2 DEF ImporterInserer, TypeOK, Process, LignesInvitation
<1>5. CASE ImporterNettoyer(r)
  <2>1. requete' \in [Requetes -> Process]
    BY <1>5, AllerType DEF ImporterNettoyer, Etapes
  <2>2. annonce' \in [Annonces -> LignesAnnonce]
    <3>1. PICK a \in Annonces : a = requete[r].annonce
      BY RequeteType
    <3>2. annonce' = [annonce EXCEPT ![a].source = "supprimee"]
      BY <1>5, <3>1 DEF ImporterNettoyer
    <3> QED BY <3>2, TypeLignes DEF LignesAnnonce, Sources
  <2> QED BY <1>5, <2>1, <2>2 DEF ImporterNettoyer, TypeOK, Process, LignesAnnonce
<1> QED BY <1>1, <1>2, <1>3, <1>4, <1>5

LEMMA MarquerType ==
  ASSUME TypeOK, NEW r \in Requetes, NEW s \in Statuts, Marquer(r, s)
  PROVE  invitation' \in [Tokens -> LignesInvitation]
<1>1. PICK t \in Tokens : t = requete[r].token
  BY RequeteType
<1>2. /\ [invitation[t] EXCEPT !.statut = s] \in LignesInvitation
      /\ [invitation[t] EXCEPT !.croisee = TRUE] \in LignesInvitation
  BY TypeLignes DEF LignesInvitation
<1> QED BY <1>1, <1>2, TypeLignes DEF Marquer

LEMMA TypeReponse ==
  ASSUME TypeOK, NEW r \in Requetes,
         \/ Expirer(r) \/ AccepterMarquer(r) \/ AccepterLier(r)
         \/ LoyersLire(r) \/ LoyersEcrire(r) \/ EdlLire(r) \/ EdlEcrire(r)
         \/ PosterCarte(r) \/ RefuserMarquer(r) \/ RefuserPoster(r)
  PROVE  TypeOK'
<1>0. requete' \in [Requetes -> Process]
  BY AllerType DEF Expirer, AccepterMarquer, AccepterLier, LoyersLire,
     LoyersEcrire, EdlLire, EdlEcrire, PosterCarte, RefuserMarquer,
     RefuserPoster, Etapes
<1>1. CASE Expirer(r)
  <2>1. invitation' \in [Tokens -> LignesInvitation]
    <3>1. PICK t \in Tokens : t = requete[r].token
      BY RequeteType
    <3> DEFINE n == [invitation[t] EXCEPT !.statut = "expired",
                       !.croisee = invitation[t].croisee \/ invitation[t].statut # "pending"]
    <3>2. invitation' = [invitation EXCEPT ![t] = n]
      BY <1>1, <3>1, Zenon DEF Expirer
    <3>3. invitation[t] \in LignesInvitation
      BY TypeLignes
    <3>4. n \in LignesInvitation
      BY <3>3 DEF LignesInvitation, Statuts
    <3> HIDE DEF n
    <3> QED BY <3>2, <3>4, TypeLignes
  <2> QED BY <1>0, <1>1, <2>1 DEF Expirer, TypeOK, Process, LignesInvitation
<1>2. CASE AccepterMarquer(r) \/ RefuserMarquer(r)
  <2>1. invitation' \in [Tokens -> LignesInvitation]
    BY <1>2, MarquerType DEF AccepterMarquer, RefuserMarquer, Statuts
  <2> QED BY <1>0, <1>2, <2>1
          DEF AccepterMarquer, RefuserMarquer, TypeOK, Process, LignesInvitation
<1>3. CASE AccepterLier(r)
  <2>1. annonce' \in [Annonces -> LignesAnnonce]
    <3> DEFINE a == requete[r].annonce
               n == [annonce[a] EXCEPT !.source = "imported",
                       !.locataire = requete[r].locataire, !.signe = TRUE]
    <3>1. annonce[a] \in LignesAnnonce /\ requete[r].locataire \in Locataires
      BY DEF TypeOK, LignesAnnonce
    <3>2. n \in LignesAnnonce
      BY <3>1 DEF LignesAnnonce, Sources
    <3>3. annonce' = [annonce EXCEPT ![a] = n]
      BY <1>3, Zenon DEF AccepterLier
    <3> HIDE DEF n
    <3> QED BY <3>2, <3>3, TypeLignes
  <2> QED BY <1>0, <1>3, <2>1 DEF AccepterLier, TypeOK, Process, LignesAnnonce
<1>4. CASE LoyersLire(r) \/ EdlLire(r)
  BY <1>0, <1>4 DEF LoyersLire, EdlLire, TypeOK, Process
<1>5. CASE LoyersEcrire(r) \/ EdlEcrire(r)
  <2>1. dossier' \in [Annonces -> [loyers : Nat, edl : Nat]]
    <3>1. PICK a \in Annonces : a = requete[r].annonce
      BY RequeteType
    <3>2. \/ dossier' = [dossier EXCEPT ![a].loyers = @ + 1]
          \/ dossier' = [dossier EXCEPT ![a].edl = @ + 1]
      BY <1>5, <3>1 DEF LoyersEcrire, EdlEcrire
    <3> QED BY <3>2, TypeLignes
  <2> QED BY <1>0, <1>5, <2>1 DEF LoyersEcrire, EdlEcrire, TypeOK, Process
<1>6. CASE PosterCarte(r) \/ RefuserPoster(r)
  <2>1. messages' \in [Tokens -> [carte : Nat, refus : Nat]]
    <3>1. PICK t \in Tokens : t = requete[r].token
      BY RequeteType
    <3>2. \/ messages' = [messages EXCEPT ![t].carte = @ + 1]
          \/ messages' = [messages EXCEPT ![t].refus = @ + 1]
      BY <1>6, <3>1 DEF PosterCarte, RefuserPoster
    <3> QED BY <3>2, TypeLignes
  <2> QED BY <1>0, <1>6, <2>1 DEF PosterCarte, RefuserPoster, TypeOK, Process
<1> QED BY <1>1, <1>2, <1>3, <1>4, <1>5, <1>6

LEMMA TypeAleas ==
  ASSUME TypeOK, NEW r \in Requetes, ErreurIgnoree(r) \/ Interrompre(r)
  PROVE  TypeOK'
<1>1. requete' \in [Requetes -> Process]
  BY AllerType DEF ErreurIgnoree, EcrituresPerdues, Interrompre, Etapes
<1>2. pannes' \in 0..MaxPannes
  BY InvitationHypotheses DEF ErreurIgnoree, Interrompre, TypeOK
<1> QED BY <1>1, <1>2 DEF ErreurIgnoree, Interrompre, TypeOK, Process

LEMMA TypeNext ==
  ASSUME TypeOK, [Next]_vars
  PROVE  TypeOK'
<1>1. ASSUME NEW r \in Requetes, Traitement(r) PROVE TypeOK'
  BY <1>1, TypeCreation, TypeReponse DEF Traitement
<1>2. ASSUME NEW t \in Tokens, Echoir(t) PROVE TypeOK'
  BY <1>2 DEF Echoir, TypeOK
<1>3. CASE UNCHANGED vars
  BY <1>3 DEF vars, TypeOK
<1> QED BY <1>1, <1>2, <1>3, TypeArrivee, TypeAleas DEF Next

(* Every variable keeps its type. *)
THEOREM InvitationTypeCorrect == Spec => []TypeOK
BY TypeInit, TypeNext, PTL DEF Spec

-----------------------------------------------------------------------------
(* What a step may do to the invitations.                                  *)

Creee(t) == invitation[t].statut # "absente"
Repondue(t) == invitation[t].statut \notin {"absente", "pending"}

(* A row once inserted keeps its annonce and its recipient; an answer is not
   taken back, and can only be overwritten by "expired". *)
Monotone(t) ==
  /\ Creee(t) => /\ Creee(t)'
                 /\ invitation'[t].annonce = invitation[t].annonce
                 /\ invitation'[t].locataire = invitation[t].locataire
  /\ Repondue(t) => invitation'[t].statut \in {invitation[t].statut, "expired"}
  /\ Acceptee(t) => Acceptee(t)'

(* Only the two insertions make a row pending. *)
SansInsertion ==
  \A t \in Tokens :
    /\ Creee(t)' => Creee(t)
    /\ invitation'[t].statut = "pending" => invitation[t].statut = "pending"

(* The invitation that one of the two insertions adds for request r. *)
Insertion(r, t) ==
  /\ invitation[t].statut = "absente"
  /\ invitation'[t].statut = "pending"
  /\ invitation'[t].annonce = requete[r].annonce
  /\ invitation'[t].locataire = requete[r].locataire
  /\ \A u \in Tokens \ {t} : invitation'[u] = invitation[u]

LEMMA InsererEffet ==
  ASSUME TypeOK, NEW r \in Requetes, NEW t \in Tokens, Inserer(r, t)
  PROVE  Insertion(r, t)
BY TypeLignes DEF Inserer, Insertion

LEMMA InsertionMonotone ==
  ASSUME NEW r \in Requetes, NEW t \in Tokens, Insertion(r, t)
  PROVE  \A u \in Tokens : Monotone(u)
BY DEF Insertion, Monotone, Creee, Repondue, Acceptee

(* A step that writes the statut of one row, without inserting it. *)
LEMMA StatutEffet ==
  ASSUME TypeOK, NEW t \in Tokens, NEW ligne \in LignesInvitation, Creee(t),
         ligne.annonce = invitation[t].annonce,
         ligne.locataire = invitation[t].locataire,
         ligne.statut \in {"accepted", "declined", "expired"},
         \/ invitation[t].statut = "pending"
         \/ ligne.croisee /\ ligne.statut \in {invitation[t].statut, "expired"},
         invitation' = [invitation EXCEPT ![t] = ligne]
  PROVE  SansInsertion /\ \A u \in Tokens : Monotone(u)
<1>1. /\ invitation'[t] = ligne
      /\ \A u \in Tokens \ {t} : invitation'[u] = invitation[u]
  BY TypeLignes
<1> QED BY <1>1 DEF SansInsertion, Monotone, Creee, Repondue, Acceptee

LEMMA Inchangees ==
  ASSUME UNCHANGED invitation
  PROVE  SansInsertion /\ \A u \in Tokens : Monotone(u)
BY DEF SansInsertion, Monotone, Creee, Repondue, Acceptee

-----------------------------------------------------------------------------
(* The inductive invariant.                                                *)

(* A request answering a token holds the data of the token's row, which by the
   time the annonce is linked has been accepted. *)
ReponsesFondees ==
  \A r \in Requetes :
    /\ requete[r].pc \in {"accepterMarquer", "refuserMarquer", "expirer", "accepterLier"}
         => /\ Creee(requete[r].token)
            /\ invitation[requete[r].token].annonce = requete[r].annonce
            /\ invitation[requete[r].token].locataire = requete[r].locataire
    /\ requete[r].pc = "accepterLier" => Acceptee(requete[r].token)

(* from-annonce works on published annonces only: those of an import are off
   the market from the start. *)
MarcheSepare ==
  /\ \A a \in Publiees : annonce[a].source # "libre"
  /\ \A a \in Annonces \ Publiees :
       annonce[a].source = "libre" \/ annonce[a].statut = "loue"
  /\ \A r \in Requetes :
       /\ requete[r].pc \in {"creerVerifier", "creerInserer"}
            => requete[r].annonce \in Publiees
       /\ requete[r].pc = "importerNettoyer"
            => annonce[requete[r].annonce].source # "libre"

(* The annonce an import has just created is its own until its invitation is
   inserted. *)
ImportsReserves ==
  /\ \A a \in Annonces : annonce[a].source = "libre" =>
       \A t \in Tokens : Creee(t) => invitation[t].annonce # a
  /\ \A r \in Requetes : requete[r].pc = "importerInserer" =>
       /\ requete[r].annonce \in Annonces \ Publiees
       /\ annonce[requete[r].annonce].source # "libre"
       /\ \A t \in Tokens : Creee(t) => invitation[t].annonce # requete[r].annonce
       /\ \A q \in Requetes \ {r} : requete[q].pc = "importerInserer"
            => requete[q].annonce # requete[r].annonce

IInv ==
  /\ ReponsesFondees
  /\ MarcheSepare
  /\ ImportsReserves
  /\ UneSeuleEnAttente
  /\ BailImporteInvite

LEMMA InvInit == Init => IInv
<1> SUFFICES ASSUME Init PROVE IInv
  OBVIOUS
<1> USE InvitationHypotheses DEF Init
<1>1. \A r \in Requetes : requete[r].pc = "attente"
  BY DEF Depart
<1>2. \A t \in Tokens : ~Creee(t)
  BY DEF Creee
<1>3. MarcheSepare
  BY <1>1 DEF MarcheSepare, AnnonceVierge
<1>4. BailImporteInvite
  BY DEF BailImporteInvite, AnnonceVierge, Acceptee
<1>5. UneSeuleEnAttente
  BY <1>2 DEF UneSeuleEnAttente, Creee
<1> QED BY <1>1, <1>2, <1>3, <1>4, <1>5 DEF IInv, ReponsesFondees, ImportsReserves

(* What becomes of the other requests when one moves. *)
LEMMA AutresRequetes ==
  ASSUME TypeOK, NEW r \in Requetes, NEW e \in Etapes, Aller(r, e)
  PROVE  /\ \A q \in Requetes \ {r} : requete'[q] = requete[q]
         /\ requete'[r].pc = e
         /\ requete'[r].annonce = requete[r].annonce
         /\ requete'[r].locataire = requete[r].locataire
         /\ requete'[r].token = requete[r].token
BY TypeLignes DEF Aller, Process

(* Steps that write neither the annonces nor the invitations, and that bring
   the request to none of the states the invariant speaks of, unless it was in
   a like state already. *)
LEMMA InvAilleurs ==
  ASSUME TypeOK, IInv, UNCHANGED <<annonce, invitation>>,
         NEW r \in Requetes, NEW e \in Etapes, Aller(r, e),
         \/ e \notin {"accepterMarquer", "refuserMarquer", "expirer",
                      "accepterLier", "creerVerifier", "creerInserer",
                      "importerInserer", "importerNettoyer"}
         \/ e = "creerInserer" /\ requete[r].pc = "creerVerifier"
         \/ e = "importerNettoyer" /\ requete[r].pc = "importerInserer"
  PROVE  IInv'
<1>1. \A t \in Tokens : (Creee(t)' <=> Creee(t)) /\ (Acceptee(t)' <=> Acceptee(t))
  BY DEF Creee, Repondue, Acceptee
<1>2. ReponsesFondees'
  BY <1>1, AutresRequetes, RequeteType DEF IInv, ReponsesFondees
<1>3. MarcheSepare'
  BY AutresRequetes DEF IInv, MarcheSepare, ImportsReserves
<1>4. ImportsReserves'
  BY <1>1, AutresRequetes DEF IInv, ImportsReserves
<1> QED BY <1>2, <1>3, <1>4 DEF IInv, UneSeuleEnAttente, BailImporteInvite, Acceptee

(* The insertion of an invitation, by either creator. *)
LEMMA InvInsertion ==
  ASSUME TypeOK, IInv, NEW r \in Requetes, NEW t \in Tokens,
         Insertion(r, t), Aller(r, "fini"), UNCHANGED annonce,
         \/ requete[r].pc = "creerInserer" /\ EnAttente(requete[r].annonce) = {}
         \/ requete[r].pc = "importerInserer"
  PROVE  IInv'
<1> DEFINE a == requete[r].annonce
<1>0. /\ \A q \in Requetes \ {r} : requete'[q] = requete[q]
      /\ requete'[r].pc = "fini"
  BY AutresRequetes DEF Etapes
<1>1. \A u \in Tokens : Monotone(u)
  BY InsertionMonotone
<1>2. /\ \A u \in Tokens \ {t} : (Creee(u)' <=> Creee(u)) /\ (Acceptee(u)' <=> Acceptee(u))
      /\ Creee(t)' /\ ~Creee(t) /\ ~Acceptee(t)'
  BY DEF Insertion, Creee, Repondue, Acceptee
<1>3. annonce[a].source # "libre" /\ a \in Annonces
  BY RequeteType DEF IInv, MarcheSepare, ImportsReserves
<1>4. \A u \in Tokens : invitation[u].statut = "pending" => invitation[u].annonce # a
  BY DEF IInv, ImportsReserves, EnAttente, Creee
<1>5. ReponsesFondees'
  BY <1>0, <1>1, <1>2, RequeteType DEF IInv, ReponsesFondees, Insertion
<1>6. MarcheSepare'
  BY <1>0 DEF IInv, MarcheSepare
<1>7. ImportsReserves'
  <2>1. ASSUME NEW b \in Annonces, annonce[b].source = "libre",
               NEW u \in Tokens, Creee(u)'
        PROVE  invitation'[u].annonce # b
    BY <1>2, <1>3, <2>1 DEF IInv, ImportsReserves, Insertion
  <2>2. ASSUME NEW q \in Requetes \ {r}, requete[q].pc = "importerInserer",
               NEW u \in Tokens, Creee(u)'
        PROVE  invitation'[u].annonce # requete[q].annonce
    <3>1. requete[q].annonce # a
      BY <2>2 DEF IInv, ImportsReserves, MarcheSepare
    <3> QED BY <1>2, <2>2, <3>1 DEF IInv, ImportsReserves, Insertion
  <2> QED BY <1>0, <2>1, <2>2 DEF IInv, ImportsReserves
<1>8. UneSeuleEnAttente'
  BY <1>4 DEF IInv, UneSeuleEnAttente, Insertion
<1>9. BailImporteInvite'
  BY <1>1, <1>2 DEF IInv, BailImporteInvite, Insertion, Creee, Acceptee
<1> QED BY <1>5, <1>6, <1>7, <1>8, <1>9 DEF IInv

(* A step that overwrites the statut of one invitation, or none. *)
LEMMA InvStatut ==
  ASSUME TypeOK, IInv, NEW r \in Requetes, UNCHANGED annonce,
         SansInsertion, \A u \in Tokens : Monotone(u),
         \/ Aller(r, "fini")
         \/ Aller(r, "refuserPoster")
         \/ /\ Aller(r, "accepterLier")
            /\ requete[r].pc = "accepterMarquer"
            /\ Acceptee(requete[r].token)'
  PROVE  IInv'
<1>0. /\ \A q \in Requetes \ {r} : requete'[q] = requete[q]
      /\ requete'[r] # requete[r] =>
           /\ requete'[r].pc \in {"fini", "refuserPoster", "accepterLier"}
           /\ requete'[r].pc = "accepterLier" =>
                /\ requete[r].pc = "accepterMarquer"
                /\ Acceptee(requete[r].token)'
           /\ requete'[r].annonce = requete[r].annonce
           /\ requete'[r].locataire = requete[r].locataire
           /\ requete'[r].token = requete[r].token
  BY AutresRequetes DEF Etapes
<1>1. \A u \in Tokens :
        /\ Creee(u)' <=> Creee(u)
        /\ Acceptee(u) => Acceptee(u)'
        /\ Creee(u) => invitation'[u].annonce = invitation[u].annonce
  <2> SUFFICES ASSUME NEW u \in Tokens
               PROVE  /\ Creee(u)' <=> Creee(u)
                      /\ Acceptee(u) => Acceptee(u)'
                      /\ Creee(u) => invitation'[u].annonce = invitation[u].annonce
    OBVIOUS
  <2>1. Monotone(u)
    OBVIOUS
  <2>2. Creee(u)' => Creee(u)
    BY DEF SansInsertion, Creee
  <2>3. Acceptee(u) => Acceptee(u)'
    BY <2>1 DEF Monotone, Repondue, Acceptee
  <2>4. Creee(u) => Creee(u)' /\ invitation'[u].annonce = invitation[u].annonce
    BY <2>1 DEF Monotone, Creee
  <2> QED BY <2>2, <2>3, <2>4
<1>2. ReponsesFondees'
  <2> SUFFICES ASSUME NEW q \in Requetes,
                 requete'[q].pc \in {"accepterMarquer", "refuserMarquer",
                                    "expirer", "accepterLier"}
        PROVE  /\ Creee(requete[q].token)'
               /\ invitation'[requete'[q].token].annonce = requete'[q].annonce
               /\ invitation'[requete'[q].token].locataire = requete'[q].locataire
               /\ requete'[q].pc = "accepterLier" => Acceptee(requete[q].token)'
    BY DEF ReponsesFondees, Creee, Repondue, Acceptee
  <2>1. /\ requete'[q].token = requete[q].token
        /\ requete'[q].annonce = requete[q].annonce
        /\ requete'[q].locataire = requete[q].locataire
        /\ requete[q].pc \in {"accepterMarquer", "refuserMarquer", "expirer",
                              "accepterLier"}
        /\ requete'[q].pc = "accepterLier" =>
             \/ requete[q].pc = "accepterLier"
             \/ Acceptee(requete[q].token)'
    BY <1>0
  <2>2. /\ Creee(requete[q].token)
        /\ invitation[requete[q].token].annonce = requete[q].annonce
        /\ invitation[requete[q].token].locataire = requete[q].locataire
        /\ requete[q].pc = "accepterLier" => Acceptee(requete[q].token)
        /\ requete[q].token \in Tokens
    BY <2>1, RequeteType DEF IInv, ReponsesFondees
  <2> QED BY <2>1, <2>2, <1>1 DEF Monotone, Creee, Repondue, Acceptee
<1>3. MarcheSepare'
  BY <1>0 DEF IInv, MarcheSepare
<1>4. ImportsReserves'
  BY <1>0, <1>1 DEF IInv, ImportsReserves
<1>5. UneSeuleEnAttente'
  <2>1. ASSUME NEW t \in Tokens, NEW u \in Tokens,
               invitation'[t].statut = "pending", invitation'[u].statut = "pending",
               invitation'[t].annonce = invitation'[u].annonce
        PROVE  t = u
    <3>1. Creee(t) /\ Creee(u)
      BY <2>1, <1>1 DEF Creee
    <3> QED BY <2>1, <3>1, <1>1 DEF IInv, UneSeuleEnAttente, SansInsertion
  <2> QED BY <2>1 DEF UneSeuleEnAttente
<1>6. BailImporteInvite'
  BY <1>1 DEF IInv, BailImporteInvite, Monotone, Creee, Repondue, Acceptee
<1> QED BY <1>2, <1>3, <1>4, <1>5, <1>6 DEF IInv

(* The same, when no request moves. *)
LEMMA InvSansRequete ==
  ASSUME TypeOK, IInv, UNCHANGED <<annonce, requete>>,
         SansInsertion, \A u \in Tokens : Monotone(u)
  PROVE  IInv'
<1>1. \A u \in Tokens :
        /\ Creee(u)' <=> Creee(u)
        /\ Acceptee(u) => Acceptee(u)'
        /\ Creee(u) => /\ invitation'[u].annonce = invitation[u].annonce
                       /\ invitation'[u].locataire = invitation[u].locataire
  BY DEF SansInsertion, Monotone, Creee, Repondue, Acceptee
<1>2. ReponsesFondees'
  BY <1>1, RequeteType DEF IInv, ReponsesFondees
<1>3. UneSeuleEnAttente'
  <2>1. ASSUME NEW t \in Tokens, NEW u \in Tokens,
               invitation'[t].statut = "pending", invitation'[u].statut = "pending",
               invitation'[t].annonce = invitation'[u].annonce
        PROVE  t = u
    BY <2>1, <1>1 DEF IInv, UneSeuleEnAttente, SansInsertion, Creee
  <2> QED BY <2>1 DEF UneSeuleEnAttente
<1>4. ImportsReserves'
  BY <1>1 DEF IInv, ImportsReserves
<1>5. BailImporteInvite'
  BY <1>1 DEF IInv, BailImporteInvite, Creee, Repondue, Acceptee
<1> QED BY <1>2, <1>3, <1>4, <1>5 DEF IInv, MarcheSepare

(* The arrival of a request: it copies what it reads. *)
LEMMA InvArrivee ==
  ASSUME TypeOK, IInv, NEW r \in Requetes, Arrivee(r)
  PROVE  IInv'
<1>0. UNCHANGED <<annonce, invitation>>
  BY DEF Arrivee, CreerLire, ImporterVerifier, Repondre
<1>1. \A t \in Tokens : (Creee(t)' <=> Creee(t)) /\ (Acceptee(t)' <=> Acceptee(t))
  BY <1>0 DEF Creee, Repondue, Acceptee
<1>2. /\ \A q \in Requetes \ {r} : requete'[q] = requete[q]
      /\ \/ /\ requete'[r].pc = "creerVerifier"
            /\ requete'[r].annonce \in Publiees
         \/ requete'[r].pc = "importerAnnonce"
         \/ /\ requete'[r].pc \in {"accepterMarquer", "refuserMarquer", "expirer"}
            /\ requete'[r].token \in Tokens
            /\ invitation[requete'[r].token].statut = "pending"
            /\ invitation[requete'[r].token].annonce = requete'[r].annonce
            /\ invitation[requete'[r].token].locataire = requete'[r].locataire
  <2>1. ASSUME NEW a \in Annonces, NEW l \in Locataires, CreerLire(r, a, l)
        PROVE  <1>2!:
    <3>1. a \in Publiees
      BY <2>1 DEF IInv, MarcheSepare, CreerLire
    <3>2. /\ \A q \in Requetes \ {r} : requete'[q] = requete[q]
          /\ requete'[r] = [requete[r] EXCEPT !.pc = "creerVerifier",
                                             !.annonce = a, !.locataire = l]
      BY <2>1, TypeLignes DEF CreerLire
    <3>3. requete'[r].pc = "creerVerifier" /\ requete'[r].annonce = a
      BY <3>2, TypeLignes DEF Process
    <3> QED BY <3>1, <3>2, <3>3
  <2>2. ASSUME NEW l \in Locataires, ImporterVerifier(r, l)
        PROVE  <1>2!:
    <3>1. /\ \A q \in Requetes \ {r} : requete'[q] = requete[q]
          /\ requete'[r] = [requete[r] EXCEPT !.pc = "importerAnnonce", !.locataire = l]
      BY <2>2, TypeLignes DEF ImporterVerifier
    <3>2. requete'[r].pc = "importerAnnonce"
      BY <3>1, TypeLignes DEF Process
    <3> QED BY <3>1, <3>2
  <2>3. ASSUME NEW t \in Tokens, NEW e \in {"accepterMarquer", "refuserMarquer"},
               Repondre(r, t, e)
        PROVE  <1>2!:
    BY <2>3, TypeLignes DEF Repondre
  <2> QED BY <2>1, <2>2, <2>3 DEF Arrivee
<1>3. ReponsesFondees'
  BY <1>0, <1>1, <1>2 DEF IInv, ReponsesFondees, Creee, Repondue, Acceptee
<1>4. MarcheSepare'
  BY <1>0, <1>2 DEF IInv, MarcheSepare
<1>5. ImportsReserves'
  BY <1>0, <1>1, <1>2 DEF IInv, ImportsReserves
<1> QED BY <1>0, <1>3, <1>4, <1>5 DEF IInv, UneSeuleEnAttente, BailImporteInvite, Acceptee

(* The annonce an import creates is one that nothing refers to. *)
LEMMA InvImporterAnnonce ==
  ASSUME TypeOK, IInv, NEW r \in Requetes, NEW i \in BOOLEAN, ImporterAnnonce(r, i)
  PROVE  IInv'
<1>1. PICK a \in Annonces \ Publiees :
        /\ annonce[a].source = "libre"
        /\ annonce' = [annonce EXCEPT ![a] =
             AnnonceVierge("imported_pending", "loue", i)]
        /\ requete' = [requete EXCEPT ![r] =
             [@ EXCEPT !.pc = "importerInserer", !.annonce = a]]
  BY DEF ImporterAnnonce
<1>2. UNCHANGED invitation
  BY DEF ImporterAnnonce
<1>3. \A t \in Tokens : (Creee(t)' <=> Creee(t)) /\ (Acceptee(t)' <=> Acceptee(t))
  BY <1>2 DEF Creee, Repondue, Acceptee
<1>4. /\ \A b \in Annonces \ {a} : annonce'[b] = annonce[b]
      /\ annonce'[a].source = "imported_pending"
      /\ annonce'[a].statut = "loue" /\ annonce'[a].signe = FALSE
  BY <1>1, TypeLignes DEF AnnonceVierge
<1>5. /\ \A q \in Requetes \ {r} : requete'[q] = requete[q]
      /\ requete'[r].pc = "importerInserer" /\ requete'[r].annonce = a
  BY <1>1, TypeLignes DEF Process
<1>6. ReponsesFondees'
  BY <1>2, <1>3, <1>5, RequeteType DEF IInv, ReponsesFondees
<1>7. MarcheSepare'
  BY <1>1, <1>4, <1>5, InvitationHypotheses DEF IInv, MarcheSepare
<1>8. ImportsReserves'
  <2>1. ASSUME NEW b \in Annonces, annonce'[b].source = "libre",
               NEW t \in Tokens, Creee(t)
        PROVE  invitation[t].annonce # b
    BY <1>4, <2>1 DEF IInv, ImportsReserves
  <2>2. \A t \in Tokens : Creee(t) => invitation[t].annonce # a
    BY <1>1 DEF IInv, ImportsReserves
  <2>3. ASSUME NEW q \in Requetes \ {r}, requete[q].pc = "importerInserer"
        PROVE  requete[q].annonce # a
    BY <1>1, <2>3 DEF IInv, ImportsReserves
  <2>4. ASSUME NEW q \in Requetes, requete'[q].pc = "importerInserer"
        PROVE  /\ requete'[q].annonce \in Annonces \ Publiees
               /\ annonce'[requete'[q].annonce].source # "libre"
               /\ \A t \in Tokens : Creee(t) => invitation[t].annonce # requete'[q].annonce
               /\ \A p \in Requetes \ {q} : requete'[p].pc = "importerInserer"
                    => requete'[p].annonce # requete'[q].annonce
    <3>1. CASE q = r
      BY <1>4, <1>5, <2>2, <2>3, <3>1
    <3>2. CASE q # r
      BY <1>4, <1>5, <2>3, <2>4, <3>2 DEF IInv, ImportsReserves
    <3> QED BY <3>1, <3>2
  <2> QED BY <1>2, <1>3, <2>1, <2>4 DEF ImportsReserves
<1>9. BailImporteInvite'
  BY <1>2, <1>4 DEF IInv, BailImporteInvite, Acceptee
<1> QED BY <1>2, <1>6, <1>7, <1>8, <1>9 DEF IInv, UneSeuleEnAttente

(* Both work on an annonce that exists. *)
LEMMA AnnonceConnue ==
  ASSUME TypeOK, IInv, NEW r \in Requetes, ImporterNettoyer(r) \/ AccepterLier(r)
  PROVE  annonce[requete[r].annonce].source # "libre"
<1>1. CASE ImporterNettoyer(r)
  BY <1>1 DEF ImporterNettoyer, IInv, MarcheSepare
<1>2. CASE AccepterLier(r)
  BY <1>2, RequeteType DEF AccepterLier, IInv, ReponsesFondees, ImportsReserves
<1> QED BY <1>1, <1>2

(* The cleanup and the link change the annonce of the request, not its place
   on the market; the link signs for the recipient of an answered invitation. *)
LEMMA InvAnnonce ==
  ASSUME TypeOK, IInv, NEW r \in Requetes, ImporterNettoyer(r) \/ AccepterLier(r)
  PROVE  IInv'
<1> DEFINE a == requete[r].annonce
<1>1. UNCHANGED invitation
  BY DEF ImporterNettoyer, AccepterLier
<1>2. \A t \in Tokens : (Creee(t)' <=> Creee(t)) /\ (Acceptee(t)' <=> Acceptee(t))
  BY <1>1 DEF Creee, Repondue, Acceptee
<1>3. PICK e \in {"fini", "loyersLire", "carte"} : Aller(r, e)
  BY DEF ImporterNettoyer, AccepterLier
<1>4. /\ \A q \in Requetes \ {r} : requete'[q] = requete[q]
      /\ requete'[r].pc = e
  BY <1>3, AutresRequetes DEF Etapes
<1>5. a \in Annonces
  BY RequeteType
<1>6. /\ \A b \in Annonces \ {a} : annonce'[b] = annonce[b]
      /\ annonce'[a].statut = annonce[a].statut
      /\ annonce'[a].source # "libre"
      /\ \/ annonce'[a].signe = annonce[a].signe
            /\ annonce'[a].locataire = annonce[a].locataire
         \/ requete[r].pc = "accepterLier" /\ annonce'[a].locataire = requete[r].locataire
  <2>1. CASE ImporterNettoyer(r)
    <3>1. annonce' = [annonce EXCEPT ![a].source = "supprimee"]
      BY <2>1 DEF ImporterNettoyer
    <3> QED BY <1>5, <3>1, TypeLignes DEF LignesAnnonce
  <2>2. CASE AccepterLier(r)
    <3> DEFINE n == [annonce[a] EXCEPT !.source = "imported",
                       !.locataire = requete[r].locataire, !.signe = TRUE]
    <3>1. annonce' = [annonce EXCEPT ![a] = n]
      BY <2>2, Zenon DEF AccepterLier
    <3>2. annonce[a] \in LignesAnnonce
      BY <1>5, TypeLignes
    <3>3. /\ n.source = "imported" /\ n.statut = annonce[a].statut
          /\ n.locataire = requete[r].locataire
      BY <3>2 DEF LignesAnnonce
    <3>4. requete[r].pc = "accepterLier"
      BY <2>2 DEF AccepterLier
    <3> HIDE DEF n
    <3> QED BY <1>5, <3>1, <3>3, <3>4, TypeLignes
  <2> QED BY <2>1, <2>2
<1>7. ReponsesFondees'
  BY <1>1, <1>2, <1>4, RequeteType DEF IInv, ReponsesFondees
<1>8. MarcheSepare'
  <2>1. \A b \in Annonces : /\ annonce'[b].source = "libre" => annonce[b].source = "libre"
                            /\ annonce'[b].statut = annonce[b].statut
    BY <1>5, <1>6
  <2>2. \A b \in Publiees : annonce'[b].source # "libre"
    BY <2>1, InvitationHypotheses DEF IInv, MarcheSepare
  <2>3. ASSUME NEW b \in Annonces \ Publiees
        PROVE  annonce'[b].source = "libre" \/ annonce'[b].statut = "loue"
    <3>1. CASE b # a
      BY <1>6, <3>1 DEF IInv, MarcheSepare
    <3>2. CASE b = a
      <4>1. annonce[a].source # "libre"
        BY <1>5, AnnonceConnue
      <4> QED BY <2>1, <3>2, <4>1 DEF IInv, MarcheSepare
    <3> QED BY <3>1, <3>2
  <2>4. ASSUME NEW q \in Requetes
        PROVE  /\ requete'[q].pc \in {"creerVerifier", "creerInserer"}
                    => requete'[q].annonce \in Publiees
               /\ requete'[q].pc = "importerNettoyer"
                    => annonce'[requete'[q].annonce].source # "libre"
    BY <1>4, <2>1, RequeteType DEF IInv, MarcheSepare
  <2> QED BY <2>2, <2>3, <2>4 DEF MarcheSepare
<1>9. ImportsReserves'
  BY <1>1, <1>2, <1>4, <1>6 DEF IInv, ImportsReserves
<1>10. BailImporteInvite'
  <2>1. ASSUME requete[r].pc = "accepterLier"
        PROVE  /\ requete[r].token \in Tokens
               /\ Acceptee(requete[r].token)
               /\ invitation[requete[r].token].annonce = a
               /\ invitation[requete[r].token].locataire = requete[r].locataire
    BY <2>1, RequeteType DEF IInv, ReponsesFondees
  <2> QED BY <1>1, <1>6, <2>1 DEF IInv, BailImporteInvite, Repondue, Acceptee
<1> QED BY <1>1, <1>7, <1>8, <1>9, <1>10 DEF IInv, UneSeuleEnAttente

(* The steps that write the statut of one invitation. *)
LEMMA EffetStatut ==
  ASSUME TypeOK, IInv, NEW r \in Requetes,
         Expirer(r) \/ AccepterMarquer(r) \/ RefuserMarquer(r)
  PROVE  /\ SansInsertion
         /\ \A u \in Tokens : Monotone(u)
         /\ AccepterMarquer(r) => Acceptee(requete[r].token)'
<1> DEFINE t == requete[r].token
           ligne == invitation'[t]
<1>1. t \in Tokens /\ invitation[t] \in LignesInvitation
  BY RequeteType, TypeLignes
<1>2. Creee(t)
  BY DEF IInv, ReponsesFondees, Expirer, AccepterMarquer, RefuserMarquer
<1>3. /\ invitation' = [invitation EXCEPT ![t] = ligne]
      /\ ligne \in LignesInvitation
      /\ ligne.annonce = invitation[t].annonce
      /\ ligne.locataire = invitation[t].locataire
      /\ ligne.statut \in {"accepted", "declined", "expired"}
      /\ \/ invitation[t].statut = "pending"
         \/ ligne.croisee /\ ligne.statut \in {invitation[t].statut, "expired"}
      /\ AccepterMarquer(r) => ligne.statut = "accepted" \/ ligne.croisee
  <2>1. CASE Expirer(r)
    <3> DEFINE n == [invitation[t] EXCEPT !.statut = "expired",
                       !.croisee = invitation[t].croisee \/ invitation[t].statut # "pending"]
    <3>1. invitation' = [invitation EXCEPT ![t] = n]
      BY <2>1, Zenon DEF Expirer
    <3>2. ~AccepterMarquer(r)
      BY <2>1 DEF Expirer, AccepterMarquer
    <3>3. n \in LignesInvitation /\ ligne = n
      BY <1>1, <3>1, TypeLignes DEF LignesInvitation, Statuts
    <3> QED BY <1>1, <3>1, <3>2, <3>3 DEF LignesInvitation
  <2>2. ASSUME NEW s \in {"accepted", "declined"}, Marquer(r, s),
               AccepterMarquer(r) => s = "accepted"
        PROVE  <1>3!:
    <3>1. CASE invitation[t].statut = "pending"
      <4>1. ligne = [invitation[t] EXCEPT !.statut = s]
        BY <1>1, <2>2, <3>1, TypeLignes DEF Marquer
      <4> QED BY <1>1, <2>2, <3>1, <4>1, TypeLignes DEF Marquer, LignesInvitation, Statuts
    <3>2. CASE invitation[t].statut # "pending"
      <4>1. ligne = [invitation[t] EXCEPT !.croisee = TRUE]
        BY <1>1, <2>2, <3>2, TypeLignes DEF Marquer
      <4>2. ligne.statut \in {"accepted", "declined", "expired"}
        BY <1>1, <1>2, <3>2, <4>1 DEF LignesInvitation, Statuts, Creee
      <4> QED BY <1>1, <2>2, <3>2, <4>1, <4>2, TypeLignes DEF Marquer, LignesInvitation, Statuts
    <3> QED BY <3>1, <3>2
  <2>3. AccepterMarquer(r) => Marquer(r, "accepted")
    BY DEF AccepterMarquer
  <2>4. RefuserMarquer(r) => Marquer(r, "declined") /\ ~AccepterMarquer(r)
    BY DEF RefuserMarquer, AccepterMarquer
  <2> QED BY <2>1, <2>2, <2>3, <2>4
<1>4. SansInsertion /\ \A u \in Tokens : Monotone(u)
  BY <1>1, <1>2, <1>3, StatutEffet
<1>5. AccepterMarquer(r) => requete'[r].token = t
  BY AutresRequetes DEF AccepterMarquer, Etapes
<1> QED BY <1>3, <1>4, <1>5 DEF Acceptee

LEMMA EffetEchoir ==
  ASSUME TypeOK, NEW t \in Tokens, Echoir(t)
  PROVE  SansInsertion /\ \A u \in Tokens : Monotone(u)
<1>1. \A u \in Tokens : /\ invitation'[u].statut = invitation[u].statut
                        /\ invitation'[u].croisee = invitation[u].croisee
                        /\ invitation'[u].annonce = invitation[u].annonce
                        /\ invitation'[u].locataire = invitation[u].locataire
  BY TypeLignes DEF Echoir, LignesInvitation
<1> QED BY <1>1 DEF SansInsertion, Monotone, Creee, Repondue, Acceptee

(* Every step that touches the invitations does one of these. *)
LEMMA EffetCreation ==
  ASSUME TypeOK, NEW r \in Requetes, CreerInserer(r) \/ ImporterInserer(r)
  PROVE  \/ UNCHANGED invitation
         \/ \E t \in Tokens : Insertion(r, t)
BY InsererEffet DEF CreerInserer, ImporterInserer

LEMMA InvCreation ==
  ASSUME TypeOK, IInv, NEW r \in Requetes, CreerInserer(r) \/ ImporterInserer(r)
  PROVE  IInv'
<1>1. UNCHANGED annonce
  BY DEF CreerInserer, ImporterInserer
<1>2. CASE \E t \in Tokens : Inserer(r, t)
  <2>1. PICK t \in Tokens : Inserer(r, t)
    BY <1>2
  <2>2. Insertion(r, t)
    BY <2>1, InsererEffet
  <2>3. invitation' # invitation
    BY <2>2 DEF Insertion
  <2>4. /\ Aller(r, "fini")
        /\ \/ requete[r].pc = "creerInserer" /\ EnAttente(requete[r].annonce) = {}
           \/ requete[r].pc = "importerInserer"
    BY <2>3 DEF CreerInserer, ImporterInserer
  <2> QED BY <1>1, <2>2, <2>4, InvInsertion
<1>3. CASE ~ \E t \in Tokens : Inserer(r, t)
  <2>1. UNCHANGED invitation
    BY <1>3 DEF CreerInserer, ImporterInserer
  <2>2. PICK e \in {"fini", "importerNettoyer"} :
          /\ Aller(r, e)
          /\ e = "importerNettoyer" => requete[r].pc = "importerInserer"
    BY DEF CreerInserer, ImporterInserer
  <2> QED BY <1>1, <2>1, <2>2, InvAilleurs DEF Etapes
<1> QED BY <1>2, <1>3

LEMMA InvTraitement ==
  ASSUME TypeOK, IInv, NEW r \in Requetes, Traitement(r)
  PROVE  IInv'
<1>1. CASE CreerVerifier(r)
  BY <1>1, InvAilleurs DEF CreerVerifier, Etapes
<1>2. CASE CreerInserer(r) \/ ImporterInserer(r)
  BY <1>2, InvCreation
<1>3. CASE \E i \in BOOLEAN : ImporterAnnonce(r, i)
  BY <1>3, InvImporterAnnonce
<1>4. CASE ImporterNettoyer(r) \/ AccepterLier(r)
  BY <1>4, InvAnnonce
<1>5. CASE Expirer(r) \/ AccepterMarquer(r) \/ RefuserMarquer(r)
  <2>1. UNCHANGED annonce
    BY <1>5 DEF Expirer, AccepterMarquer, RefuserMarquer
  <2>2. \/ Aller(r, "fini") \/ Aller(r, "refuserPoster")
        \/ /\ Aller(r, "accepterLier")
           /\ requete[r].pc = "accepterMarquer"
           /\ Acceptee(requete[r].token)'
    BY <1>5, EffetStatut DEF Expirer, AccepterMarquer, RefuserMarquer
  <2> QED BY <1>5, <2>1, <2>2, EffetStatut, InvStatut
<1>6. CASE LoyersLire(r) \/ LoyersEcrire(r) \/ EdlLire(r) \/ EdlEcrire(r)
  <2>1. PICK e \in {"loyersEcrire", "edlLire", "edlEcrire", "carte"} : Aller(r, e)
    BY <1>6 DEF LoyersLire, LoyersEcrire, EdlLire, EdlEcrire
  <2>2. UNCHANGED <<annonce, invitation>>
    BY <1>6 DEF LoyersLire, LoyersEcrire, EdlLire, EdlEcrire
  <2> QED BY <2>1, <2>2, InvAilleurs DEF Etapes
<1>7. CASE PosterCarte(r) \/ RefuserPoster(r)
  <2>1. Aller(r, "fini") /\ UNCHANGED <<annonce, invitation>>
    BY <1>7 DEF PosterCarte, RefuserPoster
  <2> QED BY <2>1, InvAilleurs DEF Etapes
<1> QED BY <1>1, <1>2, <1>3, <1>4, <1>5, <1>6, <1>7 DEF Traitement

LEMMA InvNext ==
  ASSUME TypeOK, IInv, [Next]_vars
  PROVE  IInv'
<1>1. ASSUME NEW r \in Requetes, ErreurIgnoree(r) \/ Interrompre(r) PROVE IInv'
  <2>1. PICK e \in {"edlLire", "carte", "fini"} : Aller(r, e)
    BY <1>1 DEF ErreurIgnoree, EcrituresPerdues, Interrompre
  <2>2. UNCHANGED <<annonce, invitation>>
    BY <1>1 DEF ErreurIgnoree, Interrompre
  <2> QED BY <2>1, <2>2, InvAilleurs DEF Etapes
<1>2. ASSUME NEW t \in Tokens, Echoir(t) PROVE IInv'
  <2>1. UNCHANGED <<annonce, requete>>
    BY <1>2 DEF Echoir
  <2> QED BY <1>2, <2>1, EffetEchoir, InvSansRequete
<1>3. CASE UNCHANGED vars
  BY <1>3, Inchangees, InvSansRequete DEF vars
<1> QED BY <1>1, <1>2, <1>3, InvArrivee, InvTraitement DEF Next

(* The inductive invariant holds throughout. *)
THEOREM InvitationInvariant == Spec => []IInv
BY InvInit, InvNext, InvitationTypeCorrect, PTL DEF Spec

(* V70.5: one pending invitation per annonce, imports included. *)
THEOREM EnAttenteUnique == Spec => []UneSeuleEnAttente
BY InvitationInvariant, PTL DEF IInv

(* A lease is signed for a recipient with an accepted invitation only, unless
   two answers to it have crossed. *)
THEOREM BailInvite == Spec => []BailImporteInvite
BY InvitationInvariant, PTL DEF IInv

(* No step makes an invitation that exists disappear, nor takes an answer back. *)
LEMMA PasMonotone ==
  ASSUME TypeOK, IInv, [Next]_vars
  PROVE  \A u \in Tokens : Monotone(u)
<1>1. ASSUME NEW r \in Requetes, Arrivee(r) \/ ErreurIgnoree(r) \/ Interrompre(r)
      PROVE  \A u \in Tokens : Monotone(u)
  <2>1. UNCHANGED invitation
    BY <1>1 DEF Arrivee, CreerLire, ImporterVerifier, Repondre,
                ErreurIgnoree, Interrompre
  <2> QED BY <2>1, Inchangees
<1>2. ASSUME NEW r \in Requetes, Traitement(r)
      PROVE  \A u \in Tokens : Monotone(u)
  <2>1. CASE Expirer(r) \/ AccepterMarquer(r) \/ RefuserMarquer(r)
    BY <2>1, EffetStatut
  <2>2. CASE CreerInserer(r) \/ ImporterInserer(r)
    BY <2>2, EffetCreation, InsertionMonotone, Inchangees
  <2>3. CASE UNCHANGED invitation
    BY <2>3, Inchangees
  <2> QED BY <1>2, <2>1, <2>2, <2>3
          DEF Traitement, CreerVerifier, ImporterAnnonce, ImporterNettoyer,
              AccepterLier, LoyersLire, LoyersEcrire, EdlLire, EdlEcrire,
              PosterCarte, RefuserPoster
<1>3. ASSUME NEW t \in Tokens, Echoir(t)
      PROVE  \A u \in Tokens : Monotone(u)
  BY <1>3, EffetEchoir
<1>4. CASE UNCHANGED vars
  BY <1>4, Inchangees DEF vars
<1> QED BY <1>1, <1>2, <1>3, <1>4 DEF Next

(* Answers are final, up to "expired". *)
THEOREM ReponsesDefinitives == Spec => ReponseDefinitive
<1> DEFINE Pas == \A t \in Tokens :
                    invitation[t].statut \in {"accepted", "declined", "expired"}
                      => invitation'[t].statut \in {invitation[t].statut, "expired"}
<1>1. ASSUME TypeOK, IInv, [Next]_vars PROVE [Pas]_vars
  <2>1. \A u \in Tokens : Monotone(u)
    BY <1>1, PasMonotone
  <2> QED BY <2>1 DEF Monotone, Repondue, Acceptee
<1> QED BY <1>1, InvitationTypeCorrect, InvitationInvariant, PTL
        DEF Spec, ReponseDefinitive

-----------------------------------------------------------------------------
(* What is begun is finished, as long as nothing fails: an accepted        *)
(* invitation has a request about to link its annonce, or the annonce is   *)
(* signed and its card is posted or about to be; an annonce of an import   *)
(* has its invitation, or a request about to insert it or to clean up.     *)

Suite == {"loyersLire", "loyersEcrire", "edlLire", "edlEcrire", "carte"}

Liaison(t) == \E r \in Requetes : requete[r].pc = "accepterLier" /\ requete[r].token = t
Redaction(t) == \E r \in Requetes : requete[r].pc \in Suite /\ requete[r].token = t

AcceptationsSuivies ==
  pannes = 0 =>
    \A t \in Tokens : invitation[t].statut = "accepted" =>
      \/ Liaison(t)
      \/ /\ annonce[invitation[t].annonce].signe
         /\ messages[t].carte > 0 \/ Redaction(t)

ImportsSuivis ==
  pannes = 0 =>
    \A a \in Annonces : annonce[a].source = "imported_pending" =>
      \/ \E t \in Tokens : Creee(t) /\ invitation[t].annonce = a
      \/ \E r \in Requetes : /\ requete[r].pc \in {"importerInserer", "importerNettoyer"}
                             /\ requete[r].annonce = a

LEMMA SuivisInit == Init => AcceptationsSuivies /\ ImportsSuivis
BY DEF Init, AcceptationsSuivies, ImportsSuivis, AnnonceVierge

(* What each step may write. *)
LEMMA ArriveeEcrit ==
  ASSUME NEW r \in Requetes, Arrivee(r)
  PROVE  requete[r].pc = "attente" /\ UNCHANGED <<annonce, invitation, messages, pannes>>
<1>1. CASE \E a \in Annonces, l \in Locataires : CreerLire(r, a, l)
  BY <1>1 DEF CreerLire
<1>2. CASE \E l \in Locataires : ImporterVerifier(r, l)
  <2>1. PICK l \in Locataires : ImporterVerifier(r, l)
    BY <1>2
  <2> QED BY <2>1 DEF ImporterVerifier
<1>3. CASE \E t \in Tokens : \/ Repondre(r, t, "accepterMarquer")
                            \/ Repondre(r, t, "refuserMarquer")
  BY <1>3 DEF Repondre
<1> QED BY <1>1, <1>2, <1>3 DEF Arrivee

LEMMA TraitementEcrit ==
  ASSUME NEW r \in Requetes, Traitement(r)
  PROVE  /\ UNCHANGED pannes
         /\ \/ UNCHANGED annonce
            \/ \E i \in BOOLEAN : ImporterAnnonce(r, i)
            \/ ImporterNettoyer(r) \/ AccepterLier(r)
         /\ UNCHANGED messages \/ PosterCarte(r) \/ RefuserPoster(r)
         /\ \/ UNCHANGED invitation
            \/ CreerInserer(r) \/ ImporterInserer(r)
            \/ Expirer(r) \/ AccepterMarquer(r) \/ RefuserMarquer(r)
<1>1. CASE CreerVerifier(r) \/ LoyersLire(r) \/ LoyersEcrire(r) \/ EdlLire(r) \/ EdlEcrire(r)
  BY <1>1 DEF CreerVerifier, LoyersLire, LoyersEcrire, EdlLire, EdlEcrire
<1>2. CASE CreerInserer(r) \/ ImporterInserer(r) \/ Expirer(r) \/ AccepterMarquer(r)
           \/ RefuserMarquer(r)
  <2>1. UNCHANGED <<annonce, messages, pannes>>
    BY <1>2 DEF CreerInserer, ImporterInserer, Expirer, AccepterMarquer, RefuserMarquer
  <2> QED BY <1>2, <2>1
<1>3. CASE \E i \in BOOLEAN : ImporterAnnonce(r, i)
  <2>1. UNCHANGED <<invitation, messages, pannes>>
    BY <1>3 DEF ImporterAnnonce
  <2> QED BY <1>3, <2>1
<1>4. CASE ImporterNettoyer(r) \/ AccepterLier(r)
  <2>1. UNCHANGED <<invitation, messages, pannes>>
    BY <1>4 DEF ImporterNettoyer, AccepterLier
  <2> QED BY <1>4, <2>1
<1>5. CASE PosterCarte(r) \/ RefuserPoster(r)
  <2>1. UNCHANGED <<annonce, invitation, pannes>>
    BY <1>5 DEF PosterCarte, RefuserPoster
  <2> QED BY <1>5, <2>1
<1> QED BY <1>1, <1>2, <1>3, <1>4, <1>5 DEF Traitement

LEMMA AleaEcrit ==
  ASSUME NEW r \in Requetes, ErreurIgnoree(r) \/ Interrompre(r)
  PROVE  pannes' = pannes + 1 /\ UNCHANGED <<annonce, invitation, messages>>
BY DEF ErreurIgnoree, Interrompre

(* The call a request makes is the one its counter names. *)
LEMMA AppelNomme ==
  ASSUME NEW r \in Requetes, Traitement(r)
  PROVE  /\ requete[r].pc = "accepterLier" => AccepterLier(r)
         /\ requete[r].pc = "importerInserer" => ImporterInserer(r)
         /\ requete[r].pc = "importerNettoyer" => ImporterNettoyer(r)
         /\ requete[r].pc \in Suite =>
              LoyersLire(r) \/ LoyersEcrire(r) \/ EdlLire(r) \/ EdlEcrire(r) \/ PosterCarte(r)
<1>1. /\ CreerVerifier(r) => requete[r].pc = "creerVerifier"
      /\ CreerInserer(r) => requete[r].pc = "creerInserer"
      /\ ImporterInserer(r) => requete[r].pc = "importerInserer"
      /\ ImporterNettoyer(r) => requete[r].pc = "importerNettoyer"
      /\ Expirer(r) => requete[r].pc = "expirer"
      /\ AccepterMarquer(r) => requete[r].pc = "accepterMarquer"
      /\ AccepterLier(r) => requete[r].pc = "accepterLier"
      /\ RefuserMarquer(r) => requete[r].pc = "refuserMarquer"
      /\ RefuserPoster(r) => requete[r].pc = "refuserPoster"
  BY DEF CreerVerifier, CreerInserer, ImporterInserer, ImporterNettoyer, Expirer,
         AccepterMarquer, AccepterLier, RefuserMarquer, RefuserPoster
<1>2. \A i \in BOOLEAN : ImporterAnnonce(r, i) => requete[r].pc = "importerAnnonce"
  BY DEF ImporterAnnonce
<1>3. /\ LoyersLire(r) => requete[r].pc = "loyersLire"
      /\ LoyersEcrire(r) => requete[r].pc = "loyersEcrire"
      /\ EdlLire(r) => requete[r].pc = "edlLire"
      /\ EdlEcrire(r) => requete[r].pc = "edlEcrire"
      /\ PosterCarte(r) => requete[r].pc = "carte"
  BY DEF LoyersLire, LoyersEcrire, EdlLire, EdlEcrire, PosterCarte
<1> QED BY <1>1, <1>2, <1>3 DEF Traitement, Suite

(* Without a failure, a request moves only by a step of its own. *)
LEMMA Mouvement ==
  ASSUME TypeOK, [Next]_vars, pannes' = 0, NEW q \in Requetes
  PROVE  /\ requete'[q] = requete[q] \/ Arrivee(q) \/ Traitement(q)
         /\ pannes = 0
<1>0. pannes \in Nat /\ requete \in [Requetes -> Process]
  BY TypeLignes, InvitationHypotheses
<1>1. ASSUME NEW r \in Requetes, Arrivee(r) PROVE requete'[q] = requete[q] \/ q = r
  <2>1. ASSUME NEW a \in Annonces, NEW l \in Locataires, CreerLire(r, a, l)
        PROVE  requete'[q] = requete[q] \/ q = r
    BY <1>0, <2>1 DEF CreerLire
  <2>2. ASSUME NEW l \in Locataires, ImporterVerifier(r, l)
        PROVE  requete'[q] = requete[q] \/ q = r
    <3>1. requete' = [requete EXCEPT ![r] =
                        [@ EXCEPT !.pc = "importerAnnonce", !.locataire = l]]
      BY <2>2 DEF ImporterVerifier
    <3> QED BY <1>0, <3>1
  <2>3. ASSUME NEW t \in Tokens, NEW e, Repondre(r, t, e)
        PROVE  requete'[q] = requete[q] \/ q = r
    BY <1>0, <2>3 DEF Repondre
  <2> QED BY <1>1, <2>1, <2>2, <2>3 DEF Arrivee
<1>2. ASSUME NEW r \in Requetes, Traitement(r) PROVE requete'[q] = requete[q] \/ q = r
  <2>1. CASE \E e \in Etapes : Aller(r, e)
    BY <2>1, AutresRequetes
  <2>2. CASE \E i \in BOOLEAN : ImporterAnnonce(r, i)
    BY <1>0, <2>2 DEF ImporterAnnonce
  <2> QED BY <1>2, <2>1, <2>2
          DEF Traitement, CreerVerifier, CreerInserer, ImporterInserer, ImporterNettoyer,
              Expirer, AccepterMarquer, AccepterLier, LoyersLire, LoyersEcrire, EdlLire,
              EdlEcrire, PosterCarte, RefuserMarquer, RefuserPoster, Etapes
<1>3. ASSUME NEW r \in Requetes, Arrivee(r) \/ Traitement(r) PROVE pannes' = pannes
  BY <1>3, ArriveeEcrit, TraitementEcrit
<1>4. ASSUME NEW r \in Requetes, ErreurIgnoree(r) \/ Interrompre(r) PROVE FALSE
  BY <1>0, <1>4, AleaEcrit
<1>5. ASSUME NEW t \in Tokens, Echoir(t) PROVE requete' = requete /\ pannes' = pannes
  BY <1>5 DEF Echoir
<1>6. CASE UNCHANGED vars
  BY <1>6 DEF vars
<1> QED BY <1>1, <1>2, <1>3, <1>4, <1>5, <1>6 DEF Next

(* A signature is not taken back, nor a card. *)
LEMMA SignesEtCartes ==
  ASSUME TypeOK, IInv, [Next]_vars
  PROVE  /\ \A a \in Annonces : annonce[a].signe => annonce'[a].signe
         /\ \A t \in Tokens : messages[t].carte > 0 => messages'[t].carte > 0
<1>0. /\ annonce \in [Annonces -> LignesAnnonce]
      /\ messages \in [Tokens -> [carte : Nat, refus : Nat]]
  BY TypeLignes
<1>1. ASSUME NEW r \in Requetes, NEW i \in BOOLEAN, ImporterAnnonce(r, i)
      PROVE  \A a \in Annonces : annonce[a].signe => annonce'[a].signe
  <2>1. PICK b \in Annonces : /\ annonce[b].source = "libre"
                              /\ \A a \in Annonces : a # b => annonce'[a] = annonce[a]
    BY <1>0, <1>1 DEF ImporterAnnonce
  <2>2. ~annonce[b].signe
    BY <2>1 DEF IInv, BailImporteInvite, ImportsReserves, Creee, Acceptee
  <2> QED BY <2>1, <2>2
<1>2. ASSUME NEW r \in Requetes, ImporterNettoyer(r)
      PROVE  \A a \in Annonces : annonce[a].signe => annonce'[a].signe
  <2>1. PICK b \in Annonces : b = requete[r].annonce
    BY RequeteType
  <2>2. annonce' = [annonce EXCEPT ![b].source = "supprimee"]
    BY <1>2, <2>1 DEF ImporterNettoyer
  <2> QED BY <1>0, <2>2 DEF LignesAnnonce
<1>3. ASSUME NEW r \in Requetes, AccepterLier(r)
      PROVE  /\ \A a \in Annonces : annonce[a].signe => annonce'[a].signe
             /\ annonce'[requete[r].annonce].signe
  <2>1. PICK b \in Annonces : b = requete[r].annonce
    BY RequeteType
  <2> DEFINE n == [annonce[b] EXCEPT !.source = "imported",
                     !.locataire = requete[r].locataire, !.signe = TRUE]
  <2>2. annonce' = [annonce EXCEPT ![b] = n]
    BY <1>3, <2>1, Zenon DEF AccepterLier
  <2>3. n.signe
    BY <1>0 DEF LignesAnnonce
  <2> HIDE DEF n
  <2> QED BY <1>0, <2>1, <2>2, <2>3
<1>4. ASSUME NEW r \in Requetes, PosterCarte(r) \/ RefuserPoster(r)
      PROVE  \A t \in Tokens : messages[t].carte > 0 => messages'[t].carte > 0
  <2>1. PICK u \in Tokens : u = requete[r].token
    BY RequeteType
  <2>2. \/ messages' = [messages EXCEPT ![u].carte = @ + 1]
        \/ messages' = [messages EXCEPT ![u].refus = @ + 1]
    BY <1>4, <2>1 DEF PosterCarte, RefuserPoster
  <2> QED BY <1>0, <2>2
<1>5. \/ UNCHANGED annonce
      \/ \E r \in Requetes : \/ \E i \in BOOLEAN : ImporterAnnonce(r, i)
                             \/ ImporterNettoyer(r) \/ AccepterLier(r)
  BY ArriveeEcrit, TraitementEcrit, AleaEcrit DEF Next, Echoir, vars
<1>6. UNCHANGED messages \/ \E r \in Requetes : PosterCarte(r) \/ RefuserPoster(r)
  BY ArriveeEcrit, TraitementEcrit, AleaEcrit DEF Next, Echoir, vars
<1> QED BY <1>1, <1>2, <1>3, <1>4, <1>5, <1>6

(* A request about to link its annonce stays so or links it; one that writes
   the backfill stays so or posts the card. *)
LEMMA Poursuite ==
  ASSUME TypeOK, IInv, [Next]_vars, pannes' = 0, NEW q \in Requetes
  PROVE  /\ requete[q].pc = "accepterLier" =>
              \/ requete'[q] = requete[q]
              \/ /\ requete'[q].pc \in Suite /\ requete'[q].token = requete[q].token
                 /\ annonce'[requete[q].annonce].signe
         /\ requete[q].pc \in Suite =>
              \/ requete'[q].pc \in Suite /\ requete'[q].token = requete[q].token
              \/ messages'[requete[q].token].carte > 0
<1>0. /\ requete[q].token \in Tokens /\ requete[q].annonce \in Annonces
      /\ messages \in [Tokens -> [carte : Nat, refus : Nat]]
      /\ annonce \in [Annonces -> LignesAnnonce]
  BY RequeteType, TypeLignes
<1>1. CASE requete'[q] = requete[q]
  BY <1>1
<1>2. CASE requete[q].pc = "accepterLier" /\ Traitement(q)
  <2>1. AccepterLier(q)
    BY <1>2, AppelNomme
  <2>2. PICK e \in Suite : Aller(q, e)
    BY <2>1 DEF AccepterLier, Suite
  <2>3. requete'[q].pc = e /\ requete'[q].token = requete[q].token
    BY <2>2, AutresRequetes DEF Suite, Etapes
  <2>4. annonce'[requete[q].annonce].signe
    <3> DEFINE b == requete[q].annonce
               n == [annonce[b] EXCEPT !.source = "imported",
                       !.locataire = requete[q].locataire, !.signe = TRUE]
    <3>1. annonce' = [annonce EXCEPT ![b] = n]
      BY <2>1, Zenon DEF AccepterLier
    <3>2. n.signe
      BY <1>0 DEF LignesAnnonce
    <3> HIDE DEF n
    <3> QED BY <1>0, <3>1, <3>2
  <2> QED BY <1>2, <2>2, <2>3, <2>4 DEF Suite
<1>3. CASE requete[q].pc \in Suite /\ Traitement(q)
  <2>1. \/ LoyersLire(q) \/ LoyersEcrire(q) \/ EdlLire(q) \/ EdlEcrire(q) \/ PosterCarte(q)
    BY <1>3, AppelNomme
  <2>2. CASE PosterCarte(q)
    <3>1. messages' = [messages EXCEPT ![requete[q].token].carte = @ + 1]
      BY <2>2 DEF PosterCarte
    <3>2. messages'[requete[q].token].carte > 0
      BY <1>0, <3>1
    <3> QED BY <1>3, <3>2 DEF Suite
  <2>3. CASE LoyersLire(q) \/ LoyersEcrire(q) \/ EdlLire(q) \/ EdlEcrire(q)
    <3>1. PICK e \in Suite : Aller(q, e)
      BY <2>3 DEF LoyersLire, LoyersEcrire, EdlLire, EdlEcrire, Suite
    <3>2. requete'[q].pc = e /\ requete'[q].token = requete[q].token
      BY <3>1, AutresRequetes DEF Suite, Etapes
    <3> QED BY <1>3, <3>1, <3>2 DEF Suite
  <2> QED BY <2>1, <2>2, <2>3
<1>4. CASE Arrivee(q)
  BY <1>4, ArriveeEcrit DEF Suite
<1> QED BY <1>1, <1>2, <1>3, <1>4, Mouvement

(* Only the handler that goes on to link the annonce accepts an invitation. *)
LEMMA Acceptation ==
  ASSUME TypeOK, IInv, [Next]_vars, NEW t \in Tokens,
         invitation'[t].statut = "accepted", invitation[t].statut # "accepted"
  PROVE  Liaison(t)'
<1>0. invitation \in [Tokens -> LignesInvitation]
  BY TypeLignes
<1>1. CASE \E r \in Requetes : AccepterMarquer(r)
  <2>1. PICK r \in Requetes : AccepterMarquer(r)
    BY <1>1
  <2>2. /\ requete'[r].pc = "accepterLier" /\ requete'[r].token = requete[r].token
    BY <2>1, AutresRequetes DEF AccepterMarquer, Etapes
  <2>3. requete[r].token = t
    <3>1. ASSUME requete[r].token # t PROVE invitation'[t] = invitation[t]
      BY <1>0, <2>1, <3>1, RequeteType DEF AccepterMarquer, Marquer
    <3> QED BY <3>1
  <2> QED BY <2>2, <2>3 DEF Liaison
<1>2. ASSUME NEW r \in Requetes, Expirer(r) \/ RefuserMarquer(r) PROVE FALSE
  <2>1. PICK u \in Tokens : u = requete[r].token
    BY RequeteType
  <2>2. /\ \A v \in Tokens \ {u} : invitation'[v] = invitation[v]
        /\ invitation'[u].statut \in {invitation[u].statut, "declined", "expired"}
    <3>1. CASE Expirer(r)
      BY <1>0, <2>1, <3>1 DEF Expirer, LignesInvitation
    <3>2. CASE RefuserMarquer(r)
      BY <1>0, <2>1, <3>2 DEF RefuserMarquer, Marquer, LignesInvitation
    <3> QED BY <1>2, <3>1, <3>2
  <2> QED BY <2>2
<1>3. ASSUME NEW r \in Requetes, CreerInserer(r) \/ ImporterInserer(r) PROVE FALSE
  BY <1>3, EffetCreation DEF Insertion
<1>4. ASSUME NEW u \in Tokens, Echoir(u) PROVE FALSE
  BY <1>0, <1>4 DEF Echoir, LignesInvitation
<1>5. invitation' # invitation
  OBVIOUS
<1> QED BY <1>1, <1>2, <1>3, <1>4, <1>5, ArriveeEcrit, TraitementEcrit, AleaEcrit DEF Next, vars

LEMMA AcceptationsEtape ==
  ASSUME TypeOK, IInv, AcceptationsSuivies, [Next]_vars
  PROVE  AcceptationsSuivies'
<1> SUFFICES ASSUME pannes' = 0, NEW t \in Tokens, invitation'[t].statut = "accepted"
             PROVE  \/ Liaison(t)'
                    \/ /\ annonce'[invitation'[t].annonce].signe
                       /\ messages'[t].carte > 0 \/ Redaction(t)'
  BY DEF AcceptationsSuivies
<1>1. CASE invitation[t].statut # "accepted"
  BY <1>1, Acceptation
<1>2. CASE invitation[t].statut = "accepted"
  <2>0. pannes = 0
    <3>1. CASE Requetes = {}
      <4>1. UNCHANGED pannes
        BY <3>1 DEF Next, Echoir, vars
      <4> QED BY <4>1
    <3>2. CASE Requetes # {}
      BY <3>2, Mouvement
    <3> QED BY <3>1, <3>2
  <2>1. invitation'[t].annonce = invitation[t].annonce
    BY <1>2, PasMonotone DEF Monotone, Creee
  <2>2. invitation[t].annonce \in Annonces
    BY TypeLignes DEF LignesInvitation
  <2>3. CASE Liaison(t)
    <3>1. PICK q \in Requetes : requete[q].pc = "accepterLier" /\ requete[q].token = t
      BY <2>3 DEF Liaison
    <3>2. requete[q].annonce = invitation[t].annonce
      BY <3>1 DEF IInv, ReponsesFondees
    <3>3. \/ requete'[q] = requete[q]
          \/ /\ requete'[q].pc \in Suite /\ requete'[q].token = requete[q].token
             /\ annonce'[requete[q].annonce].signe
      BY <3>1, Poursuite
    <3> QED BY <2>1, <3>1, <3>2, <3>3 DEF Liaison, Redaction
  <2>4. CASE annonce[invitation[t].annonce].signe /\ (messages[t].carte > 0 \/ Redaction(t))
    <3>1. annonce'[invitation'[t].annonce].signe
      BY <2>1, <2>2, <2>4, SignesEtCartes
    <3>2. CASE messages[t].carte > 0
      BY <3>1, <3>2, SignesEtCartes
    <3>3. CASE Redaction(t)
      <4>1. PICK q \in Requetes : requete[q].pc \in Suite /\ requete[q].token = t
        BY <3>3 DEF Redaction
      <4> QED BY <3>1, <4>1, Poursuite DEF Redaction
    <3> QED BY <2>4, <3>2, <3>3
  <2> QED BY <1>2, <2>0, <2>3, <2>4 DEF AcceptationsSuivies
<1> QED BY <1>1, <1>2

LEMMA ImporterAnnonceEffet ==
  ASSUME TypeOK, NEW r \in Requetes, NEW i \in BOOLEAN, ImporterAnnonce(r, i)
  PROVE  /\ \E b \in Annonces :
              /\ \A c \in Annonces : c # b => annonce'[c] = annonce[c]
              /\ requete'[r].pc = "importerInserer" /\ requete'[r].annonce = b
         /\ \A q \in Requetes : q # r => requete'[q] = requete[q]
         /\ requete[r].pc = "importerAnnonce"
         /\ UNCHANGED <<invitation, pannes>>
<1>1. PICK b \in Annonces \ Publiees :
        /\ annonce[b].source = "libre"
        /\ annonce' = [annonce EXCEPT ![b] = AnnonceVierge("imported_pending", "loue", i)]
        /\ requete' = [requete EXCEPT ![r] =
             [@ EXCEPT !.pc = "importerInserer", !.annonce = b]]
  BY DEF ImporterAnnonce
<1>2. \A c \in Annonces : c # b => annonce'[c] = annonce[c]
  BY <1>1, TypeLignes
<1>3. /\ requete'[r].pc = "importerInserer" /\ requete'[r].annonce = b
      /\ \A q \in Requetes \ {r} : requete'[q] = requete[q]
  BY <1>1, TypeLignes DEF Process
<1>4. requete[r].pc = "importerAnnonce" /\ UNCHANGED <<invitation, pannes>>
  BY DEF ImporterAnnonce
<1> QED BY <1>1, <1>2, <1>3, <1>4

LEMMA ImportsEtape ==
  ASSUME TypeOK, IInv, ImportsSuivis, [Next]_vars
  PROVE  ImportsSuivis'
<1> SUFFICES ASSUME pannes' = 0, NEW a \in Annonces, annonce'[a].source = "imported_pending"
             PROVE  \/ \E t \in Tokens : Creee(t)' /\ invitation'[t].annonce = a
                    \/ \E r \in Requetes :
                         /\ requete'[r].pc \in {"importerInserer", "importerNettoyer"}
                         /\ requete'[r].annonce = a
  BY DEF ImportsSuivis
<1>0. /\ annonce \in [Annonces -> LignesAnnonce]
      /\ requete \in [Requetes -> Process]
  BY TypeLignes
<1>1. CASE \E r \in Requetes, i \in BOOLEAN : ImporterAnnonce(r, i)
  <2>1. PICK r \in Requetes, i \in BOOLEAN : ImporterAnnonce(r, i)
    BY <1>1
  <2>2. PICK b \in Annonces :
          /\ \A c \in Annonces : c # b => annonce'[c] = annonce[c]
          /\ requete'[r].pc = "importerInserer" /\ requete'[r].annonce = b
    BY <2>1, ImporterAnnonceEffet
  <2>3. /\ \A q \in Requetes : q # r => requete'[q] = requete[q]
        /\ requete[r].pc = "importerAnnonce"
        /\ UNCHANGED <<invitation, pannes>>
    BY <2>1, ImporterAnnonceEffet
  <2>4. CASE a # b
    <3>1. \/ \E t \in Tokens : Creee(t) /\ invitation[t].annonce = a
          \/ \E q \in Requetes : /\ requete[q].pc \in {"importerInserer", "importerNettoyer"}
                                 /\ requete[q].annonce = a
      BY <2>2, <2>3, <2>4 DEF ImportsSuivis
    <3> QED BY <2>3, <3>1 DEF Creee
  <2> QED BY <2>2, <2>4
<1>2. CASE ~ \E r \in Requetes, i \in BOOLEAN : ImporterAnnonce(r, i)
  <2>1. annonce[a].source = "imported_pending"
    <3>1. CASE UNCHANGED annonce
      BY <3>1
    <3>2. ASSUME NEW r \in Requetes, ImporterNettoyer(r)
          PROVE  annonce'[a].source \in {annonce[a].source, "supprimee"}
      BY <1>0, <3>2, RequeteType DEF ImporterNettoyer, LignesAnnonce
    <3>3. ASSUME NEW r \in Requetes, AccepterLier(r)
          PROVE  annonce'[a].source \in {annonce[a].source, "imported"}
      <4> DEFINE b == requete[r].annonce
                 n == [annonce[b] EXCEPT !.source = "imported",
                         !.locataire = requete[r].locataire, !.signe = TRUE]
      <4>1. annonce' = [annonce EXCEPT ![b] = n]
        BY <3>3, Zenon DEF AccepterLier
      <4>2. n.source = "imported"
        BY <1>0, RequeteType DEF LignesAnnonce
      <4> HIDE DEF n
      <4> QED BY <1>0, <4>1, <4>2, RequeteType
    <3> QED BY <1>2, <3>1, <3>2, <3>3, ArriveeEcrit, TraitementEcrit, AleaEcrit
            DEF Next, Echoir, vars
  <2>2. CASE \E t \in Tokens : Creee(t) /\ invitation[t].annonce = a
    BY <2>2, PasMonotone DEF Monotone
  <2>3. CASE \E q \in Requetes : /\ requete[q].pc \in {"importerInserer", "importerNettoyer"}
                                 /\ requete[q].annonce = a
    <3>1. PICK q \in Requetes : /\ requete[q].pc \in {"importerInserer", "importerNettoyer"}
                                /\ requete[q].annonce = a
      BY <2>3
    <3>2. CASE ImporterInserer(q)
      <4>1. CASE \E t \in Tokens : Inserer(q, t)
        BY <3>1, <4>1, InsererEffet DEF Insertion, Creee
      <4>2. CASE Aller(q, "importerNettoyer")
        BY <3>1, <4>2, AutresRequetes DEF Etapes
      <4> QED BY <3>2, <4>1, <4>2 DEF ImporterInserer
    <3>3. CASE ImporterNettoyer(q)
      BY <1>0, <3>1, <3>3 DEF ImporterNettoyer, LignesAnnonce
    <3>4. CASE requete'[q] = requete[q]
      BY <3>1, <3>4
    <3>5. requete'[q] = requete[q] \/ ImporterInserer(q) \/ ImporterNettoyer(q)
      BY <3>1, Mouvement, ArriveeEcrit, AppelNomme
    <3> QED BY <3>2, <3>3, <3>4, <3>5
  <2>4. pannes = 0
    <3>1. CASE Requetes = {}
      <4>1. UNCHANGED pannes
        BY <3>1 DEF Next, Echoir, vars
      <4> QED BY <4>1
    <3>2. CASE Requetes # {}
      BY <3>2, Mouvement
    <3> QED BY <3>1, <3>2
  <2> QED BY <2>1, <2>2, <2>3, <2>4 DEF ImportsSuivis
<1> QED BY <1>1, <1>2

(* With no failure, an accepted invitation leaves a signed lease and its card. *)
THEOREM Acceptations == Spec => []AccepteeAboutit
<1>1. Spec => []AcceptationsSuivies
  BY SuivisInit, AcceptationsEtape, InvitationTypeCorrect, InvitationInvariant, PTL DEF Spec
<1>2. AcceptationsSuivies => AccepteeAboutit
  BY DEF AcceptationsSuivies, AccepteeAboutit, Repos, Liaison, Redaction, Suite
<1> QED BY <1>1, <1>2, PTL

(* With no failure, no annonce of an import stays without an invitation. *)
THEOREM Imports == Spec => []ImportJamaisOrphelin
<1>1. Spec => []ImportsSuivis
  BY SuivisInit, ImportsEtape, InvitationTypeCorrect, InvitationInvariant, PTL DEF Spec
<1>2. ImportsSuivis => ImportJamaisOrphelin
  BY DEF ImportsSuivis, ImportJamaisOrphelin, Repos, Creee
<1> QED BY <1>1, <1>2, PTL
==============================================================================
