------------------------- MODULE BailSignatureProofs -------------------------
(***************************************************************************)
(* Proofs about BailSignature, for any number of candidates, guarantors,   *)
(* requests, cards and failures.                                           *)
(***************************************************************************)
EXTENDS BailSignature, TLAPS

(* A request past the upsert has its own role among the signatures, and one
   about to write "loué" has seen both parties' rows, which never go away. *)
RequetesAppuyees ==
  \A r \in Requetes :
    /\ requete[r].pc \in {"patch", "relire"} => requete[r].role \in RolesSignes
    /\ requete[r].pc = "louer" => Parties \subseteq RolesSignes

(* Whichever of the two parties' rows came second, its request has still to
   look at them, or already has. *)
UneRequeteVeille ==
  pannes = 0 /\ Parties \subseteq RolesSignes =>
    \/ loueParSignature
    \/ \E r \in Requetes : requete[r].pc \in {"patch", "relire", "louer"}

(* What a request that has let the property has done before the step it is at. *)
EtapesFranchies ==
  pannes = 0 =>
    /\ \A r \in Requetes :
         /\ requete[r].pc \in {"loyersLire", "loyersEcrire", "edlLire",
                               "valider", "edlEcrire"} => loueParSignature
         /\ requete[r].pc \in {"edlLire", "valider", "edlEcrire"} => lotsLoyers > 0
    /\ msgs.edl > 0 => loueParSignature /\ lotsLoyers > 0

IInv ==
  /\ RequetesAppuyees
  /\ BasculeADeuxSignatures
  /\ HorodatageAppuye
  /\ UneRequeteVeille
  /\ EtapesFranchies

-----------------------------------------------------------------------------
(* Type correctness.                                                       *)

LEMMA TypeInit ==
  ASSUME Init
  PROVE  TypeOK
<1> USE Bornes DEF Init, Destinataires
<1>1. requete \in [Requetes -> [pc : Etapes, role : Roles, email : Emails,
                              locataire : Destinataires, carte : Nat]]
  BY DEF SansRequete, Etapes, Roles, Emails
<1>2. candidature \in [Locataires -> CandidatureStatuts]
  BY DEF CandidatureStatuts
<1>3. page \in [pc : {"fermee", "preselection", "prete", "annonce", "poster",
                     "orphelins"},
               locataire : Destinataires,
               statut : {"disponible", "bail_envoye", "loue"},
               bloquee : BOOLEAN, importe : BOOLEAN]
  BY DEF SansPage
<1>4. annonce \in [statut : {"disponible", "bail_envoye", "loue"},
                  locataire : Destinataires,
                  sigLoc : BOOLEAN, sigBail : BOOLEAN]
  OBVIOUS
<1>5. orphelins \in [limite : BOOLEAN, avertis : SUBSET Locataires]
  OBVIOUS
<1>6. signatures \subseteq [email : Emails, role : Roles, carte : Nat]
  OBVIOUS
<1>7. msgs \in [edl : Nat, final : Nat]
  OBVIOUS
<1>8. pannes \in 0..MaxPannes
  OBVIOUS
<1> QED BY <1>1, <1>2, <1>3, <1>4, <1>5, <1>6, <1>7, <1>8 DEF TypeOK

(* The steps of a request of /api/bail/signer. *)
LEMMA TypeSignature ==
  ASSUME TypeOK, NEW r \in Requetes, Signature(r)
  PROVE  TypeOK'
<1> USE DEF TypeOK, vars, lignes, Aller
<1>1. CASE SignerCarte(r)
  <2>1. requete' \in [Requetes -> [pc : Etapes, role : Roles, email : Emails,
                                   locataire : Destinataires, carte : Nat]]
    <3> DEFINE q == [requete[r] EXCEPT !.pc = "upsert", !.carte = carte]
    <3>1. q \in [pc : Etapes, role : Roles, email : Emails,
                 locataire : Destinataires, carte : Nat]
      <4>1. requete[r] \in [pc : Etapes, role : Roles, email : Emails,
                            locataire : Destinataires, carte : Nat]
        OBVIOUS
      <4>2. "upsert" \in Etapes /\ carte \in Nat
        BY DEF Etapes
      <4> HIDE DEF TypeOK
      <4> QED BY <4>1, <4>2
    <3>2. requete' = [requete EXCEPT ![r] = q]
      BY <1>1, Zenon DEF SignerCarte
    <3> QED BY <3>1, <3>2
  <2> QED BY <1>1, <2>1 DEF SignerCarte
<1>2. CASE SignerUpsert(r)
  <2>1. signatures' \subseteq [email : Emails, role : Roles, carte : Nat]
    BY <1>2 DEF SignerUpsert
  <2> QED BY <1>2, <2>1 DEF SignerUpsert, Etapes
<1>3. CASE SignerPatch(r)
  <2>1. annonce' \in [statut : {"disponible", "bail_envoye", "loue"},
                     locataire : Destinataires,
                     sigLoc : BOOLEAN, sigBail : BOOLEAN]
    BY <1>3 DEF SignerPatch
  <2>2. requete' \in [Requetes -> [pc : Etapes, role : Roles, email : Emails,
                                   locataire : Destinataires, carte : Nat]]
    BY <1>3 DEF SignerPatch, Etapes
  <2> QED BY <1>3, <2>1, <2>2 DEF SignerPatch
<1>4. CASE SignerRelire(r)
  BY <1>4 DEF SignerRelire, Etapes
<1>5. CASE SignerLouer(r)
  BY <1>5 DEF SignerLouer, Etapes
<1>6. CASE SignerLoyersLire(r)
  BY <1>6 DEF SignerLoyersLire, Etapes
<1>7. CASE SignerLoyersEcrire(r)
  BY <1>7 DEF SignerLoyersEcrire, Etapes
<1>8. CASE SignerEdlLire(r)
  BY <1>8 DEF SignerEdlLire, Etapes
<1>9. CASE SignerValider(r)
  <2>1. candidature' \in [Locataires -> CandidatureStatuts]
    BY <1>9 DEF SignerValider, CandidatureStatuts
  <2> QED BY <1>9, <2>1 DEF SignerValider, Etapes
<1>10. CASE SignerEdlEcrire(r)
  BY <1>10 DEF SignerEdlEcrire, Etapes
<1>11. CASE SignerFinalLire(r)
  BY <1>11 DEF SignerFinalLire, Etapes
<1>12. CASE SignerFinalEcrire(r)
  BY <1>12 DEF SignerFinalEcrire, Etapes
<1>13. CASE SignerOrphelins(r)
  BY <1>13 DEF SignerOrphelins, AvertirOrphelins, Etapes
<1>14. CASE SignerPrevenir(r)
  BY <1>14 DEF SignerPrevenir, Etapes
<1>15. CASE SignerFinaliser(r)
  BY <1>15 DEF SignerFinaliser, Etapes
<1> QED
  BY <1>1, <1>2, <1>3, <1>4, <1>5, <1>6, <1>7, <1>8, <1>9, <1>10, <1>11,
     <1>12, <1>13, <1>14, <1>15 DEF Signature

(* The arrival of a request, and what may go wrong with it. *)
LEMMA TypeAleas ==
  ASSUME TypeOK, NEW r \in Requetes,
         \/ ErreurIgnoree(r)
         \/ Interrompre(r)
         \/ \E role \in Roles, email \in Emails : SignerLire(r, role, email)
  PROVE  TypeOK'
<1> USE DEF TypeOK, vars, lignes, Aller
<1>1. CASE ErreurIgnoree(r)
  <2>1. PICK s \in EcrituresPerdues \cup LecturesVides : Aller(r, s[2])
    BY <1>1 DEF ErreurIgnoree
  <2>2. s[2] \in Etapes
    BY DEF EcrituresPerdues, LecturesVides, Etapes
  <2> QED BY <1>1, <2>1, <2>2, Bornes DEF ErreurIgnoree
<1>2. CASE Interrompre(r)
  BY <1>2, Bornes DEF Interrompre, Etapes
<1>3. CASE \E role \in Roles, email \in Emails : SignerLire(r, role, email)
  BY <1>3 DEF SignerLire, Etapes
<1> QED BY <1>1, <1>2, <1>3

(* The owner's browser. *)
LEMMA TypeNavigateur ==
  ASSUME TypeOK,
         \/ PageBail
         \/ \E t \in Locataires : AccepterLocation(t)
         \/ FenetreOrphelins
  PROVE  TypeOK'
<1> USE DEF TypeOK, vars, lignes, SansPage, Destinataires
<1>1. CASE \E t \in Destinataires : PageCharger(t)
  BY <1>1 DEF PageCharger
<1>2. CASE PagePreselection
  BY <1>2 DEF PagePreselection
<1>3. CASE PageVerifier
  <2>1. page' \in [pc : {"fermee", "preselection", "prete", "annonce", "poster",
                        "orphelins"},
                  locataire : Destinataires,
                  statut : {"disponible", "bail_envoye", "loue"},
                  bloquee : BOOLEAN, importe : BOOLEAN]
    <3>1. page' \in {SansPage, [page EXCEPT !.pc = "annonce"]}
      BY <1>3 DEF PageVerifier
    <3>2. CASE page' = SansPage
      BY <3>2
    <3>3. CASE page' = [page EXCEPT !.pc = "annonce"]
      BY <3>3
    <3> QED BY <3>1, <3>2, <3>3
  <2>2. pannes' \in 0..MaxPannes
    BY <1>3, Bornes DEF PageVerifier
  <2> QED BY <1>3, <2>1, <2>2 DEF PageVerifier
<1>4. CASE PageImporter
  BY <1>4 DEF PageImporter
<1>5. CASE PageAnnonce
  BY <1>5 DEF PageAnnonce
<1>6. CASE PagePoster
  BY <1>6 DEF PagePoster
<1>7. CASE PageOrphelins
  BY <1>7 DEF PageOrphelins, AvertirOrphelins
<1>8. CASE PageFermer
  BY <1>8 DEF PageFermer
<1>9. CASE \E t \in Locataires : AccepterLocation(t)
  <2>1. PICK t \in Locataires : AccepterLocation(t)
    BY <1>9
  <2>2. page' \in [pc : {"fermee", "preselection", "prete", "annonce", "poster",
                        "orphelins"},
                  locataire : Destinataires,
                  statut : {"disponible", "bail_envoye", "loue"},
                  bloquee : BOOLEAN, importe : BOOLEAN]
    BY <2>1 DEF AccepterLocation
  <2>3. annonce' \in [statut : {"disponible", "bail_envoye", "loue"},
                     locataire : Destinataires,
                     sigLoc : BOOLEAN, sigBail : BOOLEAN]
    BY <2>1 DEF AccepterLocation
  <2> QED BY <2>1, <2>2, <2>3 DEF AccepterLocation
<1>10. CASE FenetreOrphelins
  <2>1. orphelins' \in [limite : BOOLEAN, avertis : SUBSET Locataires]
    BY <1>10 DEF FenetreOrphelins
  <2> QED BY <1>10, <2>1 DEF FenetreOrphelins
<1> QED
  BY <1>1, <1>2, <1>3, <1>4, <1>5, <1>6, <1>7, <1>8, <1>9, <1>10 DEF PageBail

(* Every variable keeps its type, for any set of requests and any bounds. *)
THEOREM TypeCorrect == Spec => []TypeOK
<1>1. Init => TypeOK
  BY TypeInit
<1>2. TypeOK /\ [Next]_vars => TypeOK'
  <2> SUFFICES ASSUME TypeOK, [Next]_vars PROVE TypeOK'
    OBVIOUS
  <2>1. CASE Next
    BY <2>1, TypeSignature, TypeAleas, TypeNavigateur DEF Next
  <2>2. CASE UNCHANGED vars
    BY <2>2 DEF TypeOK, vars, lignes
  <2> QED BY <2>1, <2>2
<1> QED BY <1>1, <1>2, PTL DEF Spec

-----------------------------------------------------------------------------
(* The safety invariants.                                                  *)

(* The upsert adds the signatory's role and takes no role away: the row it
   replaces has the same role as the row it writes. *)
LEMMA UpsertAjouteUnRole ==
  ASSUME NEW r \in Requetes, SignerUpsert(r)
  PROVE  RolesSignes' = RolesSignes \cup {requete[r].role}
<1> DEFINE q == requete[r]
           n == [email |-> q.email, role |-> q.role, carte |-> q.carte]
           gardees == {s \in signatures : ~(s.email = q.email /\ s.role = q.role)}
<1>1. signatures' = gardees \cup {n}
  BY DEF SignerUpsert
<1>2. n.role = q.role
  OBVIOUS
<1>3. ASSUME NEW x \in RolesSignes' PROVE x \in RolesSignes \cup {q.role}
  <2>1. PICK s \in signatures' : x = s.role
    BY <1>3 DEF RolesSignes
  <2>2. CASE s \in gardees
    BY <2>1, <2>2 DEF RolesSignes
  <2>3. CASE s = n
    BY <2>1, <2>3, <1>2
  <2> QED BY <2>1, <2>2, <2>3, <1>1
<1>4. ASSUME NEW x \in RolesSignes \cup {q.role} PROVE x \in RolesSignes'
  <2>1. CASE x = q.role
    BY <2>1, <1>1, <1>2 DEF RolesSignes
  <2>2. CASE x # q.role
    <3>1. PICK s \in signatures : x = s.role
      BY <1>4, <2>2 DEF RolesSignes
    <3>2. s \in signatures'
      BY <3>1, <2>2, <1>1
    <3> QED BY <3>1, <3>2 DEF RolesSignes
  <2> QED BY <2>1, <2>2
<1> HIDE DEF n, gardees
<1> QED BY <1>3, <1>4

(* What the actions other than SignerUpsert leave alone. *)
LEMMA RolesInchanges ==
  ASSUME UNCHANGED signatures
  PROVE  RolesSignes' = RolesSignes
BY DEF RolesSignes

LEMMA InvInit ==
  ASSUME Init
  PROVE  IInv
BY DEF Init, IInv, RequetesAppuyees, BasculeADeuxSignatures, HorodatageAppuye,
       UneRequeteVeille, EtapesFranchies, SansRequete, RolesSignes, Parties

(* Steps of the browser and of the clock: no request moves, no signature and
   no timestamp changes. *)
LEMMA InvNavigateur ==
  ASSUME TypeOK, IInv, pannes' >= pannes,
         UNCHANGED <<requete, signatures, lotsLoyers, msgs, loueParSignature,
                     annonce.sigLoc, annonce.sigBail>>
  PROVE  IInv'
<1>1. RolesSignes' = RolesSignes
  BY RolesInchanges
<1>2. pannes' = 0 => pannes = 0
  BY Bornes DEF TypeOK
<1> QED
  BY <1>1, <1>2 DEF IInv, RequetesAppuyees, BasculeADeuxSignatures,
     HorodatageAppuye, UneRequeteVeille, EtapesFranchies

LEMMA PageSansEffet ==
  ASSUME TypeOK,
         \/ PageBail
         \/ \E t \in Locataires : AccepterLocation(t)
         \/ FenetreOrphelins
  PROVE  /\ pannes' >= pannes
         /\ UNCHANGED <<requete, signatures, lotsLoyers, msgs, loueParSignature,
                        annonce.sigLoc, annonce.sigBail>>
<1> USE Bornes DEF TypeOK, lignes
<1>1. CASE \E t \in Destinataires : PageCharger(t)
  BY <1>1 DEF PageCharger
<1>2. CASE PagePreselection
  BY <1>2 DEF PagePreselection
<1>3. CASE PageVerifier
  BY <1>3 DEF PageVerifier
<1>4. CASE PageImporter \/ PageFermer
  BY <1>4 DEF PageImporter, PageFermer
<1>5. CASE PageAnnonce
  BY <1>5 DEF PageAnnonce
<1>6. CASE PagePoster \/ PageOrphelins
  BY <1>6 DEF PagePoster, PageOrphelins
<1>7. CASE \E t \in Locataires : AccepterLocation(t)
  <2>1. PICK t \in Locataires : AccepterLocation(t)
    BY <1>7
  <2>2. /\ annonce'.sigLoc = annonce.sigLoc
        /\ annonce'.sigBail = annonce.sigBail
    BY <2>1 DEF AccepterLocation
  <2>3. UNCHANGED <<requete, signatures, lotsLoyers, msgs, loueParSignature, pannes>>
    BY <2>1 DEF AccepterLocation
  <2> QED BY <2>2, <2>3
<1>8. CASE FenetreOrphelins
  BY <1>8 DEF FenetreOrphelins
<1> QED BY <1>1, <1>2, <1>3, <1>4, <1>5, <1>6, <1>7, <1>8 DEF PageBail

(* Steps of a request. *)
LEMMA InvSignature ==
  ASSUME TypeOK, IInv, NEW r \in Requetes, Signature(r)
  PROVE  IInv'
<1> USE DEF TypeOK, IInv, RequetesAppuyees, BasculeADeuxSignatures,
        HorodatageAppuye, UneRequeteVeille, EtapesFranchies, Aller, lignes
<1>1. CASE SignerCarte(r)
  <2>1. RolesSignes' = RolesSignes
    BY <1>1, RolesInchanges DEF SignerCarte
  <2>2. /\ \A q \in Requetes \ {r} : requete'[q] = requete[q]
        /\ requete'[r].pc = "upsert"
    BY <1>1 DEF SignerCarte
  <2> QED BY <1>1, <2>1, <2>2 DEF SignerCarte
<1>2. CASE SignerUpsert(r)
  <2>1. RolesSignes' = RolesSignes \cup {requete[r].role}
    BY <1>2, UpsertAjouteUnRole
  <2> QED BY <1>2, <2>1 DEF SignerUpsert
<1>3. CASE SignerPatch(r)
  <2>1. RolesSignes' = RolesSignes
    BY <1>3, RolesInchanges DEF SignerPatch
  <2> QED BY <1>3, <2>1 DEF SignerPatch
<1>4. CASE SignerRelire(r)
  <2>1. RolesSignes' = RolesSignes
    BY <1>4, RolesInchanges DEF SignerRelire
  <2> QED BY <1>4, <2>1 DEF SignerRelire
<1>5. CASE SignerLouer(r)
  <2>1. RolesSignes' = RolesSignes
    BY <1>5, RolesInchanges DEF SignerLouer
  <2> QED BY <1>5, <2>1 DEF SignerLouer
<1>6. CASE SignerLoyersLire(r)
  <2>1. RolesSignes' = RolesSignes
    BY <1>6, RolesInchanges DEF SignerLoyersLire
  <2> QED BY <1>6, <2>1 DEF SignerLoyersLire
<1>7. CASE SignerLoyersEcrire(r)
  <2>1. RolesSignes' = RolesSignes
    BY <1>7, RolesInchanges DEF SignerLoyersEcrire
  <2> QED BY <1>7, <2>1 DEF SignerLoyersEcrire
<1>8. CASE SignerEdlLire(r)
  <2>1. RolesSignes' = RolesSignes
    BY <1>8, RolesInchanges DEF SignerEdlLire
  <2> QED BY <1>8, <2>1 DEF SignerEdlLire
<1>9. CASE SignerValider(r)
  <2>1. RolesSignes' = RolesSignes
    BY <1>9, RolesInchanges DEF SignerValider
  <2> QED BY <1>9, <2>1 DEF SignerValider
<1>10. CASE SignerEdlEcrire(r)
  <2>1. RolesSignes' = RolesSignes
    BY <1>10, RolesInchanges DEF SignerEdlEcrire
  <2> QED BY <1>10, <2>1 DEF SignerEdlEcrire
<1>11. CASE SignerFinalLire(r)
  <2>1. RolesSignes' = RolesSignes
    BY <1>11, RolesInchanges DEF SignerFinalLire
  <2> QED BY <1>11, <2>1 DEF SignerFinalLire
<1>12. CASE SignerFinalEcrire(r)
  <2>1. RolesSignes' = RolesSignes
    BY <1>12, RolesInchanges DEF SignerFinalEcrire
  <2> QED BY <1>12, <2>1 DEF SignerFinalEcrire
<1>13. CASE SignerOrphelins(r)
  <2>1. RolesSignes' = RolesSignes
    BY <1>13, RolesInchanges DEF SignerOrphelins
  <2> QED BY <1>13, <2>1 DEF SignerOrphelins
<1>14. CASE SignerPrevenir(r)
  <2>1. RolesSignes' = RolesSignes
    BY <1>14, RolesInchanges DEF SignerPrevenir
  <2> QED BY <1>14, <2>1 DEF SignerPrevenir
<1>15. CASE SignerFinaliser(r)
  <2>1. RolesSignes' = RolesSignes
    BY <1>15, RolesInchanges DEF SignerFinaliser
  <2> QED BY <1>15, <2>1 DEF SignerFinaliser
<1> QED
  BY <1>1, <1>2, <1>3, <1>4, <1>5, <1>6, <1>7, <1>8, <1>9, <1>10, <1>11,
     <1>12, <1>13, <1>14, <1>15 DEF Signature

(* A failure spends the budget, which lifts the clauses on pannes = 0; the
   others survive it, since no lost write is followed by "relire" or "louer"
   unless the request already had its row. *)
LEMMA InvAleas ==
  ASSUME TypeOK, IInv, NEW r \in Requetes,
         \/ ErreurIgnoree(r)
         \/ Interrompre(r)
         \/ \E role \in Roles, email \in Emails : SignerLire(r, role, email)
  PROVE  IInv'
<1> USE Bornes DEF TypeOK, IInv, RequetesAppuyees, BasculeADeuxSignatures,
        HorodatageAppuye, UneRequeteVeille, EtapesFranchies, lignes
<1>1. RolesSignes' = RolesSignes
  BY RolesInchanges DEF ErreurIgnoree, Interrompre, SignerLire
<1>2. CASE ErreurIgnoree(r)
  <2>1. PICK s \in EcrituresPerdues \cup LecturesVides :
          requete[r].pc = s[1] /\ Aller(r, s[2])
    BY <1>2 DEF ErreurIgnoree
  <2>2. s[2] \in {"patch", "relire"} => s[1] = "patch"
    BY DEF EcrituresPerdues, LecturesVides
  <2>3. s[2] # "louer"
    BY DEF EcrituresPerdues, LecturesVides
  <2>4. pannes' # 0
    BY <1>2 DEF ErreurIgnoree
  <2> QED BY <1>1, <1>2, <2>1, <2>2, <2>3, <2>4 DEF ErreurIgnoree, Aller
<1>3. CASE Interrompre(r)
  BY <1>1, <1>3 DEF Interrompre, Aller
<1>4. CASE \E role \in Roles, email \in Emails : SignerLire(r, role, email)
  BY <1>1, <1>4 DEF SignerLire
<1> QED BY <1>2, <1>3, <1>4

LEMMA InvNext ==
  ASSUME TypeOK, IInv, [Next]_vars
  PROVE  IInv'
<1>1. CASE Next
  BY <1>1, InvSignature, InvAleas, InvNavigateur, PageSansEffet DEF Next
<1>2. CASE UNCHANGED vars
  <2>1. pannes' >= pannes
    BY <1>2, Bornes DEF TypeOK, vars
  <2> QED BY <1>2, <2>1, InvNavigateur DEF vars, lignes
<1> QED BY <1>1, <1>2

(* The inductive invariant holds throughout. *)
THEOREM Invariant == Spec => []IInv
<1>1. Init => IInv
  BY InvInit
<1>2. TypeOK /\ IInv /\ [Next]_vars => IInv'
  BY InvNext
<1> QED BY <1>1, <1>2, TypeCorrect, PTL DEF Spec

-----------------------------------------------------------------------------
(* What follows for every execution.                                       *)

(* The property is let on two signatures only, whatever the number of
   requests, their interleaving and their failures. *)
THEOREM DeuxSignatures == Spec => []BasculeADeuxSignatures
BY Invariant, PTL DEF IInv

(* A timestamp on the annonce is backed by a signature. *)
THEOREM Horodatages == Spec => []HorodatageAppuye
BY Invariant, PTL DEF IInv

(* With no failure, a lease both parties signed is let once the server is at
   rest: of two requests that race, one at least sees both rows. *)
THEOREM PasDOubli == Spec => []AucunBailOublie
<1>1. IInv => AucunBailOublie
  BY DEF IInv, UneRequeteVeille, AucunBailOublie, Repos
<1> QED BY <1>1, Invariant, PTL

(* With no failure, the check-in invitation follows the rent schedule. *)
THEOREM InvitationApres == Spec => []InvitationApresEcheancier
<1>1. IInv => InvitationApresEcheancier
  BY DEF IInv, EtapesFranchies, InvitationApresEcheancier
<1> QED BY <1>1, Invariant, PTL

-----------------------------------------------------------------------------
(* Refinement: the handler's steps implement the four of the       *)
(* two-party signature.                                                    *)

LEMMA AccordPas ==
  ASSUME TypeOK, IInv, [Next]_vars
  PROVE  [Accord!DSNext]_(Accord!dsVars)
<1> USE DEF Accord!DSNext, Accord!dsVars, Accord!Signer, Accord!Activer
<1>1. CASE UNCHANGED <<signatures, loueParSignature>>
  BY <1>1, RolesInchanges
<1>2. ASSUME NEW r \in Requetes, SignerUpsert(r) PROVE [Accord!DSNext]_(Accord!dsVars)
  <2>1. RolesSignes' = RolesSignes \cup {requete[r].role}
    BY <1>2, UpsertAjouteUnRole
  <2>2. loueParSignature' = loueParSignature
    BY <1>2 DEF SignerUpsert
  <2>3. CASE requete[r].role \in Parties
    <3>1. (RolesSignes \cap Parties)'
             = (RolesSignes \cap Parties) \cup {requete[r].role}
      BY <2>1, <2>3 DEF Parties
    <3> QED BY <2>2, <2>3, <3>1
  <2>4. CASE requete[r].role \notin Parties
    <3>1. (RolesSignes \cap Parties)' = RolesSignes \cap Parties
      BY <2>1, <2>4 DEF Parties
    <3> QED BY <2>2, <3>1
  <2> QED BY <2>3, <2>4
<1>3. ASSUME NEW r \in Requetes, SignerLouer(r) PROVE [Accord!DSNext]_(Accord!dsVars)
  <2>1. RolesSignes' = RolesSignes
    BY <1>3, RolesInchanges DEF SignerLouer
  <2>2. RolesSignes \cap Parties = Parties
    BY <1>3 DEF SignerLouer, IInv, RequetesAppuyees
  <2>3. loueParSignature' = TRUE /\ loueParSignature \in BOOLEAN
    BY <1>3 DEF SignerLouer, TypeOK
  <2>4. (RolesSignes \cap Parties)' = RolesSignes \cap Parties
    BY <2>1 DEF Parties
  <2> QED BY <2>2, <2>3, <2>4
<1>4. Next => \/ UNCHANGED <<signatures, loueParSignature>>
              \/ \E r \in Requetes : SignerUpsert(r) \/ SignerLouer(r)
  BY DEF Next, Signature, PageBail, lignes,
         SignerLire, SignerCarte, SignerPatch, SignerRelire, SignerLoyersLire,
         SignerLoyersEcrire, SignerEdlLire, SignerValider, SignerEdlEcrire,
         SignerFinaliser, SignerFinalLire, SignerFinalEcrire, SignerOrphelins, SignerPrevenir,
         ErreurIgnoree, Interrompre, PageCharger, PagePreselection,
         PageVerifier, PageImporter, PageAnnonce, PagePoster, PageOrphelins,
         PageFermer, AccepterLocation, FenetreOrphelins
<1>5. CASE UNCHANGED vars
  BY <1>1, <1>5 DEF vars, lignes
<1> QED BY <1>1, <1>2, <1>3, <1>4, <1>5

(* BailSignature implements the safety of DoubleSignature. *)
THEOREM Raffinement == Spec => AccordSafe
<1>1. Init => Accord!DSInit
  BY DEF Init, Accord!DSInit, RolesSignes
<1>2. TypeOK /\ IInv /\ [Next]_vars => [Accord!DSNext]_(Accord!dsVars)
  BY AccordPas
<1> QED BY <1>1, <1>2, TypeCorrect, Invariant, PTL
        DEF Spec, AccordSafe, Accord!DSSafeSpec
==============================================================================
