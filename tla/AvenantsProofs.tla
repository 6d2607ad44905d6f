---------------------------- MODULE AvenantsProofs ----------------------------
(***************************************************************************)
(* Proofs about Avenants, for any number of amendments, requests and       *)
(* failures.                                                               *)
(***************************************************************************)
EXTENDS Avenants, TLAPS

LignesAvenant == [numero : Nat, cle : Cles, auteur : Parties,
                  statut : Statuts, signatures : SUBSET Parties]
Process == [pc : Etapes, partie : Parties, id : Ids \cup {Aucun}, cle : Cles,
            numero : Nat, lu : Statuts, double : BOOLEAN]
Postes == {"propose", "signe", "actif", "refus"}

LEMMA TypeLignes ==
  TypeOK <=> /\ avenant \in [Ids -> LignesAvenant]
             /\ champs \in [Propageables -> Ids \cup {Aucun}]
             /\ messages \in [Ids -> SUBSET Postes]
             /\ requete \in [Requetes -> Process]
             /\ pannes \in 0..MaxPannes
             /\ enVigueur \subseteq Ids
BY DEF TypeOK, LignesAvenant, Process, Postes

-----------------------------------------------------------------------------
(* The greatest number.                                                    *)

(* When the numbers are 1..n, the greatest is n. *)
LEMMA DernierVaut ==
  ASSUME NEW n \in Nat, Numeros = 1..n
  PROVE  Dernier = n
<1>1. CASE n = 0
  BY <1>1 DEF Dernier
<1>2. CASE n > 0
  <2>1. n \in Numeros /\ \A m \in Numeros : m <= n
    BY <1>2
  <2>2. \A k \in Numeros : (\A m \in Numeros : m <= k) => k = n
    BY <2>1
  <2> QED BY <2>1, <2>2 DEF Dernier
<1> QED BY <1>1, <1>2

-----------------------------------------------------------------------------
(* The inductive invariant.                                                *)

(* A request past its first read works on a row that exists, and what it
   remembers of the two signatures is still true. *)
RequetesFondees ==
  \A r \in Requetes :
    LET q == requete[r] IN
    /\ q.pc \in {"annoncer", "marquer", "statut", "propager", "poster",
                 "annuler", "posterRefus"} => q.id \in Ids /\ Existe(q.id)
    /\ q.pc \in {"statut", "propager"} /\ q.double => avenant[q.id].signatures = Parties
    /\ q.pc = "propager" => q.double /\ avenant[q.id].cle \in Propageables
    /\ q.pc = "statut" /\ q.lu = "actif" => q.id \in enVigueur

(* The number a proposal is about to insert is at most the next one. *)
NumerosReserves ==
  \A r \in Requetes :
    requete[r].pc = "inserer" => requete[r].numero \in 1..(Dernier + 1)

(* An amendment in force carries both signatures. *)
ActifDeuxSignatures ==
  \A a \in Ids : /\ avenant[a].statut = "actif" => a \in enVigueur
                 /\ a \in enVigueur => avenant[a].signatures = Parties

(* Somebody is about to bring into force what both parties have signed. *)
UneRequeteActive ==
  pannes = 0 =>
    \A a \in Ids : (avenant[a].signatures = Parties /\ a \notin enVigueur) =>
      \E r \in Requetes : requete[r].pc = "statut" /\ requete[r].id = a
                          /\ requete[r].double

(* Only an amendment that exists is signed. *)
Signees == \A a \in Ids : ~Existe(a) => avenant[a].signatures = {}

IInv ==
  /\ RequetesFondees
  /\ Signees
  /\ NumerosReserves
  /\ NumerosConsecutifs
  /\ ActifDeuxSignatures
  /\ ChampsSignes
  /\ UneRequeteActive

-----------------------------------------------------------------------------
(* What the steps do to the requests.                                      *)

LEMMA AllerEffet ==
  ASSUME TypeOK, NEW r \in Requetes, NEW e \in Etapes, Aller(r, e)
  PROVE  /\ requete' \in [Requetes -> Process]
         /\ \A p \in Requetes \ {r} : requete'[p] = requete[p]
         /\ requete'[r].pc = e
         /\ requete'[r].partie = requete[r].partie
         /\ requete'[r].id = requete[r].id
         /\ requete'[r].cle = requete[r].cle
         /\ requete'[r].numero = requete[r].numero
         /\ requete'[r].lu = requete[r].lu
         /\ requete'[r].double = requete[r].double
BY TypeLignes DEF Aller, Process

LEMMA RequeteType ==
  ASSUME TypeOK, NEW r \in Requetes
  PROVE  /\ requete[r].pc \in Etapes /\ requete[r].partie \in Parties
         /\ requete[r].id \in Ids \cup {Aucun} /\ requete[r].cle \in Cles
         /\ requete[r].numero \in Nat /\ requete[r].lu \in Statuts
         /\ requete[r].double \in BOOLEAN
BY DEF TypeOK

LEMMA AvenantType ==
  ASSUME TypeOK, NEW a \in Ids
  PROVE  /\ avenant[a].numero \in Nat /\ avenant[a].cle \in Cles
         /\ avenant[a].auteur \in Parties /\ avenant[a].statut \in Statuts
         /\ avenant[a].signatures \subseteq Parties
BY DEF TypeOK

LEMMA DernierType == TypeOK /\ NumerosConsecutifs => Dernier \in Nat
<1> SUFFICES ASSUME TypeOK, NumerosConsecutifs PROVE Dernier \in Nat
  OBVIOUS
<1>1. Numeros \subseteq Nat
  BY AvenantType DEF Numeros
<1>2. CASE Numeros = {}
  BY <1>2 DEF Dernier
<1>3. CASE Numeros # {}
  <2>1. Dernier = CHOOSE n \in Numeros : \A m \in Numeros : m <= n
    BY <1>3 DEF Dernier
  <2> QED BY <1>1, <1>3, <2>1 DEF NumerosConsecutifs
<1> QED BY <1>2, <1>3

(* The first read of each handler. *)
LEMMA ArriveeEffet ==
  ASSUME TypeOK, NumerosConsecutifs, NEW r \in Requetes, Arrivee(r)
  PROVE  /\ requete' \in [Requetes -> Process]
         /\ \A p \in Requetes \ {r} : requete'[p] = requete[p]
         /\ UNCHANGED <<avenant, champs, messages, pannes, enVigueur>>
         /\ requete[r].pc = "attente"
         /\ \/ requete'[r].pc = "inserer" /\ requete'[r].numero = Dernier + 1
            \/ /\ requete'[r].pc \in {"marquer", "annuler"}
               /\ requete'[r].id \in Ids /\ Existe(requete'[r].id)
<1>1. ASSUME NEW partie \in Parties, NEW c \in Cles, ProposerNumero(r, partie, c)
      PROVE  /\ requete' \in [Requetes -> Process]
             /\ \A p \in Requetes \ {r} : requete'[p] = requete[p]
             /\ requete'[r].pc = "inserer" /\ requete'[r].numero = Dernier + 1
  <2> DEFINE q == [requete[r] EXCEPT !.pc = "inserer", !.partie = partie,
                                     !.cle = c, !.numero = Dernier + 1]
  <2>1. requete' = [requete EXCEPT ![r] = q]
    BY <1>1, Zenon DEF ProposerNumero
  <2>2. requete[r] \in Process /\ Dernier + 1 \in Nat
    BY TypeLignes, DernierType
  <2>3. q \in Process /\ q.pc = "inserer" /\ q.numero = Dernier + 1
    BY <2>2 DEF Process, Etapes
  <2> HIDE DEF q
  <2> QED BY <2>1, <2>3, TypeLignes
<1>2. ASSUME NEW partie \in Parties, NEW a \in Ids, SignerLire(r, partie, a)
      PROVE  /\ requete' \in [Requetes -> Process]
             /\ \A p \in Requetes \ {r} : requete'[p] = requete[p]
             /\ requete'[r].pc = "marquer" /\ requete'[r].id = a /\ Existe(a)
  <2> DEFINE q == [requete[r] EXCEPT !.pc = "marquer", !.partie = partie, !.id = a]
  <2>1. requete' = [requete EXCEPT ![r] = q]
    BY <1>2, Zenon DEF SignerLire
  <2>2. requete[r] \in Process
    BY TypeLignes
  <2>3. q \in Process /\ q.pc = "marquer" /\ q.id = a
    BY <2>2 DEF Process, Etapes
  <2> HIDE DEF q
  <2> QED BY <1>2, <2>1, <2>3, TypeLignes DEF SignerLire
<1>3. ASSUME NEW partie \in Parties, NEW a \in Ids, RefuserLire(r, partie, a)
      PROVE  /\ requete' \in [Requetes -> Process]
             /\ \A p \in Requetes \ {r} : requete'[p] = requete[p]
             /\ requete'[r].pc = "annuler" /\ requete'[r].id = a /\ Existe(a)
  <2> DEFINE q == [requete[r] EXCEPT !.pc = "annuler", !.partie = partie, !.id = a]
  <2>1. requete' = [requete EXCEPT ![r] = q]
    BY <1>3, Zenon DEF RefuserLire
  <2>2. requete[r] \in Process
    BY TypeLignes
  <2>3. q \in Process /\ q.pc = "annuler" /\ q.id = a
    BY <2>2 DEF Process, Etapes
  <2> HIDE DEF q
  <2> QED BY <1>3, <2>1, <2>3, TypeLignes DEF RefuserLire
<1>4. /\ UNCHANGED <<avenant, champs, messages, pannes, enVigueur>>
      /\ requete[r].pc = "attente"
  BY DEF Arrivee, ProposerNumero, SignerLire, RefuserLire
<1> QED BY <1>1, <1>2, <1>3, <1>4 DEF Arrivee

(* The insertion of a proposal, when its number is free. *)
LEMMA InsererEffet ==
  ASSUME TypeOK, NEW r \in Requetes, ProposerInserer(r), ~ Aller(r, "fini")
  PROVE  \E a \in Ids :
           /\ ~Existe(a) /\ requete[r].numero \notin Numeros
           /\ avenant' \in [Ids -> LignesAvenant]
           /\ \A b \in Ids \ {a} : avenant'[b] = avenant[b]
           /\ avenant'[a].numero = requete[r].numero
           /\ avenant'[a].statut = "propose" /\ avenant'[a].signatures = {}
           /\ requete' \in [Requetes -> Process]
           /\ \A p \in Requetes \ {r} : requete'[p] = requete[p]
           /\ requete'[r].pc = "annoncer" /\ requete'[r].id = a
<1>1. PICK a \in Ids :
        /\ ~Existe(a) /\ requete[r].numero \notin Numeros
        /\ avenant' = [avenant EXCEPT ![a] =
             [numero |-> requete[r].numero, cle |-> requete[r].cle,
              auteur |-> requete[r].partie, statut |-> "propose", signatures |-> {}]]
        /\ requete' = [requete EXCEPT ![r] = [@ EXCEPT !.pc = "annoncer", !.id = a]]
  BY DEF ProposerInserer
<1> DEFINE n == [numero |-> requete[r].numero, cle |-> requete[r].cle,
                 auteur |-> requete[r].partie, statut |-> "propose", signatures |-> {}]
           q == [requete[r] EXCEPT !.pc = "annoncer", !.id = a]
<1>2. n \in LignesAvenant /\ n.numero = requete[r].numero
      /\ n.statut = "propose" /\ n.signatures = {}
  BY RequeteType DEF LignesAvenant, Statuts
<1>3. q \in Process /\ q.pc = "annoncer" /\ q.id = a
  BY TypeLignes DEF Process, Etapes
<1>4. avenant' = [avenant EXCEPT ![a] = n] /\ requete' = [requete EXCEPT ![r] = q]
  BY <1>1, Zenon
<1>5. ~Existe(a) /\ requete[r].numero \notin Numeros
  BY <1>1
<1> HIDE DEF n, q
<1> QED BY <1>2, <1>3, <1>4, <1>5, TypeLignes

LEMMA MarquerEffet ==
  ASSUME TypeOK, NEW r \in Requetes, SignerMarquer(r), requete[r].id \in Ids
  PROVE  LET a == requete[r].id IN
         /\ avenant' \in [Ids -> LignesAvenant]
         /\ \A b \in Ids \ {a} : avenant'[b] = avenant[b]
         /\ avenant'[a].numero = avenant[a].numero
         /\ avenant'[a].cle = avenant[a].cle
         /\ avenant'[a].statut = avenant[a].statut
         /\ avenant[a].signatures \subseteq avenant'[a].signatures
         /\ requete' \in [Requetes -> Process]
         /\ \A p \in Requetes \ {r} : requete'[p] = requete[p]
         /\ requete'[r].pc = "statut" /\ requete'[r].id = a
         /\ requete'[r].lu = avenant[a].statut
         /\ requete'[r].double <=> avenant'[a].signatures = Parties
<1>1. PICK a \in Ids : a = requete[r].id
  OBVIOUS
<1> DEFINE s == avenant[a].signatures \cup {requete[r].partie}
           n == [avenant[a] EXCEPT !.signatures = s]
           q == [requete[r] EXCEPT !.pc = "statut", !.lu = avenant[a].statut,
                                   !.double = (s = Parties)]
<1>2. /\ avenant' = [avenant EXCEPT ![a].signatures = s]
      /\ requete' = [requete EXCEPT ![r] = q]
  BY <1>1, Zenon DEF SignerMarquer
<1>3. avenant' = [avenant EXCEPT ![a] = n]
  BY <1>2
<1>4. /\ s \subseteq Parties /\ avenant[a].signatures \subseteq s
      /\ avenant[a].statut \in Statuts
      /\ (s = Parties) \in BOOLEAN
  BY AvenantType, RequeteType
<1>5. requete[r] \in Process /\ avenant[a] \in LignesAvenant
  BY TypeLignes
<1> HIDE DEF s
<1>6. /\ n \in LignesAvenant /\ n.numero = avenant[a].numero /\ n.cle = avenant[a].cle
      /\ n.statut = avenant[a].statut /\ n.signatures = s
  BY <1>4, <1>5 DEF LignesAvenant
<1>7. /\ q \in Process /\ q.pc = "statut" /\ q.id = requete[r].id
      /\ q.lu = avenant[a].statut /\ q.double = (s = Parties)
  BY <1>4, <1>5 DEF Process, Etapes
<1> HIDE DEF n, q
<1> QED BY <1>1, <1>2, <1>3, <1>4, <1>6, <1>7, TypeLignes

(* Writing one statut leaves the rest of the rows alone. *)
LEMMA StatutLigne ==
  ASSUME TypeOK, NEW a \in Ids, NEW s \in Statuts,
         avenant' = [avenant EXCEPT ![a].statut = s]
  PROVE  /\ avenant' \in [Ids -> LignesAvenant]
         /\ \A b \in Ids : /\ avenant'[b].numero = avenant[b].numero
                           /\ avenant'[b].cle = avenant[b].cle
                           /\ avenant'[b].signatures = avenant[b].signatures
         /\ \A b \in Ids \ {a} : avenant'[b] = avenant[b]
         /\ avenant'[a].statut = s
BY TypeLignes DEF LignesAvenant

LEMMA StatutEffet ==
  ASSUME TypeOK, NEW r \in Requetes, SignerStatut(r), requete[r].id \in Ids
  PROVE  \E s \in Statuts :
           /\ avenant' = [avenant EXCEPT ![requete[r].id].statut = s]
           /\ enVigueur' = IF s = "actif" THEN enVigueur \cup {requete[r].id}
                                          ELSE enVigueur
           /\ requete[r].double => s = "actif" \/ requete[r].lu = "actif"
           /\ s = "actif" => requete[r].double
                              \/ avenant[requete[r].id].statut = "actif"
<1> DEFINE q == requete[r]
           s == IF StatutApres(q) # q.lu /\ avenant[q.id].statut # "actif"
                THEN StatutApres(q) ELSE avenant[q.id].statut
<1>1. /\ avenant' = [avenant EXCEPT ![q.id].statut = s]
      /\ enVigueur' = IF s = "actif" THEN enVigueur \cup {q.id} ELSE enVigueur
  BY Zenon DEF SignerStatut
<1>2. s \in Statuts
  BY AvenantType DEF StatutApres, Statuts
<1>3. q.double => s = "actif" \/ q.lu = "actif"
  BY DEF StatutApres
<1>4. s = "actif" => q.double \/ avenant[q.id].statut = "actif"
  BY DEF StatutApres
<1> HIDE DEF s
<1> QED BY <1>1, <1>2, <1>3, <1>4

LEMMA StatutSuite ==
  ASSUME NEW r \in Requetes, SignerStatut(r)
  PROVE  \E e \in {"propager", "poster"} :
           /\ Aller(r, e)
           /\ e = "propager" => requete[r].double
                                /\ avenant[requete[r].id].cle \in Propageables
BY DEF SignerStatut

-----------------------------------------------------------------------------
(* Type correctness.                                                       *)

LEMMA TypeInit == Init => TypeOK
BY AvenantsHypotheses
   DEF Init, TypeOK, SansLigne, Depart, Etapes, Statuts, Cles, Parties, Propageables

LEMMA EtapesPerdues ==
  ASSUME NEW r \in Requetes, ErreurIgnoree(r)
  PROVE  \E e \in {"fini", "poster", "posterRefus", "propager"} :
           /\ Aller(r, e)
           /\ e # "fini" => requete[r].pc \in {"statut", "propager", "annuler"}
           /\ e = "propager" => /\ requete[r].pc = "statut" /\ requete[r].double
                                /\ avenant[requete[r].id].cle \in Propageables
<1>1. PICK e \in EcrituresPerdues(requete[r]) : Aller(r, e)
  BY DEF ErreurIgnoree
<1>2. /\ e \in {"fini", "poster", "posterRefus", "propager"}
      /\ e # "fini" => requete[r].pc \in {"statut", "propager", "annuler"}
      /\ e = "propager" => /\ requete[r].pc = "statut" /\ requete[r].double
                           /\ avenant[requete[r].id].cle \in Propageables
  BY <1>1 DEF EcrituresPerdues
<1> QED BY <1>1, <1>2

LEMMA TypeNext ==
  ASSUME TypeOK, IInv, [Next]_vars
  PROVE  TypeOK'
<1>1. ASSUME NEW r \in Requetes, Arrivee(r) PROVE TypeOK'
  BY <1>1, ArriveeEffet, TypeLignes DEF IInv, TypeOK, Process
<1>2. ASSUME NEW r \in Requetes, ProposerInserer(r) PROVE TypeOK'
  <2>1. UNCHANGED <<champs, messages, pannes, enVigueur>>
    BY <1>2 DEF ProposerInserer
  <2>2. CASE Aller(r, "fini")
    <3>1. requete' \in [Requetes -> Process]
      BY <2>2, AllerEffet DEF Etapes
    <3>2. CASE UNCHANGED avenant
      BY <2>1, <3>1, <3>2 DEF TypeOK, Process
    <3>3. CASE ~UNCHANGED avenant
      <4>1. PICK a \in Ids : requete' = [requete EXCEPT ![r] =
                                          [@ EXCEPT !.pc = "annoncer", !.id = a]]
        BY <1>2, <3>3 DEF ProposerInserer
      <4>2. requete'[r].pc = "annoncer"
        BY <4>1, TypeLignes DEF Process
      <4>3. requete'[r].pc = "fini"
        BY <2>2, AllerEffet DEF Etapes
      <4> QED BY <4>2, <4>3
    <3> QED BY <3>2, <3>3
  <2>3. CASE ~Aller(r, "fini")
    <3>1. /\ requete' \in [Requetes -> Process] /\ avenant' \in [Ids -> LignesAvenant]
      BY <1>2, <2>3, InsererEffet
    <3> QED BY <2>1, <3>1 DEF TypeOK, Process, LignesAvenant
  <2> QED BY <2>2, <2>3
<1>3. ASSUME NEW r \in Requetes, SignerMarquer(r) PROVE TypeOK'
  <2>1. requete[r].id \in Ids
    BY <1>3 DEF IInv, RequetesFondees, SignerMarquer
  <2>2. /\ requete' \in [Requetes -> Process] /\ avenant' \in [Ids -> LignesAvenant]
    BY <1>3, <2>1, MarquerEffet
  <2> QED BY <1>3, <2>2 DEF SignerMarquer, TypeOK, Process, LignesAvenant
<1>4. ASSUME NEW r \in Requetes, SignerStatut(r) PROVE TypeOK'
  <2>1. requete[r].id \in Ids
    BY <1>4 DEF IInv, RequetesFondees, SignerStatut
  <2>2. avenant' \in [Ids -> LignesAvenant] /\ enVigueur' \subseteq Ids
    <3>1. PICK s \in Statuts :
            /\ avenant' = [avenant EXCEPT ![requete[r].id].statut = s]
            /\ enVigueur' = IF s = "actif" THEN enVigueur \cup {requete[r].id}
                                           ELSE enVigueur
      BY <1>4, <2>1, StatutEffet
    <3>2. avenant' \in [Ids -> LignesAvenant]
      BY <2>1, <3>1, StatutLigne
    <3>3. enVigueur' \subseteq Ids
      BY <2>1, <3>1 DEF TypeOK
    <3> QED BY <3>2, <3>3
  <2>3. requete' \in [Requetes -> Process]
    BY <1>4, StatutSuite, AllerEffet DEF Etapes
  <2> QED BY <1>4, <2>2, <2>3 DEF SignerStatut, TypeOK, Process, LignesAvenant
<1>5. ASSUME NEW r \in Requetes, SignerPropager(r) PROVE TypeOK'
  <2>1. requete[r].id \in Ids /\ avenant[requete[r].id].cle \in Propageables
    BY <1>5 DEF IInv, RequetesFondees, SignerPropager
  <2>2. requete' \in [Requetes -> Process]
    BY <1>5, AllerEffet DEF SignerPropager, Etapes
  <2> QED BY <1>5, <2>1, <2>2 DEF SignerPropager, TypeOK, Process
<1>6. ASSUME NEW r \in Requetes, RefuserMarquer(r) PROVE TypeOK'
  <2>1. requete[r].id \in Ids
    BY <1>6 DEF IInv, RequetesFondees, RefuserMarquer
  <2>2. avenant' \in [Ids -> LignesAvenant]
    BY <1>6, <2>1, StatutLigne DEF RefuserMarquer, Statuts
  <2>3. PICK e \in {"posterRefus", "fini"} : Aller(r, e)
    BY <1>6 DEF RefuserMarquer
  <2>4. requete' \in [Requetes -> Process]
    BY <2>3, AllerEffet DEF Etapes
  <2> QED BY <1>6, <2>2, <2>4 DEF RefuserMarquer, TypeOK, Process, LignesAvenant
<1>7. ASSUME NEW r \in Requetes,
             ProposerAnnoncer(r) \/ SignerPoster(r) \/ RefuserPoster(r)
      PROVE  TypeOK'
  <2>1. requete' \in [Requetes -> Process]
    BY <1>7, AllerEffet DEF ProposerAnnoncer, SignerPoster, RefuserPoster, Etapes
  <2>2. PICK m \in Postes :
          messages' = [messages EXCEPT ![requete[r].id] = @ \cup {m}]
    BY <1>7 DEF ProposerAnnoncer, SignerPoster, RefuserPoster, Postes
  <2>3. messages' \in [Ids -> SUBSET Postes]
    BY <2>2, TypeLignes
  <2> QED BY <1>7, <2>1, <2>3
          DEF ProposerAnnoncer, SignerPoster, RefuserPoster, TypeOK, Process, Postes
<1>8. ASSUME NEW r \in Requetes, ErreurIgnoree(r) \/ Interrompre(r) PROVE TypeOK'
  <2>1. PICK e \in Etapes : Aller(r, e)
    BY <1>8, EtapesPerdues DEF Interrompre, Etapes
  <2>2. requete' \in [Requetes -> Process]
    BY <2>1, AllerEffet
  <2>3. pannes' \in 0..MaxPannes
    BY <1>8, AvenantsHypotheses DEF ErreurIgnoree, Interrompre, TypeOK
  <2> QED BY <1>8, <2>2, <2>3 DEF ErreurIgnoree, Interrompre, TypeOK, Process
<1>9. CASE UNCHANGED vars
  BY <1>9 DEF vars, TypeOK
<1> QED BY <1>1, <1>2, <1>3, <1>4, <1>5, <1>6, <1>7, <1>8, <1>9 DEF Next, Traitement

-----------------------------------------------------------------------------
(* Preservation of the inductive invariant.                                *)

LEMMA InvInit == Init => IInv
<1> SUFFICES ASSUME Init PROVE IInv
  OBVIOUS
<1>1. \A a \in Ids : ~Existe(a) /\ avenant[a].statut = "propose"
                     /\ avenant[a].signatures = {}
  BY DEF Init, SansLigne, Existe
<1>2. Numeros = {}
  BY <1>1 DEF Numeros
<1>3. Dernier = 0
  BY <1>2 DEF Dernier
<1>4. \A r \in Requetes : requete[r].pc = "attente"
  BY DEF Init, Depart
<1>5. NumerosConsecutifs
  BY <1>1, <1>2, <1>3 DEF NumerosConsecutifs
<1>6. RequetesFondees /\ NumerosReserves
  BY <1>4 DEF RequetesFondees, NumerosReserves
<1>7. ActifDeuxSignatures /\ ChampsSignes
  BY <1>1 DEF Init, ActifDeuxSignatures, ChampsSignes
<1>8. UneRequeteActive
  BY <1>1 DEF UneRequeteActive, Parties
<1>9. Signees
  BY <1>1 DEF Signees, Parties
<1> QED BY <1>5, <1>6, <1>7, <1>8, <1>9 DEF IInv

(* Steps that change no number keep the numbering. *)
LEMMA MemesNumeros ==
  ASSUME \A a \in Ids : avenant'[a].numero = avenant[a].numero
  PROVE  /\ Numeros' = Numeros /\ Dernier' = Dernier
         /\ \A a \in Ids : Existe(a)' <=> Existe(a)
         /\ NumerosConsecutifs => NumerosConsecutifs'
<1>1. \A a \in Ids : Existe(a)' <=> Existe(a)
  BY DEF Existe
<1>2. Numeros' = Numeros
  BY <1>1 DEF Numeros
<1>3. Dernier' = Dernier
  BY <1>2 DEF Dernier
<1> QED BY <1>1, <1>2, <1>3 DEF NumerosConsecutifs

LEMMA InvArrivee ==
  ASSUME TypeOK, IInv, NEW r \in Requetes, Arrivee(r)
  PROVE  IInv'
<1>1. /\ \A p \in Requetes \ {r} : requete'[p] = requete[p]
      /\ requete[r].pc = "attente"
      /\ \/ requete'[r].pc = "inserer" /\ requete'[r].numero = Dernier + 1
         \/ /\ requete'[r].pc \in {"marquer", "annuler"}
            /\ requete'[r].id \in Ids /\ Existe(requete'[r].id)
  BY ArriveeEffet DEF IInv
<1>2. UNCHANGED <<avenant, champs, messages, pannes, enVigueur>>
  BY ArriveeEffet DEF IInv
<1>3. /\ Dernier' = Dernier /\ \A a \in Ids : Existe(a)' <=> Existe(a)
      /\ NumerosConsecutifs'
  BY <1>2, MemesNumeros DEF IInv
<1>4. RequetesFondees'
  BY <1>1, <1>2, <1>3 DEF IInv, RequetesFondees
<1>5. NumerosReserves'
  <2>1. Dernier \in Nat
    BY DernierType DEF IInv
  <2> QED BY <1>1, <1>3, <2>1 DEF IInv, NumerosReserves
<1>6. ActifDeuxSignatures' /\ ChampsSignes'
  BY <1>2 DEF IInv, ActifDeuxSignatures, ChampsSignes
<1>7. UneRequeteActive'
  BY <1>1, <1>2 DEF IInv, UneRequeteActive
<1>8. Signees'
  BY <1>2, <1>3 DEF IInv, Signees
<1> QED BY <1>3, <1>4, <1>5, <1>6, <1>7, <1>8 DEF IInv

(* A request that moves on without writing the rows or the annonce.  When it
   leaves "statut" that way, something has failed. *)
LEMMA InvDeplacement ==
  ASSUME TypeOK, IInv, NEW r \in Requetes,
         NEW e \in {"fini", "poster", "posterRefus", "propager"}, Aller(r, e),
         UNCHANGED <<avenant, champs, enVigueur>>,
         e # "fini" => requete[r].pc \in {"statut", "propager", "annuler"},
         e = "propager" => /\ requete[r].pc = "statut" /\ requete[r].double
                           /\ avenant[requete[r].id].cle \in Propageables,
         pannes' # 0 \/ (pannes' = pannes /\ requete[r].pc # "statut")
  PROVE  IInv'
<1>1. /\ \A p \in Requetes \ {r} : requete'[p] = requete[p]
      /\ requete'[r].pc = e /\ requete'[r].id = requete[r].id
      /\ requete'[r].double = requete[r].double
  BY AllerEffet DEF Etapes
<1>2. /\ Dernier' = Dernier /\ \A a \in Ids : Existe(a)' <=> Existe(a)
      /\ NumerosConsecutifs'
  BY MemesNumeros DEF IInv
<1>3. RequetesFondees'
  BY <1>1, <1>2 DEF IInv, RequetesFondees
<1>4. NumerosReserves'
  BY <1>1, <1>2 DEF IInv, NumerosReserves
<1>5. ActifDeuxSignatures' /\ ChampsSignes'
  BY DEF IInv, ActifDeuxSignatures, ChampsSignes
<1>6. UneRequeteActive'
  BY <1>1 DEF IInv, UneRequeteActive
<1>7. Signees'
  BY <1>2 DEF IInv, Signees
<1> QED BY <1>2, <1>3, <1>4, <1>5, <1>6, <1>7 DEF IInv

(* A new row takes the next number. *)
LEMMA InvInsertion ==
  ASSUME TypeOK, IInv, NEW r \in Requetes, ProposerInserer(r), ~Aller(r, "fini")
  PROVE  IInv'
<1>1. PICK a \in Ids :
        /\ ~Existe(a) /\ requete[r].numero \notin Numeros
        /\ avenant' \in [Ids -> LignesAvenant]
        /\ \A b \in Ids \ {a} : avenant'[b] = avenant[b]
        /\ avenant'[a].numero = requete[r].numero
        /\ avenant'[a].statut = "propose" /\ avenant'[a].signatures = {}
        /\ \A p \in Requetes \ {r} : requete'[p] = requete[p]
        /\ requete'[r].pc = "annoncer" /\ requete'[r].id = a
  BY InsererEffet
<1>2. UNCHANGED <<champs, pannes, enVigueur>> /\ requete[r].pc = "inserer"
  BY DEF ProposerInserer
<1>3. Dernier \in Nat /\ requete[r].numero = Dernier + 1
  <2>1. Dernier \in Nat
    BY DernierType DEF IInv
  <2>2. requete[r].numero \in 1..(Dernier + 1) /\ requete[r].numero \notin 1..Dernier
    BY <1>1, <1>2 DEF IInv, NumerosReserves, NumerosConsecutifs
  <2> QED BY <2>1, <2>2
<1>4. /\ Existe(a)' /\ \A b \in Ids \ {a} : Existe(b)' <=> Existe(b)
  BY <1>1, <1>3 DEF Existe
<1>5. Numeros' = Numeros \cup {Dernier + 1}
  BY <1>1, <1>3, <1>4 DEF Numeros
<1>6. Numeros' = 1..(Dernier + 1)
  BY <1>3, <1>5 DEF IInv, NumerosConsecutifs
<1>7. Dernier' = Dernier + 1
  <2> DEFINE n == Dernier + 1
  <2>1. n \in Nat /\ n > 0 /\ Numeros' = 1..n
    BY <1>3, <1>6
  <2>2. Dernier' = IF Numeros' = {} THEN 0
                   ELSE CHOOSE k \in Numeros' : \A m \in Numeros' : m <= k
    BY DEF Dernier
  <2> HIDE DEF n
  <2>3. n \in Numeros' /\ \A m \in Numeros' : m <= n
    BY <2>1
  <2>4. \A k \in Numeros' : (\A m \in Numeros' : m <= k) => k = n
    BY <2>1
  <2>5. Dernier' = n
    BY <2>2, <2>3, <2>4
  <2> QED BY <2>5 DEF n
<1>8. NumerosConsecutifs'
  <2>1. ASSUME NEW b \in Ids \ {a}, Existe(b) PROVE avenant[b].numero # Dernier + 1
    <3>1. avenant[b].numero \in Numeros
      BY <2>1 DEF Numeros
    <3> QED BY <1>1, <1>3, <3>1
  <2>2. ASSUME NEW b \in Ids, NEW c \in Ids, Existe(b)',
               avenant'[b].numero = avenant'[c].numero
        PROVE  b = c
    <3>1. Existe(c)'
      BY <2>2 DEF Existe
    <3>2. CASE b # a /\ c # a
      BY <1>1, <1>4, <2>2, <3>2 DEF IInv, NumerosConsecutifs
    <3>3. CASE b = a /\ c # a
      BY <1>1, <1>3, <1>4, <2>1, <2>2, <3>1, <3>3
    <3>4. CASE b # a /\ c = a
      BY <1>1, <1>3, <1>4, <2>1, <2>2, <3>4
    <3> QED BY <3>2, <3>3, <3>4
  <2> QED BY <1>6, <1>7, <2>2 DEF NumerosConsecutifs
<1>9. RequetesFondees'
  <2>1. \A p \in Requetes \ {r} : requete[p].id = a =>
          requete[p].pc \notin {"annoncer", "marquer", "statut", "propager", "poster",
                                "annuler", "posterRefus"}
    BY <1>1 DEF IInv, RequetesFondees
  <2> QED BY <1>1, <1>2, <1>4, <2>1 DEF IInv, RequetesFondees
<1>10. NumerosReserves'
  <2>1. ASSUME NEW p \in Requetes, requete'[p].pc = "inserer"
        PROVE  requete'[p].numero \in 1..(Dernier + 1 + 1)
    BY <1>1, <1>3, <2>1 DEF IInv, NumerosReserves
  <2> QED BY <1>7, <2>1 DEF NumerosReserves
<1>11. a \notin enVigueur /\ \A c \in Propageables : champs[c] # a
  <2>1. avenant[a].signatures # Parties
    BY <1>1 DEF IInv, Signees, Parties
  <2> QED BY <2>1, AvenantsHypotheses DEF IInv, ActifDeuxSignatures, ChampsSignes
<1>12. ActifDeuxSignatures' /\ ChampsSignes'
  BY <1>1, <1>2, <1>11 DEF IInv, ActifDeuxSignatures, ChampsSignes, TypeOK
<1>13. UneRequeteActive'
  BY <1>1, <1>2 DEF IInv, UneRequeteActive, Parties
<1>14. Signees'
  BY <1>1, <1>4 DEF IInv, Signees, Parties
<1> QED BY <1>8, <1>9, <1>10, <1>12, <1>13, <1>14 DEF IInv

(* A signature is added; the request that completes the pair knows it. *)
LEMMA InvMarquer ==
  ASSUME TypeOK, IInv, NEW r \in Requetes, SignerMarquer(r)
  PROVE  IInv'
<1> DEFINE a == requete[r].id
<1>1. /\ requete[r].pc = "marquer" /\ a \in Ids /\ Existe(a)
      /\ UNCHANGED <<champs, pannes, enVigueur>>
  BY DEF SignerMarquer, IInv, RequetesFondees
<1>2. /\ \A b \in Ids \ {a} : avenant'[b] = avenant[b]
      /\ avenant'[a].numero = avenant[a].numero
      /\ avenant'[a].cle = avenant[a].cle
      /\ avenant'[a].statut = avenant[a].statut
      /\ avenant[a].signatures \subseteq avenant'[a].signatures
      /\ avenant'[a].signatures \subseteq Parties
      /\ \A p \in Requetes \ {r} : requete'[p] = requete[p]
      /\ requete'[r].pc = "statut" /\ requete'[r].id = a
      /\ requete'[r].lu = avenant[a].statut
      /\ requete'[r].double <=> avenant'[a].signatures = Parties
  BY <1>1, MarquerEffet DEF LignesAvenant
<1>3. \A b \in Ids : /\ avenant'[b].numero = avenant[b].numero
                     /\ avenant'[b].cle = avenant[b].cle
                     /\ avenant'[b].statut = avenant[b].statut
                     /\ avenant[b].signatures = Parties => avenant'[b].signatures = Parties
  BY <1>2
<1>4. /\ Dernier' = Dernier /\ \A b \in Ids : Existe(b)' <=> Existe(b)
      /\ NumerosConsecutifs'
  BY <1>3, MemesNumeros DEF IInv
<1>5. RequetesFondees'
  <2>1. avenant[a].statut = "actif" => a \in enVigueur
    BY <1>1 DEF IInv, ActifDeuxSignatures
  <2> QED BY <1>1, <1>2, <1>3, <1>4, <2>1 DEF IInv, RequetesFondees
<1>6. NumerosReserves'
  BY <1>2, <1>4 DEF IInv, NumerosReserves
<1>7. Signees'
  BY <1>1, <1>2, <1>4 DEF IInv, Signees
<1>8. ActifDeuxSignatures'
  BY <1>1, <1>3 DEF IInv, ActifDeuxSignatures
<1>9. ChampsSignes'
  <2>1. \A c \in Propageables : champs[c] # Aucun => champs[c] \in Ids
    BY DEF TypeOK
  <2> QED BY <1>1, <1>3, <2>1 DEF IInv, ChampsSignes
<1>10. UneRequeteActive'
  <2>1. ASSUME pannes = 0, NEW b \in Ids, avenant'[b].signatures = Parties, b \notin enVigueur
        PROVE  \E p \in Requetes : requete'[p].pc = "statut" /\ requete'[p].id = b
                                   /\ requete'[p].double
    <3>1. CASE b = a
      BY <1>2, <2>1, <3>1
    <3>2. CASE b # a
      BY <1>1, <1>2, <2>1, <3>2 DEF IInv, UneRequeteActive
    <3> QED BY <3>1, <3>2
  <2> QED BY <1>1, <2>1 DEF UneRequeteActive
<1> QED BY <1>4, <1>5, <1>6, <1>7, <1>8, <1>9, <1>10 DEF IInv

(* The statut of one row is written, with or without coming into force. *)
LEMMA InvEcritureStatut ==
  ASSUME TypeOK, IInv, NEW r \in Requetes, NEW a \in Ids, a = requete[r].id,
         NEW s \in Statuts, avenant' = [avenant EXCEPT ![a].statut = s],
         enVigueur' = (IF s = "actif" THEN enVigueur \cup {a} ELSE enVigueur),
         s = "actif" => avenant[a].signatures = Parties,
         UNCHANGED <<champs, pannes>>,
         \/ requete[r].pc = "annuler"
         \/ requete[r].pc = "statut" /\ (requete[r].double => a \in enVigueur'),
         NEW e \in {"propager", "poster", "posterRefus", "fini"}, Aller(r, e),
         e = "propager" => /\ requete[r].pc = "statut" /\ requete[r].double
                           /\ avenant[a].cle \in Propageables
  PROVE  IInv'
<1>1. /\ \A b \in Ids : /\ avenant'[b].numero = avenant[b].numero
                         /\ avenant'[b].cle = avenant[b].cle
                         /\ avenant'[b].signatures = avenant[b].signatures
      /\ \A b \in Ids \ {a} : avenant'[b] = avenant[b]
      /\ avenant'[a].statut = s
  BY StatutLigne
<1>2. /\ \A p \in Requetes \ {r} : requete'[p] = requete[p]
      /\ requete'[r].pc = e /\ requete'[r].id = a
      /\ requete'[r].double = requete[r].double
  BY AllerEffet DEF Etapes
<1>3. /\ Dernier' = Dernier /\ \A b \in Ids : Existe(b)' <=> Existe(b)
      /\ NumerosConsecutifs'
  BY <1>1, MemesNumeros DEF IInv
<1>4. enVigueur \subseteq enVigueur' /\ enVigueur' \subseteq enVigueur \cup {a}
  OBVIOUS
<1>5. RequetesFondees'
  BY <1>1, <1>2, <1>3, <1>4 DEF IInv, RequetesFondees
<1>6. NumerosReserves'
  BY <1>2, <1>3 DEF IInv, NumerosReserves
<1>7. Signees'
  BY <1>1, <1>3 DEF IInv, Signees
<1>8. ActifDeuxSignatures'
  BY <1>1, <1>4 DEF IInv, ActifDeuxSignatures
<1>9. ChampsSignes'
  <2>1. \A c \in Propageables : champs[c] # Aucun => champs[c] \in Ids
    BY DEF TypeOK
  <2> QED BY <1>1, <2>1 DEF IInv, ChampsSignes
<1>10. UneRequeteActive'
  BY <1>1, <1>2, <1>4 DEF IInv, UneRequeteActive
<1> QED BY <1>3, <1>5, <1>6, <1>7, <1>8, <1>9, <1>10 DEF IInv

LEMMA InvStatut ==
  ASSUME TypeOK, IInv, NEW r \in Requetes, SignerStatut(r)
  PROVE  IInv'
<1>1. PICK a \in Ids : a = requete[r].id
  BY DEF SignerStatut, IInv, RequetesFondees
<1>2. requete[r].pc = "statut" /\ UNCHANGED <<champs, pannes>>
  BY DEF SignerStatut
<1>3. PICK s \in Statuts :
        /\ avenant' = [avenant EXCEPT ![a].statut = s]
        /\ enVigueur' = IF s = "actif" THEN enVigueur \cup {a} ELSE enVigueur
        /\ requete[r].double => s = "actif" \/ requete[r].lu = "actif"
        /\ s = "actif" => requete[r].double \/ avenant[a].statut = "actif"
  BY <1>1, StatutEffet
<1>4. PICK e \in {"propager", "poster"} :
        /\ Aller(r, e)
        /\ e = "propager" => requete[r].double /\ avenant[a].cle \in Propageables
  BY <1>1, StatutSuite
<1>5. s = "actif" => avenant[a].signatures = Parties
  BY <1>1, <1>2, <1>3 DEF IInv, RequetesFondees, ActifDeuxSignatures
<1>6. requete[r].double => a \in enVigueur'
  <2>1. requete[r].lu = "actif" => a \in enVigueur
    BY <1>1, <1>2 DEF IInv, RequetesFondees
  <2>2. requete[r].double => s = "actif" \/ requete[r].lu = "actif"
    BY <1>3
  <2>3. enVigueur' = IF s = "actif" THEN enVigueur \cup {a} ELSE enVigueur
    BY <1>3
  <2> QED BY <2>1, <2>2, <2>3
<1> QED BY <1>1, <1>2, <1>3, <1>4, <1>5, <1>6, InvEcritureStatut

LEMMA InvRefus ==
  ASSUME TypeOK, IInv, NEW r \in Requetes, RefuserMarquer(r)
  PROVE  IInv'
<1>1. PICK a \in Ids : a = requete[r].id
  BY DEF RefuserMarquer, IInv, RequetesFondees
<1>2. /\ requete[r].pc = "annuler" /\ UNCHANGED <<champs, pannes, enVigueur>>
      /\ avenant' = [avenant EXCEPT ![a].statut = "annule"]
  BY <1>1 DEF RefuserMarquer
<1>3. PICK e \in {"posterRefus", "fini"} : Aller(r, e)
  BY DEF RefuserMarquer
<1>4. "annule" \in Statuts
  BY DEF Statuts
<1>5. PICK s \in Statuts :
        /\ s # "actif" /\ avenant' = [avenant EXCEPT ![a].statut = s]
        /\ enVigueur' = IF s = "actif" THEN enVigueur \cup {a} ELSE enVigueur
  BY <1>2, <1>4
<1>6. /\ requete[r].pc = "annuler" /\ UNCHANGED <<champs, pannes>>
      /\ e # "propager" /\ e \in {"propager", "poster", "posterRefus", "fini"}
  BY <1>2
<1>7. /\ \/ requete[r].pc = "annuler"
         \/ requete[r].pc = "statut" /\ (requete[r].double => a \in enVigueur')
      /\ s = "actif" => avenant[a].signatures = Parties
      /\ e = "propager" => /\ requete[r].pc = "statut" /\ requete[r].double
                           /\ avenant[a].cle \in Propageables
  BY <1>5, <1>6
<1>8. UNCHANGED champs /\ UNCHANGED pannes /\ e \in {"propager", "poster", "posterRefus", "fini"}
  BY <1>6
<1> QED BY <1>1, <1>3, <1>5, <1>7, <1>8, InvEcritureStatut

LEMMA InvPropager ==
  ASSUME TypeOK, IInv, NEW r \in Requetes, SignerPropager(r)
  PROVE  IInv'
<1>1. PICK a \in Ids : a = requete[r].id
  BY DEF SignerPropager, IInv, RequetesFondees
<1>2. /\ requete[r].pc = "propager" /\ Aller(r, "poster")
      /\ champs' = [champs EXCEPT ![avenant[a].cle] = a]
      /\ UNCHANGED <<avenant, pannes, enVigueur>>
  BY <1>1 DEF SignerPropager
<1>3. avenant[a].signatures = Parties /\ avenant[a].cle \in Propageables /\ Existe(a)
  BY <1>1, <1>2 DEF IInv, RequetesFondees
<1>4. /\ \A p \in Requetes \ {r} : requete'[p] = requete[p]
      /\ requete'[r].pc = "poster" /\ requete'[r].id = a
  BY <1>1, <1>2, AllerEffet DEF Etapes
<1>5. /\ Dernier' = Dernier /\ \A b \in Ids : Existe(b)' <=> Existe(b)
      /\ NumerosConsecutifs'
  BY <1>2, MemesNumeros DEF IInv
<1>6. RequetesFondees'
  BY <1>2, <1>3, <1>4, <1>5 DEF IInv, RequetesFondees
<1>7. NumerosReserves' /\ Signees' /\ ActifDeuxSignatures'
  BY <1>2, <1>4, <1>5 DEF IInv, NumerosReserves, Signees, ActifDeuxSignatures
<1>8. ChampsSignes'
  <2>1. \A c \in Propageables : champs'[c] = IF c = avenant[a].cle THEN a ELSE champs[c]
    BY <1>2, TypeLignes
  <2> QED BY <1>2, <1>3, <2>1 DEF IInv, ChampsSignes
<1>9. UneRequeteActive'
  BY <1>2, <1>4 DEF IInv, UneRequeteActive
<1> QED BY <1>5, <1>6, <1>7, <1>8, <1>9 DEF IInv

LEMMA InvNext ==
  ASSUME TypeOK, IInv, [Next]_vars
  PROVE  IInv'
<1>1. ASSUME NEW r \in Requetes, ProposerInserer(r) PROVE IInv'
  <2>1. CASE ~Aller(r, "fini")
    BY <1>1, <2>1, InvInsertion
  <2>2. CASE Aller(r, "fini")
    <3>1. UNCHANGED avenant
      <4>1. SUFFICES ASSUME ~UNCHANGED avenant PROVE FALSE
        OBVIOUS
      <4>2. PICK a \in Ids : requete' = [requete EXCEPT ![r] =
                                          [@ EXCEPT !.pc = "annoncer", !.id = a]]
        BY <1>1, <4>1 DEF ProposerInserer
      <4>3. requete'[r].pc = "annoncer"
        BY <4>2, TypeLignes DEF Process
      <4> QED BY <2>2, <4>3, AllerEffet DEF Etapes
    <3> QED BY <1>1, <2>2, <3>1, InvDeplacement DEF ProposerInserer
  <2> QED BY <2>1, <2>2
<1>2. ASSUME NEW r \in Requetes,
             ProposerAnnoncer(r) \/ SignerPoster(r) \/ RefuserPoster(r)
      PROVE  IInv'
  BY <1>2, InvDeplacement DEF ProposerAnnoncer, SignerPoster, RefuserPoster
<1>3. ASSUME NEW r \in Requetes, ErreurIgnoree(r) PROVE IInv'
  <2>1. pannes' # 0 /\ UNCHANGED <<avenant, champs, enVigueur>>
    BY <1>3, AvenantsHypotheses DEF ErreurIgnoree, TypeOK
  <2> QED BY <1>3, <2>1, EtapesPerdues, InvDeplacement
<1>4. ASSUME NEW r \in Requetes, Interrompre(r) PROVE IInv'
  <2>1. /\ pannes' # 0 /\ UNCHANGED <<avenant, champs, enVigueur>>
        /\ Aller(r, "fini")
    BY <1>4, AvenantsHypotheses DEF Interrompre, TypeOK
  <2> QED BY <2>1, InvDeplacement
<1>5. CASE UNCHANGED vars
  <2>1. Numeros' = Numeros /\ Dernier' = Dernier /\ (NumerosConsecutifs <=> NumerosConsecutifs')
        /\ \A a \in Ids : Existe(a)' <=> Existe(a)
    BY <1>5 DEF vars, Numeros, Dernier, Existe, NumerosConsecutifs
  <2> QED BY <1>5, <2>1 DEF vars, IInv, RequetesFondees, NumerosReserves, Signees,
                            ActifDeuxSignatures, ChampsSignes, UneRequeteActive
<1> QED BY <1>1, <1>2, <1>3, <1>4, <1>5, InvArrivee, InvMarquer, InvStatut,
           InvPropager, InvRefus DEF Next, Traitement

-----------------------------------------------------------------------------
(* The theorems.                                                           *)

(* Every variable keeps its type, and the inductive invariant holds. *)
THEOREM AvenantsInvariant == Spec => [](TypeOK /\ IInv)
<1>1. Init => TypeOK /\ IInv
  BY TypeInit, InvInit
<1>2. (TypeOK /\ IInv) /\ [Next]_vars => (TypeOK /\ IInv)'
  BY TypeNext, InvNext
<1> QED BY <1>1, <1>2, PTL DEF Spec

(* Every variable keeps its type. *)
THEOREM AvenantsTypeCorrect == Spec => []TypeOK
BY AvenantsInvariant, PTL

(* The amendments are numbered 1, 2, 3..., without a gap or a double. *)
THEOREM Numerotation == Spec => []NumerosConsecutifs
BY AvenantsInvariant, PTL DEF IInv

(* The annonce's fields come from amendments both parties have signed. *)
THEOREM ChampsCouverts == Spec => []ChampsSignes
BY AvenantsInvariant, PTL DEF IInv

(* V62: no amendment both parties have signed is forgotten. *)
THEOREM AvenantsAboutissent == Spec => []AvenantJamaisOublie
<1>1. TypeOK /\ IInv => AvenantJamaisOublie
  BY DEF IInv, UneRequeteActive, AvenantJamaisOublie, Repos
<1> QED BY <1>1, AvenantsInvariant, PTL

(* What a step does to the pair (signatures, in force) of one amendment. *)
LEMMA AccordPas ==
  ASSUME TypeOK, IInv, [Next]_vars, NEW a \in Ids
  PROVE  \/ avenant'[a].signatures = avenant[a].signatures
            /\ (a \in enVigueur' <=> a \in enVigueur)
         \/ /\ a \in enVigueur' <=> a \in enVigueur
            /\ \E p \in Parties : avenant'[a].signatures = avenant[a].signatures \cup {p}
         \/ /\ avenant[a].signatures = Parties
            /\ a \notin enVigueur /\ a \in enVigueur'
            /\ avenant'[a].signatures = avenant[a].signatures
<1> DEFINE Pas == \/ avenant'[a].signatures = avenant[a].signatures
                     /\ (a \in enVigueur' <=> a \in enVigueur)
                  \/ /\ a \in enVigueur' <=> a \in enVigueur
                     /\ \E p \in Parties : avenant'[a].signatures
                                              = avenant[a].signatures \cup {p}
                  \/ /\ avenant[a].signatures = Parties
                     /\ a \notin enVigueur /\ a \in enVigueur'
                     /\ avenant'[a].signatures = avenant[a].signatures
<1>1. ASSUME UNCHANGED <<avenant, enVigueur>> PROVE Pas
  BY <1>1
<1>2. ASSUME NEW r \in Requetes, ProposerInserer(r), ~Aller(r, "fini") PROVE Pas
  <2>1. PICK b \in Ids : /\ ~Existe(b) /\ \A c \in Ids \ {b} : avenant'[c] = avenant[c]
                         /\ avenant'[b].signatures = {}
    BY <1>2, InsererEffet
  <2>2. UNCHANGED enVigueur
    BY <1>2 DEF ProposerInserer
  <2>3. avenant[b].signatures = {}
    BY <2>1 DEF IInv, Signees
  <2> QED BY <2>1, <2>2, <2>3
<1>3. ASSUME NEW r \in Requetes, SignerMarquer(r) PROVE Pas
  <2>1. PICK b \in Ids : b = requete[r].id
    BY <1>3 DEF SignerMarquer, IInv, RequetesFondees
  <2>2. /\ avenant' = [avenant EXCEPT ![b].signatures
                         = avenant[b].signatures \cup {requete[r].partie}]
        /\ UNCHANGED enVigueur
    BY <1>3, <2>1, Zenon DEF SignerMarquer
  <2>3. requete[r].partie \in Parties
    BY RequeteType
  <2> QED BY <2>2, <2>3, TypeLignes DEF LignesAvenant
<1>4. ASSUME NEW r \in Requetes, SignerStatut(r) PROVE Pas
  <2>1. PICK b \in Ids : b = requete[r].id
    BY <1>4 DEF SignerStatut, IInv, RequetesFondees
  <2>2. requete[r].pc = "statut"
    BY <1>4 DEF SignerStatut
  <2>3. PICK s \in Statuts :
          /\ avenant' = [avenant EXCEPT ![b].statut = s]
          /\ enVigueur' = IF s = "actif" THEN enVigueur \cup {b} ELSE enVigueur
          /\ s = "actif" => requete[r].double \/ avenant[b].statut = "actif"
    BY <1>4, <2>1, StatutEffet
  <2>4. s = "actif" => avenant[b].signatures = Parties
    BY <2>1, <2>2, <2>3 DEF IInv, RequetesFondees, ActifDeuxSignatures
  <2>5. \A c \in Ids : avenant'[c].signatures = avenant[c].signatures
    BY <2>3, StatutLigne
  <2>6. enVigueur' = IF s = "actif" THEN enVigueur \cup {b} ELSE enVigueur
    BY <2>3
  <2> QED BY <2>4, <2>5, <2>6
<1>5. ASSUME NEW r \in Requetes, RefuserMarquer(r) PROVE Pas
  <2>1. PICK b \in Ids : b = requete[r].id
    BY <1>5 DEF RefuserMarquer, IInv, RequetesFondees
  <2>2. avenant' = [avenant EXCEPT ![b].statut = "annule"] /\ UNCHANGED enVigueur
    BY <1>5, <2>1 DEF RefuserMarquer
  <2> QED BY <2>2, StatutLigne DEF Statuts
<1>6. ASSUME NEW r \in Requetes, ProposerInserer(r), Aller(r, "fini") PROVE Pas
  <2>1. UNCHANGED avenant
    <3>1. SUFFICES ASSUME ~UNCHANGED avenant PROVE FALSE
      OBVIOUS
    <3>2. PICK b \in Ids : requete' = [requete EXCEPT ![r] =
                                        [@ EXCEPT !.pc = "annoncer", !.id = b]]
      BY <1>6, <3>1 DEF ProposerInserer
    <3>3. requete'[r].pc = "annoncer"
      BY <3>2, TypeLignes DEF Process
    <3> QED BY <1>6, <3>3, AllerEffet DEF Etapes
  <2> QED BY <1>1, <1>6, <2>1 DEF ProposerInserer
<1>7. ASSUME UNCHANGED vars PROVE Pas
  BY <1>1, <1>7 DEF vars
<1> HIDE DEF Pas
<1>8. ASSUME NEW r \in Requetes, Arrivee(r) PROVE Pas
  BY <1>1, <1>8 DEF Arrivee, ProposerNumero, SignerLire, RefuserLire
<1>9. ASSUME NEW r \in Requetes,
             ProposerAnnoncer(r) \/ SignerPropager(r) \/ SignerPoster(r)
               \/ RefuserPoster(r) \/ ErreurIgnoree(r) \/ Interrompre(r)
      PROVE  Pas
  BY <1>1, <1>9 DEF ProposerAnnoncer, SignerPropager, SignerPoster, RefuserPoster,
                    ErreurIgnoree, Interrompre
<1>10. ASSUME NEW r \in Requetes, ProposerInserer(r) PROVE Pas
  BY <1>2, <1>6, <1>10
<1>11. Pas
  BY <1>3, <1>4, <1>5, <1>7, <1>8, <1>9, <1>10 DEF Next, Traitement
<1> QED BY <1>11 DEF Pas

(* Each amendment is a two-party signature. *)
THEOREM AvenantsRaffinent == Spec => AccordSafe
<1>1. Init => \A a \in Ids : Accord(a)!DSInit
  BY DEF Init, SansLigne, Accord!DSInit
<1>2. ASSUME TypeOK, IInv, [Next]_vars
      PROVE  [\A a \in Ids : [Accord(a)!DSNext]_<<avenant[a].signatures,
                                                 a \in enVigueur>>]_vars
  <2>1. \A a \in Ids : [Accord(a)!DSNext]_<<avenant[a].signatures, a \in enVigueur>>
    BY <1>2, AccordPas DEF Accord!DSNext, Accord!Signer, Accord!Activer
  <2> QED BY <2>1
<1> QED BY <1>1, <1>2, AvenantsInvariant, PTL DEF Spec, AccordSafe

-----------------------------------------------------------------------------
(* What comes into force is carried to the annonce.                        *)

(* What changes a column has changed it, or a request is about to. *)
EnVigueurApplique ==
  pannes = 0 =>
    \A a \in enVigueur :
      avenant[a].cle # "clause" =>
        \/ champs[avenant[a].cle] # Aucun
        \/ \E r \in Requetes : requete[r].pc = "propager" /\ requete[r].id = a

(* A step of a request that is not copying, and settles no amendment. *)
LEMMA AppliqueMaintien ==
  ASSUME TypeOK, EnVigueurApplique, NEW r \in Requetes,
         requete[r].pc # "propager",
         \A p \in Requetes \ {r} : requete'[p] = requete[p],
         UNCHANGED <<champs, enVigueur, pannes>>,
         \A a \in enVigueur : avenant'[a].cle = avenant[a].cle
  PROVE  EnVigueurApplique'
<1> SUFFICES ASSUME pannes = 0, NEW a \in enVigueur, avenant[a].cle # "clause",
                    champs[avenant[a].cle] = Aucun
             PROVE  \E p \in Requetes : requete'[p].pc = "propager" /\ requete'[p].id = a
  BY DEF EnVigueurApplique
<1>1. PICK p \in Requetes : requete[p].pc = "propager" /\ requete[p].id = a
  BY DEF EnVigueurApplique
<1> QED BY <1>1

LEMMA AppliqueStatut ==
  ASSUME TypeOK, IInv, EnVigueurApplique, NEW r \in Requetes, SignerStatut(r)
  PROVE  EnVigueurApplique'
<1>1. PICK a \in Ids : a = requete[r].id
  BY DEF SignerStatut, IInv, RequetesFondees
<1>2. requete[r].pc = "statut" /\ UNCHANGED <<champs, pannes>>
  BY DEF SignerStatut
<1>3. PICK s \in Statuts :
        /\ avenant' = [avenant EXCEPT ![a].statut = s]
        /\ enVigueur' = IF s = "actif" THEN enVigueur \cup {a} ELSE enVigueur
        /\ s = "actif" => requete[r].double \/ avenant[a].statut = "actif"
  BY <1>1, StatutEffet
<1>4. \A b \in Ids : avenant'[b].cle = avenant[b].cle
  BY <1>3, StatutLigne
<1>5. \A p \in Requetes \ {r} : requete'[p] = requete[p]
  BY StatutSuite, AllerEffet DEF Etapes
<1>6. enVigueur \subseteq Ids
  BY DEF TypeOK
<1>7. CASE enVigueur' = enVigueur
  BY <1>2, <1>4, <1>5, <1>6, <1>7, AppliqueMaintien
<1>8. CASE enVigueur' # enVigueur
  <2>1. /\ enVigueur' = enVigueur \cup {a} /\ a \notin enVigueur
        /\ requete[r].double \/ avenant[a].statut = "actif"
    BY <1>3, <1>8
  <2>2. requete[r].double
    BY <2>1 DEF IInv, ActifDeuxSignatures
  <2>3. ASSUME NEW b \in enVigueur, pannes = 0, avenant[b].cle # "clause",
               champs[avenant[b].cle] = Aucun
        PROVE  \E p \in Requetes : requete'[p].pc = "propager" /\ requete'[p].id = b
    <3>1. PICK p \in Requetes : requete[p].pc = "propager" /\ requete[p].id = b
      BY <2>3 DEF EnVigueurApplique
    <3> QED BY <1>2, <1>5, <3>1
  <2>4. ASSUME avenant[a].cle # "clause"
        PROVE  requete'[r].pc = "propager" /\ requete'[r].id = a
    <3>1. avenant[a].cle \in Propageables
      BY <2>4, AvenantType DEF Cles, Propageables
    <3>2. Aller(r, "propager")
      BY <1>1, <2>2, <3>1 DEF SignerStatut
    <3> QED BY <1>1, <3>2, AllerEffet DEF Etapes
  <2> QED BY <1>2, <1>4, <1>6, <2>1, <2>3, <2>4 DEF EnVigueurApplique
<1> QED BY <1>7, <1>8

LEMMA AppliquePropager ==
  ASSUME TypeOK, IInv, EnVigueurApplique, NEW r \in Requetes, SignerPropager(r)
  PROVE  EnVigueurApplique'
<1>1. PICK a \in Ids : a = requete[r].id
  BY DEF SignerPropager, IInv, RequetesFondees
<1>2. /\ requete[r].pc = "propager" /\ Aller(r, "poster")
      /\ champs' = [champs EXCEPT ![avenant[a].cle] = a]
      /\ UNCHANGED <<avenant, pannes, enVigueur>>
  BY <1>1 DEF SignerPropager
<1>3. avenant[a].cle \in Propageables
  BY <1>1, <1>2 DEF IInv, RequetesFondees
<1>4. \A p \in Requetes \ {r} : requete'[p] = requete[p]
  BY <1>2, AllerEffet DEF Etapes
<1>5. \A c \in Propageables : champs'[c] = IF c = avenant[a].cle THEN a ELSE champs[c]
  BY <1>2, TypeLignes
<1>6. ASSUME NEW b \in enVigueur, pannes = 0, avenant[b].cle # "clause",
             champs'[avenant[b].cle] = Aucun
      PROVE  \E p \in Requetes : requete'[p].pc = "propager" /\ requete'[p].id = b
  <2>1. b \in Ids /\ avenant[b].cle \in Propageables
    BY <1>6, AvenantType DEF TypeOK, Cles, Propageables
  <2>2. avenant[b].cle # avenant[a].cle /\ champs[avenant[b].cle] = Aucun
    BY <1>5, <1>6, <2>1, AvenantsHypotheses
  <2>3. PICK p \in Requetes : requete[p].pc = "propager" /\ requete[p].id = b
    BY <1>6, <2>2 DEF EnVigueurApplique
  <2>4. p # r
    BY <1>1, <2>2, <2>3
  <2> QED BY <1>4, <2>3, <2>4
<1> QED BY <1>2, <1>6 DEF EnVigueurApplique

LEMMA AppliqueNext ==
  ASSUME TypeOK, IInv, EnVigueurApplique, [Next]_vars
  PROVE  EnVigueurApplique'
<1>1. ASSUME NEW r \in Requetes, Arrivee(r) PROVE EnVigueurApplique'
  BY <1>1, ArriveeEffet, AppliqueMaintien DEF IInv
<1>2. ASSUME NEW r \in Requetes, ProposerInserer(r) PROVE EnVigueurApplique'
  <2>1. requete[r].pc = "inserer" /\ UNCHANGED <<champs, pannes, enVigueur>>
    BY <1>2 DEF ProposerInserer
  <2>2. CASE Aller(r, "fini")
    <3>1. UNCHANGED avenant
      <4>1. SUFFICES ASSUME ~UNCHANGED avenant PROVE FALSE
        OBVIOUS
      <4>2. PICK a \in Ids : requete' = [requete EXCEPT ![r] =
                                          [@ EXCEPT !.pc = "annoncer", !.id = a]]
        BY <1>2, <4>1 DEF ProposerInserer
      <4>3. requete'[r].pc = "annoncer"
        BY <4>2, TypeLignes DEF Process
      <4> QED BY <2>2, <4>3, AllerEffet DEF Etapes
    <3> QED BY <2>1, <2>2, <3>1, AllerEffet, AppliqueMaintien DEF Etapes
  <2>3. CASE ~Aller(r, "fini")
    <3>1. PICK a \in Ids : /\ ~Existe(a) /\ \A b \in Ids \ {a} : avenant'[b] = avenant[b]
                           /\ \A p \in Requetes \ {r} : requete'[p] = requete[p]
      BY <1>2, <2>3, InsererEffet
    <3>2. a \notin enVigueur
      BY <3>1 DEF IInv, Signees, ActifDeuxSignatures, Parties
    <3>3. \A b \in enVigueur : avenant'[b].cle = avenant[b].cle
      BY <3>1, <3>2 DEF TypeOK
    <3> QED BY <2>1, <3>1, <3>3, AppliqueMaintien
  <2> QED BY <2>2, <2>3
<1>3. ASSUME NEW r \in Requetes, SignerMarquer(r) PROVE EnVigueurApplique'
  <2>1. requete[r].id \in Ids
    BY <1>3 DEF SignerMarquer, IInv, RequetesFondees
  <2>2. /\ requete[r].pc = "marquer" /\ UNCHANGED <<champs, pannes, enVigueur>>
        /\ \A p \in Requetes \ {r} : requete'[p] = requete[p]
        /\ \A a \in Ids : avenant'[a].cle = avenant[a].cle
    BY <1>3, <2>1, MarquerEffet DEF SignerMarquer
  <2> QED BY <2>2, AppliqueMaintien DEF TypeOK
<1>4. ASSUME NEW r \in Requetes, RefuserMarquer(r) PROVE EnVigueurApplique'
  <2>1. PICK a \in Ids : a = requete[r].id
    BY <1>4 DEF RefuserMarquer, IInv, RequetesFondees
  <2>2. /\ requete[r].pc = "annuler" /\ UNCHANGED <<champs, pannes, enVigueur>>
        /\ avenant' = [avenant EXCEPT ![a].statut = "annule"]
    BY <1>4, <2>1 DEF RefuserMarquer
  <2>3. PICK e \in {"posterRefus", "fini"} : Aller(r, e)
    BY <1>4 DEF RefuserMarquer
  <2>4. \A p \in Requetes \ {r} : requete'[p] = requete[p]
    BY <2>3, AllerEffet DEF Etapes
  <2>5. \A b \in Ids : avenant'[b].cle = avenant[b].cle
    BY <2>2, StatutLigne DEF Statuts
  <2> QED BY <2>2, <2>4, <2>5, AppliqueMaintien DEF TypeOK
<1>5. ASSUME NEW r \in Requetes,
             ProposerAnnoncer(r) \/ SignerPoster(r) \/ RefuserPoster(r)
      PROVE  EnVigueurApplique'
  <2>1. /\ requete[r].pc # "propager" /\ Aller(r, "fini")
        /\ UNCHANGED <<avenant, champs, pannes, enVigueur>>
    BY <1>5 DEF ProposerAnnoncer, SignerPoster, RefuserPoster
  <2> QED BY <2>1, AllerEffet, AppliqueMaintien DEF Etapes
<1>6. ASSUME NEW r \in Requetes, ErreurIgnoree(r) \/ Interrompre(r)
      PROVE  EnVigueurApplique'
  <2>1. pannes' # 0
    BY <1>6, AvenantsHypotheses DEF ErreurIgnoree, Interrompre, TypeOK
  <2> QED BY <2>1 DEF EnVigueurApplique
<1>7. CASE UNCHANGED vars
  BY <1>7 DEF vars, EnVigueurApplique
<1> QED BY <1>1, <1>2, <1>3, <1>4, <1>5, <1>6, <1>7, AppliqueStatut,
           AppliquePropager DEF Next, Traitement

(* With no failure, what is shown as "actif" has been copied to the annonce. *)
THEOREM AvenantsAppliques == Spec => []ActifApplique
<1>1. Init => EnVigueurApplique
  BY DEF Init, EnVigueurApplique
<1>2. TypeOK /\ IInv /\ EnVigueurApplique /\ [Next]_vars => EnVigueurApplique'
  BY AppliqueNext
<1>3. TypeOK /\ IInv /\ EnVigueurApplique => ActifApplique
  BY DEF IInv, ActifDeuxSignatures, EnVigueurApplique, ActifApplique, Repos
<1> QED BY <1>1, <1>2, <1>3, AvenantsInvariant, PTL DEF Spec
==============================================================================
