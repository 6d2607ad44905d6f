-------------------------- MODULE EtatDesLieuxProofs --------------------------
(***************************************************************************)
(* Proofs about EtatDesLieux, for any number of requests and failures.     *)
(***************************************************************************)
EXTENDS EtatDesLieux, TLAPS

Lignes == [statut : Statuts, type : Genres, texte : Nat,
           signeLoc : BOOLEAN, signeBail : BOOLEAN]
Process == [pc : Etapes, statut : Statuts, type : Genres, texte : Nat, avant : BOOLEAN]

\* Texts known to the requests have been written, and a save about to write has
\* read the row unsigned.
RequetesFondees == \A r \in Requetes :
  /\ requete[r].texte <= versions
  /\ requete[r].pc = "ecrire" => requete[r].avant

Types == TypeOK /\ RequetesFondees

LEMMA TypesLignes ==
  ASSUME TypeOK
  PROVE  entree \in Lignes /\ requete \in [Requetes -> Process] /\ versions \in Nat
BY DEF TypeOK, Lignes, Process

\* A step of a request that changes nothing of what it holds but its place.
LEMMA AllerTypes ==
  ASSUME Types, NEW r \in Requetes, NEW e \in Etapes \ {"relire", "ecrire"}, Aller(r, e),
         versions' = versions
  PROVE  requete' \in [Requetes -> Process] /\ RequetesFondees'
<1>1. requete \in [Requetes -> Process]
  BY TypesLignes DEF Types
<1>2. requete' \in [Requetes -> Process]
  BY <1>1 DEF Aller, Process
<1>3. \A q \in Requetes : /\ requete'[q].texte = requete[q].texte
                          /\ requete'[q].statut = requete[q].statut
                          /\ requete'[q].avant = requete[q].avant
                          /\ requete'[q].pc \in {requete[q].pc, e}
  BY <1>1 DEF Aller, Process
<1> QED BY <1>2, <1>3 DEF Types, RequetesFondees

LEMMA FinirTypes ==
  ASSUME Types, NEW r \in Requetes, Finir(r), versions' = versions
  PROVE  requete' \in [Requetes -> Process] /\ RequetesFondees'
<1>1. requete \in [Requetes -> Process] /\ versions \in Nat
  BY TypesLignes DEF Types
<1>2. [Depart EXCEPT !.pc = "fini"] \in Process
  BY DEF Depart, Process, Etapes, Statuts, Genres
<1>3. requete' \in [Requetes -> Process]
  BY <1>1, <1>2 DEF Finir
<1>4. /\ requete'[r] = [Depart EXCEPT !.pc = "fini"]
      /\ \A q \in Requetes : q # r => requete'[q] = requete[q]
  BY <1>1 DEF Finir
<1>5. requete'[r].texte = 0 /\ requete'[r].pc = "fini"
  BY <1>4 DEF Depart
<1>6. ASSUME NEW q \in Requetes
      PROVE  /\ requete'[q].texte <= versions'
             /\ requete'[q].pc = "ecrire" => requete'[q].avant
  <2>1. CASE q = r
    BY <1>1, <1>5, <2>1
  <2>2. CASE q # r
    BY <1>4, <2>2 DEF Types, RequetesFondees
  <2> QED BY <2>1, <2>2
<1> QED BY <1>3, <1>6 DEF RequetesFondees

LEMMA TypesInit == Init => Types
<1> SUFFICES ASSUME Init PROVE Types
  OBVIOUS
<1>1. Depart \in Process
  BY DEF Depart, Process, Etapes, Statuts, Genres
<1>2. requete \in [Requetes -> Process]
  BY <1>1 DEF Init
<1>3. entree \in Lignes /\ entree.texte = 0
  <2>1. PICK s \in IF importe THEN {"valide"} ELSE Statuts :
          /\ entree = [statut |-> s, type |-> "entree", texte |-> 0,
                       signeLoc |-> importe, signeBail |-> importe]
    BY DEF Init
  <2>2. s \in Statuts /\ importe \in BOOLEAN /\ "entree" \in Genres
    BY DEF Statuts, Genres, Init
  <2> QED BY <2>1, <2>2 DEF Lignes
<1>4. pannes \in 0..MaxPannes
  BY EdlHypotheses DEF Init
<1>5. RequetesFondees
  BY DEF Init, Depart, RequetesFondees
<1>6. entree.texte <= versions /\ versions \in Nat /\ signee \in Nat
  BY <1>3 DEF Init
<1>7. /\ signatures \in SUBSET Roles
      /\ importe \in BOOLEAN /\ ancienne \in BOOLEAN /\ sortie \in BOOLEAN
      /\ croise \in BOOLEAN /\ avalisee \in BOOLEAN
  BY DEF Init
<1> QED BY <1>2, <1>3, <1>4, <1>5, <1>6, <1>7 DEF Types, TypeOK, Lignes, Process

LEMMA TypesEtape == Types /\ [Next]_vars => Types'
<1> SUFFICES ASSUME Types, [Next]_vars PROVE Types'
  OBVIOUS
<1>0. entree \in Lignes /\ requete \in [Requetes -> Process] /\ versions \in Nat /\ TypeOK
  BY TypesLignes DEF Types
<1>a. {"signer", "contester", "denoncer", "valider", "contresigner", "tamponner", "inserer"}
        \subseteq Etapes \ {"relire", "ecrire"}
  BY DEF Etapes
<1>1. ASSUME NEW r \in Requetes, Ouvrir(r) PROVE Types'
  <2>1. UNCHANGED <<entree, signatures, fixes, sortie, pannes, signee, croise, avalisee>>
    BY <1>1 DEF Ouvrir
  <2>2. PICK s \in Statuts, t \in Genres, n \in {0, versions + 1} :
          /\ requete' = [requete EXCEPT ![r] =
               [@ EXCEPT !.pc = "relire", !.statut = s, !.type = t, !.texte = n]]
          /\ versions' = IF n = 0 THEN versions ELSE n
    BY <1>1 DEF Ouvrir
  <2>3. n \in Nat /\ versions' \in Nat /\ n <= versions' /\ versions <= versions'
    BY <1>0, <2>2
  <2>4. [requete[r] EXCEPT !.pc = "relire", !.statut = s, !.type = t, !.texte = n] \in Process
    BY <1>0, <2>3 DEF Process, Etapes
  <2>5. requete' \in [Requetes -> Process]
    BY <1>0, <2>2, <2>4
  <2>6. RequetesFondees'
    <3>1. \A q \in Requetes : q # r => requete'[q] = requete[q]
      BY <1>0, <2>2
    <3>2. requete'[r].texte = n /\ requete'[r].pc = "relire"
      BY <1>0, <2>2 DEF Process
    <3>3. \A q \in Requetes : requete[q].texte \in Nat
      BY <1>0 DEF Process
    <3> QED BY <1>0, <2>3, <3>1, <3>2, <3>3 DEF Types, RequetesFondees
  <2>7. entree'.texte <= versions'
    BY <1>0, <2>1, <2>3 DEF TypeOK, Lignes
  <2> QED BY <1>0, <2>1, <2>3, <2>5, <2>6, <2>7 DEF Types, TypeOK, Process, fixes
<1>2. ASSUME NEW r \in Requetes, SauverRelire(r) PROVE Types'
  <2>1. UNCHANGED <<entree, signatures, fixes, sortie, versions, pannes, signee, croise, avalisee>>
    BY <1>2 DEF SauverRelire
  <2>2. CASE Finir(r)
    BY <1>0, <2>1, <2>2, FinirTypes DEF Types, TypeOK, Process, fixes
  <2>3. CASE requete' = [requete EXCEPT ![r] = [@ EXCEPT !.pc = "ecrire", !.avant = TRUE]]
    <3>1. requete' \in [Requetes -> Process]
      BY <1>0, <2>3 DEF Process, Etapes
    <3>2. RequetesFondees'
      BY <1>0, <2>1, <2>3 DEF Types, RequetesFondees, Process
    <3> QED BY <1>0, <2>1, <3>1, <3>2 DEF Types, TypeOK, Process, fixes
  <2> QED BY <1>2, <2>2, <2>3 DEF SauverRelire
<1>3. ASSUME NEW r \in Requetes, SauverEcrire(r) PROVE Types'
  <2>1. Finir(r) /\ versions' = versions
    BY <1>3 DEF SauverEcrire
  <2>2. requete' \in [Requetes -> Process] /\ RequetesFondees'
    BY <2>1, FinirTypes
  <2>3. /\ requete[r].statut \in Statuts /\ requete[r].type \in Genres
        /\ requete[r].texte \in Nat /\ requete[r].texte <= versions
    BY <1>0 DEF Process, Types, RequetesFondees
  <2>4. entree' \in Lignes /\ entree'.texte <= versions'
    BY <1>0, <1>3, <2>1, <2>3 DEF SauverEcrire, Lignes, TypeOK
  <2>5. croise' \in BOOLEAN /\ sortie' \in BOOLEAN /\ avalisee' \in BOOLEAN
    BY <1>0, <1>3 DEF SauverEcrire, TypeOK
  <2>6. UNCHANGED <<signatures, fixes, pannes, signee>>
    BY <1>3 DEF SauverEcrire
  <2> QED BY <1>0, <2>1, <2>2, <2>4, <2>5, <2>6 DEF Types, TypeOK, Lignes, Process, fixes
<1>4. ASSUME NEW r \in Requetes, Lire(r) \/ DenoncerLire(r) \/ SortieLire(r) \/ Interrompre(r)
      PROVE  Types'
  <2>1. Finir(r) \/ \E e \in Etapes \ {"relire", "ecrire"} : Aller(r, e)
    BY <1>4, <1>a DEF Lire, DenoncerLire, SortieLire, Interrompre
  <2>2. UNCHANGED <<entree, signatures, fixes, sortie, versions, signee, croise, avalisee>>
    BY <1>4 DEF Lire, DenoncerLire, SortieLire, Interrompre
  <2>3. pannes' \in 0..MaxPannes
    BY <1>0, <1>4, EdlHypotheses DEF Lire, DenoncerLire, SortieLire, Interrompre, TypeOK
  <2>4. requete' \in [Requetes -> Process] /\ RequetesFondees'
    BY <2>1, <2>2, AllerTypes, FinirTypes
  <2> QED BY <1>0, <2>2, <2>3, <2>4 DEF Types, TypeOK, Process, fixes
<1>5. ASSUME NEW r \in Requetes,
             Contester(r) \/ Denoncer(r) \/ Valider(r) \/ Tamponner(r)
      PROVE  Types'
  <2>1. Finir(r)
    BY <1>5 DEF Contester, Denoncer, Valider, Tamponner
  <2>2. UNCHANGED <<signatures, fixes, sortie, versions, pannes, croise, avalisee>>
    BY <1>5 DEF Contester, Denoncer, Valider, Tamponner
  <2>3. entree' \in Lignes /\ entree'.texte = entree.texte /\ signee' \in Nat
    BY <1>0, <1>5 DEF Contester, Denoncer, Valider, Tamponner, Lignes, Statuts, TypeOK
  <2>4. requete' \in [Requetes -> Process] /\ RequetesFondees'
    BY <2>1, <2>2, FinirTypes
  <2> QED BY <1>0, <2>2, <2>3, <2>4 DEF Types, TypeOK, Process, Lignes, fixes
<1>6. ASSUME NEW r \in Requetes, Signer(r) \/ Contresigner(r) \/ SortieInserer(r)
      PROVE  Types'
  <2>1. Finir(r) \/ \E e \in Etapes \ {"relire", "ecrire"} : Aller(r, e)
    BY <1>6, <1>a DEF Signer, Contresigner, SortieInserer
  <2>2. UNCHANGED <<entree, fixes, versions, pannes, signee, croise, avalisee>>
    BY <1>6 DEF Signer, Contresigner, SortieInserer
  <2>3. signatures' \in SUBSET Roles /\ sortie' \in BOOLEAN
    BY <1>0, <1>6 DEF Signer, Contresigner, SortieInserer, TypeOK, Roles
  <2>4. requete' \in [Requetes -> Process] /\ RequetesFondees'
    BY <2>1, <2>2, AllerTypes, FinirTypes
  <2> QED BY <1>0, <2>2, <2>3, <2>4 DEF Types, TypeOK, Process, fixes
<1>7. CASE UNCHANGED vars
  BY <1>7 DEF vars, fixes, Types, TypeOK, RequetesFondees
<1> QED BY <1>1, <1>2, <1>3, <1>4, <1>5, <1>6, <1>7 DEF Next, Requetes

LEMMA EdlTypes == Spec => []Types
BY TypesInit, TypesEtape, PTL DEF Spec

\* Type correctness of the inspections: the text is always one the owner wrote.
THEOREM EdlTypeCorrect == Spec => []TypeOK
<1>1. Types => TypeOK
  BY DEF Types
<1> QED BY <1>1, EdlTypes, PTL

-----------------------------------------------------------------------------
(* The signed text.                                                        *)

LEMMA SignatureInit == Init => SignatureTient
BY DEF Init, SignatureTient

LEMMA SignatureEtape == Types /\ SignatureTient /\ [Next]_vars => SignatureTient'
<1> SUFFICES ASSUME Types, SignatureTient, [Next]_vars PROVE SignatureTient'
  OBVIOUS
<1>0. entree \in Lignes
  BY TypesLignes DEF Types
<1> USE DEF SignatureTient
<1>1. ASSUME NEW r \in Requetes, SauverEcrire(r) PROVE SignatureTient'
  <2>1. requete[r].avant
    BY <1>1 DEF SauverEcrire, Types, RequetesFondees
  <2>2. croise' = (croise \/ entree.signeLoc)
    BY <1>1, <2>1 DEF SauverEcrire
  <2>3. entree'.signeLoc = entree.signeLoc
    BY <1>0, <1>1 DEF SauverEcrire, Lignes
  <2> QED BY <2>2, <2>3
<1>2. ASSUME NEW r \in Requetes, Contester(r) \/ Denoncer(r) PROVE SignatureTient'
  BY <1>0, <1>2 DEF Contester, Denoncer, Lignes
<1>3. ASSUME NEW r \in Requetes, Valider(r) PROVE SignatureTient'
  BY <1>0, <1>3 DEF Valider, Lignes
<1>4. ASSUME NEW r \in Requetes, Tamponner(r) PROVE SignatureTient'
  BY <1>0, <1>4 DEF Tamponner, Lignes
<1>5. CASE UNCHANGED <<entree, signee, croise>>
  BY <1>5
<1>6. \/ \E r \in Requetes : \/ SauverEcrire(r) \/ Contester(r) \/ Denoncer(r)
                             \/ Valider(r) \/ Tamponner(r)
      \/ UNCHANGED <<entree, signee, croise>>
  BY DEF Next, vars, Ouvrir, SauverRelire, Lire, DenoncerLire, Signer,
         Contresigner, SortieLire, SortieInserer, Interrompre
<1> QED BY <1>1, <1>2, <1>3, <1>4, <1>5, <1>6

\* The signed text: no save whose check came after the signature changes it.
THEOREM SignatureConservee == Spec => []SignatureTient
<1>1. Types /\ SignatureTient /\ [Next]_vars => Types' /\ SignatureTient'
  BY TypesEtape, SignatureEtape
<1>2. Init => Types /\ SignatureTient
  BY TypesInit, SignatureInit
<1> QED BY <1>1, <1>2, PTL DEF Spec

-----------------------------------------------------------------------------
(* The inspection of exit.                                                 *)

Atteste == importe \/ ancienne \/ avalisee \/ "locataire" \in signatures

\* A valid row, and the requests past a valid row or the signature, have it.
Fondements ==
  /\ SortieFondee
  /\ entree.statut = "valide" => Atteste
  /\ \A r \in Requetes : requete[r].pc \in {"valider", "inserer"} => Atteste

LEMMA FondementsInit == Init => Fondements
<1> SUFFICES ASSUME Init PROVE Fondements
  OBVIOUS
<1>1. ASSUME ~importe, entree.statut = "valide" PROVE avalisee
  <2>1. PICK s \in IF importe THEN {"valide"} ELSE Statuts :
          /\ entree = [statut |-> s, type |-> "entree", texte |-> 0,
                       signeLoc |-> importe, signeBail |-> importe]
          /\ avalisee = (~importe /\ s = "valide")
    BY DEF Init
  <2>2. s = "valide"
    BY <1>1, <2>1
  <2> QED BY <1>1, <2>1, <2>2
<1>2. \A r \in Requetes : requete[r].pc \notin {"valider", "inserer"}
  BY DEF Init, Depart
<1>3. SortieFondee
  BY DEF Init, SortieFondee
<1> QED BY <1>1, <1>2, <1>3 DEF Fondements, Atteste

LEMMA AttesteStable ==
  ASSUME Types, [Next]_vars, Atteste
  PROVE  Atteste'
<1>1. CASE \E r \in Requetes : SauverEcrire(r)
  <2>1. /\ UNCHANGED <<importe, ancienne, signatures>>
        /\ avalisee => avalisee'
    BY <1>1 DEF SauverEcrire, fixes
  <2> QED BY <2>1 DEF Atteste
<1>2. CASE ~ \E r \in Requetes : SauverEcrire(r)
  <2> USE DEF Next, vars, Ouvrir, SauverRelire, Lire, Contester, DenoncerLire, Denoncer,
              Signer, Valider, Contresigner, Tamponner, SortieLire, SortieInserer, Interrompre
  <2>1. UNCHANGED <<fixes, avalisee>>
    BY <1>2
  <2>2. signatures \subseteq signatures'
    BY <1>2
  <2> QED BY <2>1, <2>2 DEF Atteste, fixes
<1> QED BY <1>1, <1>2

\* Only the request itself moves.
LEMMA UneRequete ==
  ASSUME Types, NEW r \in Requetes, NEW e \in Etapes, Aller(r, e) \/ (e = "fini" /\ Finir(r))
  PROVE  \A q \in Requetes : requete'[q].pc = IF q = r THEN e ELSE requete[q].pc
BY TypesLignes DEF Types, Aller, Finir, Depart, Process

LEMMA FondementsEtape == Types /\ Fondements /\ [Next]_vars => Fondements'
<1> SUFFICES ASSUME Types, Fondements, [Next]_vars PROVE Fondements'
  OBVIOUS
<1>0. entree \in Lignes /\ requete \in [Requetes -> Process] /\ (Atteste => Atteste')
  BY TypesLignes, AttesteStable DEF Types
<1> USE DEF Fondements, SortieFondee
<1>e. {"fini", "signer", "contester", "denoncer", "contresigner", "tamponner"} \subseteq Etapes
  BY DEF Etapes
<1>s. SortieFondee <=> (sortie => Atteste)
  BY DEF Atteste
<1>t. SortieFondee' <=> (sortie' => Atteste')
  BY DEF Atteste
<1>1. ASSUME NEW r \in Requetes, Ouvrir(r) \/ SauverRelire(r) PROVE Fondements'
  <2>1. \A q \in Requetes : requete'[q].pc \in {requete[q].pc, "relire", "ecrire", "fini"}
    BY <1>0, <1>1 DEF Ouvrir, SauverRelire, Finir, Depart, Process
  <2>2. UNCHANGED <<entree, sortie>>
    BY <1>1 DEF Ouvrir, SauverRelire
  <2> QED BY <1>0, <1>s, <1>t, <2>1, <2>2
<1>2. ASSUME NEW r \in Requetes, SauverEcrire(r) PROVE Fondements'
  <2>1. entree'.statut = requete[r].statut
    BY <1>0, <1>2 DEF SauverEcrire, Lignes
  <2>2. /\ requete[r].statut = "valide" \/ requete[r].type = "sortie" => avalisee'
        /\ sortie' => sortie \/ requete[r].type = "sortie"
    BY <1>2 DEF SauverEcrire
  <2>3. \A q \in Requetes : requete'[q].pc \in {requete[q].pc, "fini"}
    BY <1>2, <1>e, UneRequete DEF SauverEcrire
  <2>4. avalisee' => Atteste'
    BY DEF Atteste
  <2> QED BY <1>0, <1>s, <1>t, <2>1, <2>2, <2>3, <2>4
<1>3. ASSUME NEW r \in Requetes, Contester(r) \/ Denoncer(r) \/ Tamponner(r) PROVE Fondements'
  <2>1. entree'.statut \in {entree.statut, "conteste"}
    BY <1>0, <1>3 DEF Contester, Denoncer, Tamponner, Lignes
  <2>2. \A q \in Requetes : requete'[q].pc \in {requete[q].pc, "fini"}
    BY <1>3, <1>e, UneRequete DEF Contester, Denoncer, Tamponner
  <2>3. UNCHANGED sortie
    BY <1>3 DEF Contester, Denoncer, Tamponner
  <2> QED BY <1>0, <1>s, <1>t, <2>1, <2>2, <2>3
<1>4. ASSUME NEW r \in Requetes, Lire(r) \/ DenoncerLire(r) \/ Interrompre(r)
      PROVE  Fondements'
  <2>1. \A q \in Requetes : requete'[q].pc \in
          {requete[q].pc, "fini", "signer", "contester", "denoncer", "contresigner"}
    BY <1>4, <1>e, UneRequete DEF Lire, DenoncerLire, Interrompre
  <2>2. UNCHANGED <<entree, sortie>>
    BY <1>4 DEF Lire, DenoncerLire, Interrompre
  <2> QED BY <1>0, <1>s, <1>t, <2>1, <2>2
<1>5. ASSUME NEW r \in Requetes, Signer(r) \/ Contresigner(r) PROVE Fondements'
  <2>1. UNCHANGED <<entree, sortie>>
    BY <1>5 DEF Signer, Contresigner
  <2>2. CASE Signer(r)
    BY <1>0, <1>t, <2>1, <2>2 DEF Signer, Atteste
  <2>3. CASE Contresigner(r)
    <3>1. \A q \in Requetes : requete'[q].pc \in {requete[q].pc, "tamponner"}
      BY <2>3, <1>e, UneRequete DEF Contresigner
    <3> QED BY <1>0, <1>s, <1>t, <2>1, <3>1
  <2> QED BY <1>5, <2>2, <2>3
<1>6. ASSUME NEW r \in Requetes, Valider(r) \/ SortieLire(r) \/ SortieInserer(r)
      PROVE  Fondements'
  <2>1. Atteste
    BY <1>6 DEF Valider, SortieLire, SortieInserer, Atteste
  <2> QED BY <1>0, <1>t, <2>1
<1>7. CASE UNCHANGED vars
  BY <1>0, <1>s, <1>t, <1>7 DEF vars
<1> QED BY <1>1, <1>2, <1>3, <1>4, <1>5, <1>6, <1>7 DEF Next, Requetes

\* The inspection of exit: it stands on a signed inspection of entry, on that of
\* a former let or on the owner's own word.
THEOREM SortiesFondees == Spec => []SortieFondee
<1>1. Types /\ Fondements /\ [Next]_vars => Types' /\ Fondements'
  BY TypesEtape, FondementsEtape
<1>2. Init => Types /\ Fondements
  BY TypesInit, FondementsInit
<1>3. Fondements => SortieFondee
  BY DEF Fondements
<1> QED BY <1>1, <1>2, <1>3, PTL DEF Spec
==============================================================================
