---------------------------- MODULE WebhooksProofs ----------------------------
(***************************************************************************)
(* Proofs about Webhooks, for any number of webhooks, events, passes,      *)
(* attempts and failures.                                                  *)
(***************************************************************************)
EXTENDS Webhooks, TLAPS

Rangees == [statut : Statuts, essais : 0..MaxEssais]
Taches == [pc : EtapesTache, essais : 0..(MaxEssais - 1), code : Codes]
Emissions == [pc : {"attente", "inserer", "fini"}, cibles : SUBSET Points]

LEMMA TypeLignes ==
  TypeOK <=> /\ webhook \in [Points -> {"absent", "actif", "inactif", "supprime"}]
             /\ emission \in [Evenements -> Emissions]
             /\ livraison \in [Livraisons -> Rangees]
             /\ \A l \in EnAttente : livraison[l].essais < MaxEssais
             /\ tache \in [Passes -> [Livraisons -> Taches]]
             /\ pannes \in 0..MaxPannes
             /\ reglages \in 0..MaxReglages
             /\ echecs \in [Livraisons -> 0..MaxEssais]
             /\ recues \subseteq Livraisons
             /\ redites \subseteq Livraisons /\ croisees \subseteq Livraisons
             /\ coupes \subseteq Points
BY DEF TypeOK, Rangees, Taches, Emissions

LEMMA TypeApres ==
  ASSUME webhook' \in [Points -> {"absent", "actif", "inactif", "supprime"}],
         emission' \in [Evenements -> Emissions],
         livraison' \in [Livraisons -> Rangees],
         \A l \in Livraisons : livraison'[l].statut = "pending" => livraison'[l].essais < MaxEssais,
         tache' \in [Passes -> [Livraisons -> Taches]],
         pannes' \in 0..MaxPannes, reglages' \in 0..MaxReglages,
         echecs' \in [Livraisons -> 0..MaxEssais],
         recues' \subseteq Livraisons, redites' \subseteq Livraisons,
         croisees' \subseteq Livraisons, coupes' \subseteq Points
  PROVE  TypeOK'
BY DEF TypeOK, Rangees, Taches, Emissions, EnAttente

LEMMA EssaisRestants ==
  TypeOK => \A l \in Livraisons : livraison[l].statut = "pending" => livraison[l].essais < MaxEssais
BY DEF TypeOK, EnAttente

\* A step of one processDelivery.
Poser(p, l, x) == tache' = [tache EXCEPT ![p][l] = x]

LEMMA PoserEffet ==
  ASSUME tache \in [Passes -> [Livraisons -> Taches]],
         NEW p \in Passes, NEW l \in Livraisons, NEW x, Poser(p, l, x)
  PROVE  /\ \A q \in Passes, m \in Livraisons :
              tache'[q][m] = IF q = p /\ m = l THEN x ELSE tache[q][m]
         /\ x \in Taches => tache' \in [Passes -> [Livraisons -> Taches]]
<1>1. tache' = [tache EXCEPT ![p] = [tache[p] EXCEPT ![l] = x]]
  BY DEF Poser
<1>2. \A q \in Passes, m \in Livraisons :
        tache'[q][m] = IF q = p /\ m = l THEN x ELSE tache[q][m]
  BY <1>1
<1>3. x \in Taches => [tache[p] EXCEPT ![l] = x] \in [Livraisons -> Taches]
  OBVIOUS
<1> QED BY <1>1, <1>2, <1>3

LEMMA LibreTache == Libre \in Taches
BY WebhooksHypotheses DEF Libre, Taches, EtapesTache, Codes

LEMMA AllerPoser ==
  ASSUME tache \in [Passes -> [Livraisons -> Taches]],
         NEW p \in Passes, NEW l \in Livraisons, NEW e \in EtapesTache, Aller(p, l, e)
  PROVE  \E x \in Taches : /\ Poser(p, l, x)
                            /\ x.pc = e /\ x.essais = tache[p][l].essais
<1>1. tache[p][l] \in Taches
  OBVIOUS
<1>2. /\ [tache[p][l] EXCEPT !.pc = e] \in Taches
      /\ [tache[p][l] EXCEPT !.pc = e].pc = e
      /\ [tache[p][l] EXCEPT !.pc = e].essais = tache[p][l].essais
  BY <1>1 DEF Taches
<1>3. Poser(p, l, [tache[p][l] EXCEPT !.pc = e])
  BY DEF Aller, Poser
<1> QED BY <1>2, <1>3

LEMMA EcrireLigne ==
  ASSUME TypeOK, NEW p \in Passes, NEW l \in Livraisons, Ecrire(p, l)
  PROVE  /\ livraison' \in [Livraisons -> Rangees]
         /\ \A m \in Livraisons : m # l => livraison'[m] = livraison[m]
         /\ livraison[l].statut = "absente" => livraison'[l] = livraison[l]
         /\ livraison[l].statut # "absente" =>
              /\ livraison'[l].essais = tache[p][l].essais + 1
              /\ livraison'[l].statut =
                   IF tache[p][l].code = "2xx" THEN "success"
                   ELSE IF PeutRetenter(tache[p][l].code, tache[p][l].essais + 1)
                        THEN "pending" ELSE "failed"
<1>1. livraison \in [Livraisons -> Rangees] /\ tache[p][l] \in Taches
  BY TypeLignes
<1> DEFINE essai == tache[p][l].essais + 1
           statut == IF tache[p][l].code = "2xx" THEN "success"
                     ELSE IF PeutRetenter(tache[p][l].code, essai) THEN "pending" ELSE "failed"
           ligne == IF livraison[l].statut = "absente" THEN livraison[l]
                    ELSE [statut |-> statut, essais |-> essai]
<1>2. livraison' = [livraison EXCEPT ![l] = ligne]
  BY DEF Ecrire
<1>3. essai \in 0..MaxEssais /\ statut \in Statuts
  BY <1>1, WebhooksHypotheses DEF Taches, Statuts
<1>4. [statut |-> statut, essais |-> essai] \in Rangees
  BY <1>3 DEF Rangees
<1>5. ligne \in Rangees
  BY <1>1, <1>4
<1>6. livraison'[l] = ligne /\ \A m \in Livraisons : m # l => livraison'[m] = livraison[m]
  BY <1>1, <1>2
<1> HIDE DEF ligne, statut
<1>7. livraison' \in [Livraisons -> Rangees]
  BY <1>1, <1>2, <1>5
<1> QED BY <1>6, <1>7 DEF ligne, statut

LEMMA AjouterLigne ==
  ASSUME TypeOK, NEW e \in Evenements, NEW c \in SUBSET Points, Ajouter(e, c)
  PROVE  /\ livraison' \in [Livraisons -> Rangees]
         /\ \A l \in Livraisons : \/ livraison'[l] = livraison[l]
                                  \/ /\ l[1] = e /\ l[2] \in c
                                     /\ livraison'[l].statut = "pending"
                                     /\ livraison'[l].essais = 0
<1>1. livraison \in [Livraisons -> Rangees]
  BY TypeLignes
<1>2. [statut |-> "pending", essais |-> 0] \in Rangees
  BY WebhooksHypotheses DEF Rangees, Statuts
<1> QED BY <1>1, <1>2 DEF Ajouter

-----------------------------------------------------------------------------
(* Type correctness.                                                       *)

LEMMA TypeInit == Init => TypeOK
<1> SUFFICES ASSUME Init PROVE TypeOK
  OBVIOUS
<1> USE WebhooksHypotheses
<1>1. tache \in [Passes -> [Livraisons -> Taches]]
  BY LibreTache DEF Init
<1>2. livraison \in [Livraisons -> Rangees] /\ \A l \in Livraisons : livraison[l].statut = "absente"
  BY DEF Init, Rangees, Statuts
<1>3. emission \in [Evenements -> Emissions]
  BY DEF Init, Emissions
<1>4. echecs \in [Livraisons -> 0..MaxEssais] /\ pannes \in 0..MaxPannes
      /\ reglages \in 0..MaxReglages
  BY DEF Init
<1>5. webhook \in [Points -> {"absent", "actif", "inactif", "supprime"}]
  BY DEF Init
<1> QED BY <1>1, <1>2, <1>3, <1>4, <1>5, TypeLignes DEF Init, EnAttente

LEMMA TypeReglages ==
  ASSUME TypeOK, NEW w \in Points, Creer(w) \/ Basculer(w) \/ Supprimer(w)
  PROVE  TypeOK'
<1> USE WebhooksHypotheses
<1>1. webhook' \in [Points -> {"absent", "actif", "inactif", "supprime"}]
  BY TypeLignes DEF Creer, Basculer, Supprimer
<1>2. reglages' \in 0..MaxReglages /\ coupes' \subseteq Points
  <2>1. reglages \in 0..MaxReglages /\ coupes \subseteq Points
    BY TypeLignes
  <2>2. \/ reglages' = reglages /\ coupes' = coupes
        \/ reglages < MaxReglages /\ reglages' = reglages + 1 /\ coupes' = coupes \cup {w}
    BY DEF Creer, Basculer, Supprimer, histoire
  <2> QED BY <2>1, <2>2
<1>3. [statut |-> "absente", essais |-> 0] \in Rangees
  BY DEF Rangees, Statuts
<1>4. livraison' \in [Livraisons -> Rangees]
  BY <1>3, TypeLignes DEF Creer, Basculer, Supprimer
<1>5. \A l \in Livraisons : livraison'[l] = livraison[l] \/ livraison'[l].statut = "absente"
  BY TypeLignes DEF Creer, Basculer, Supprimer
<1>6. \A l \in Livraisons : livraison'[l].statut = "pending" => livraison'[l].essais < MaxEssais
  BY <1>5, EssaisRestants, TypeLignes
<1>7. UNCHANGED <<emission, tache, pannes, recues, echecs, redites, croisees>>
  BY DEF Creer, Basculer, Supprimer, histoire
<1>8. /\ emission' \in [Evenements -> Emissions] /\ tache' \in [Passes -> [Livraisons -> Taches]]
      /\ pannes' \in 0..MaxPannes /\ echecs' \in [Livraisons -> 0..MaxEssais]
      /\ recues' \subseteq Livraisons /\ redites' \subseteq Livraisons /\ croisees' \subseteq Livraisons
  BY <1>7, TypeLignes
<1> QED BY <1>1, <1>2, <1>4, <1>6, <1>8, TypeApres

LEMMA EmettreCadre ==
  ASSUME TypeOK, NEW e \in Evenements,
         Declencher(e) \/ Enfiler(e) \/ EnfilerInserer(e) \/ EnfilerPerdu(e)
  PROVE  /\ emission' \in [Evenements -> Emissions]
         /\ livraison' = livraison \/ \E c \in SUBSET Points : Ajouter(e, c)
         /\ pannes' \in 0..MaxPannes
         /\ UNCHANGED <<webhook, tache, reglages, histoire>>
<1> USE WebhooksHypotheses
<1>1. Actifs \in SUBSET Points /\ emission[e].cibles \in SUBSET Points
  BY TypeLignes DEF Actifs, Emissions
<1>2. emission' \in [Evenements -> Emissions]
  <2>1. Emis \in Emissions /\ [pc |-> "inserer", cibles |-> Actifs] \in Emissions
    BY <1>1 DEF Emis, Emissions
  <2> QED BY <2>1, TypeLignes DEF Declencher, Enfiler, EnfilerInserer, EnfilerPerdu
<1>3. livraison' = livraison \/ \E c \in SUBSET Points : Ajouter(e, c)
  BY <1>1 DEF Declencher, Enfiler, EnfilerInserer, EnfilerPerdu
<1>4. pannes' \in 0..MaxPannes
  BY TypeLignes DEF Declencher, Enfiler, EnfilerInserer, EnfilerPerdu
<1>5. UNCHANGED <<webhook, tache, reglages, histoire>>
  BY DEF Declencher, Enfiler, EnfilerInserer, EnfilerPerdu
<1> QED BY <1>2, <1>3, <1>4, <1>5

LEMMA TypeEmissions ==
  ASSUME TypeOK, NEW e \in Evenements,
         Declencher(e) \/ Enfiler(e) \/ EnfilerInserer(e) \/ EnfilerPerdu(e)
  PROVE  TypeOK'
<1>1. livraison' \in [Livraisons -> Rangees]
      /\ \A l \in Livraisons : livraison'[l].statut = "pending" => livraison'[l].essais < MaxEssais
  <2>1. CASE livraison' = livraison
    BY <2>1, TypeLignes, EssaisRestants
  <2>2. CASE \E c \in SUBSET Points : Ajouter(e, c)
    BY <2>2, EssaisRestants, AjouterLigne, WebhooksHypotheses
  <2> QED BY <2>1, <2>2, EmettreCadre
<1> QED BY <1>1, EmettreCadre, TypeLignes, TypeApres DEF histoire

LEMMA TypeTaches ==
  ASSUME TypeOK, NEW p \in Passes, NEW l \in Livraisons,
         Relire(p, l) \/ LireWebhook(p, l) \/ LectureVide(p, l) \/ Poster(p, l)
  PROVE  TypeOK'
<1> USE WebhooksHypotheses
<1>0. /\ tache \in [Passes -> [Livraisons -> Taches]] /\ tache[p][l] \in Taches
      /\ livraison \in [Livraisons -> Rangees]
      /\ echecs \in [Livraisons -> 0..MaxEssais]
  BY TypeLignes
<1>1. CASE Relire(p, l)
  <2>1. PICK x \in Taches : Poser(p, l, x)
    <3>1. CASE Rendre(p, l)
      BY <3>1, LibreTache DEF Rendre, Poser
    <3>2. CASE /\ livraison[l].statut = "pending"
               /\ tache' = [tache EXCEPT ![p][l] =
                    [@ EXCEPT !.pc = "webhook", !.essais = livraison[l].essais]]
      <4>1. livraison[l].essais \in 0..(MaxEssais - 1)
        BY <1>0, <3>2, TypeLignes DEF EnAttente, Rangees
      <4>2. [tache[p][l] EXCEPT !.pc = "webhook", !.essais = livraison[l].essais] \in Taches
        BY <1>0, <4>1 DEF Taches, EtapesTache
      <4> QED BY <3>2, <4>2 DEF Poser
    <3> QED BY <1>1, <3>1, <3>2 DEF Relire
  <2>2. tache' \in [Passes -> [Livraisons -> Taches]]
    BY <1>0, <2>1, PoserEffet
  <2>3. croisees' \subseteq Livraisons
    BY <1>1, TypeLignes DEF Relire
  <2>4. UNCHANGED <<webhook, emission, livraison, pannes, reglages, recues, echecs, redites, coupes>>
    BY <1>1 DEF Relire
  <2> QED BY <2>2, <2>3, <2>4, TypeLignes, EssaisRestants, TypeApres
<1>2. CASE LireWebhook(p, l) \/ LectureVide(p, l)
  <2>1. PICK e \in EtapesTache : Aller(p, l, e)
    BY <1>2 DEF LireWebhook, LectureVide, EtapesTache
  <2>2. tache' \in [Passes -> [Livraisons -> Taches]]
    BY <1>0, <2>1, AllerPoser, PoserEffet
  <2>3. pannes' \in 0..MaxPannes
    BY <1>2, TypeLignes DEF LireWebhook, LectureVide
  <2>4. UNCHANGED <<webhook, emission, livraison, reglages, histoire>>
    BY <1>2 DEF LireWebhook, LectureVide
  <2> QED BY <2>2, <2>3, <2>4, TypeLignes, EssaisRestants, TypeApres DEF histoire
<1>3. CASE Poster(p, l)
  <2>1. PICK c \in Codes :
          /\ tache' = [tache EXCEPT ![p][l] = [@ EXCEPT !.pc = "ecrire", !.code = c]]
          /\ recues' = IF c = "2xx" THEN recues \cup {l} ELSE recues
          /\ echecs' = [echecs EXCEPT ![l] =
               CASE c = "2xx" -> @
                 [] c = "permanent" -> MaxEssais
                 [] OTHER -> IF @ < MaxEssais THEN @ + 1 ELSE @]
    BY <1>3 DEF Poster
  <2>2. [tache[p][l] EXCEPT !.pc = "ecrire", !.code = c] \in Taches
    BY <1>0 DEF Taches, EtapesTache
  <2>3. tache' \in [Passes -> [Livraisons -> Taches]]
    BY <1>0, <2>1, <2>2, PoserEffet DEF Poser
  <2>4. echecs' \in [Livraisons -> 0..MaxEssais]
    <3>1. (CASE c = "2xx" -> echecs[l]
             [] c = "permanent" -> MaxEssais
             [] OTHER -> IF echecs[l] < MaxEssais THEN echecs[l] + 1 ELSE echecs[l])
            \in 0..MaxEssais
      BY <1>0 DEF Codes
    <3> QED BY <1>0, <2>1, <3>1
  <2>5. recues' \subseteq Livraisons /\ redites' \subseteq Livraisons
    BY <1>3, <2>1, TypeLignes DEF Poster
  <2>6. UNCHANGED <<webhook, emission, livraison, pannes, reglages, croisees, coupes>>
    BY <1>3 DEF Poster
  <2> QED BY <2>3, <2>4, <2>5, <2>6, TypeLignes, EssaisRestants, TypeApres
<1> QED BY <1>1, <1>2, <1>3

LEMMA TypeEcritures ==
  ASSUME TypeOK, NEW p \in Passes, NEW l \in Livraisons,
         Abandonner(p, l) \/ Ecrire(p, l) \/ AppelPerdu(p, l)
  PROVE  TypeOK'
<1> USE WebhooksHypotheses
<1>1. tache' \in [Passes -> [Livraisons -> Taches]]
  <2>1. Poser(p, l, Libre)
    BY DEF Abandonner, Ecrire, AppelPerdu, Rendre, Poser
  <2> QED BY <2>1, TypeLignes, PoserEffet, LibreTache
<1>2. pannes' \in 0..MaxPannes
  BY TypeLignes DEF Abandonner, Ecrire, AppelPerdu
<1>3. UNCHANGED <<webhook, emission, reglages, histoire>>
  BY DEF Abandonner, Ecrire, AppelPerdu
<1>4. livraison' \in [Livraisons -> Rangees]
      /\ \A m \in Livraisons : livraison'[m].statut = "pending" => livraison'[m].essais < MaxEssais
  <2>1. CASE Abandonner(p, l)
    <3>1. livraison \in [Livraisons -> Rangees]
      BY TypeLignes
    <3>2. livraison' \in [Livraisons -> Rangees]
      BY <2>1, <3>1 DEF Abandonner, Clore, Rangees, Statuts
    <3>3. \A m \in Livraisons : livraison'[m] = livraison[m] \/ livraison'[m].statut # "pending"
      BY <2>1, <3>1 DEF Abandonner, Clore, Rangees
    <3> QED BY <3>2, <3>3, EssaisRestants
  <2>2. CASE Ecrire(p, l)
    <3>1. livraison'[l].statut = "pending" => livraison'[l].essais < MaxEssais
      BY <2>2, EssaisRestants, EcrireLigne DEF PeutRetenter
    <3> QED BY <2>2, <3>1, EssaisRestants, EcrireLigne
  <2>3. CASE AppelPerdu(p, l)
    BY <2>3, TypeLignes, EssaisRestants DEF AppelPerdu
  <2> QED BY <2>1, <2>2, <2>3
<1> QED BY <1>1, <1>2, <1>3, <1>4, TypeLignes, TypeApres DEF histoire

\* What a pass does as a whole: it starts, or is killed.
LEMMA PasseEffet ==
  ASSUME TypeOK, NEW p \in Passes, PasseLister(p) \/ Interrompre(p)
  PROVE  /\ tache' \in [Passes -> [Livraisons -> Taches]]
         /\ \A q \in Passes, l \in Livraisons :
              \/ tache'[q][l] = tache[q][l]
              \/ q = p /\ tache'[q][l] = Libre
              \/ /\ PasseLister(p) /\ q = p /\ livraison[l].statut = "pending"
                 /\ tache'[q][l] = [Libre EXCEPT !.pc = "relire"]
         /\ pannes' \in 0..MaxPannes
         /\ UNCHANGED <<webhook, emission, livraison, reglages, histoire>>
<1> USE WebhooksHypotheses
<1>0. tache \in [Passes -> [Livraisons -> Taches]]
  BY TypeLignes
<1>1. CASE PasseLister(p)
  <2>1. PICK dues \in SUBSET EnAttente :
          tache' = [tache EXCEPT ![p] =
            [l \in Livraisons |->
               IF l \in dues THEN [Libre EXCEPT !.pc = "relire"] ELSE Libre]]
    BY <1>1 DEF PasseLister
  <2>2. [Libre EXCEPT !.pc = "relire"] \in Taches
    BY LibreTache DEF Taches, EtapesTache
  <2>3. tache' \in [Passes -> [Livraisons -> Taches]]
    BY <1>0, <2>1, <2>2, LibreTache
  <2> QED BY <1>0, <1>1, <2>1, <2>3, TypeLignes DEF PasseLister, EnAttente
<1>2. CASE Interrompre(p)
  <2>1. tache' = [tache EXCEPT ![p] = [l \in Livraisons |-> Libre]]
    BY <1>2 DEF Interrompre
  <2>2. tache' \in [Passes -> [Livraisons -> Taches]]
    BY <1>0, <2>1, LibreTache
  <2> QED BY <1>0, <1>2, <2>1, <2>2, TypeLignes DEF Interrompre
<1> QED BY <1>1, <1>2

LEMMA TypeEtape == TypeOK /\ [Next]_vars => TypeOK'
<1> SUFFICES ASSUME TypeOK, [Next]_vars PROVE TypeOK'
  OBVIOUS
<1>1. ASSUME NEW p \in Passes, PasseLister(p) \/ Interrompre(p) PROVE TypeOK'
  BY <1>1, PasseEffet, TypeLignes, EssaisRestants, TypeApres DEF histoire
<1>2. CASE UNCHANGED vars
  BY <1>2 DEF vars, etat, histoire, TypeOK, EnAttente
<1> QED BY <1>1, <1>2, TypeReglages, TypeEmissions, TypeTaches, TypeEcritures DEF Next, Etape

\* Type correctness of the webhooks: a row is pending only with an attempt left.
THEOREM WebhooksTypeCorrect == Spec => []TypeOK
BY TypeInit, TypeEtape, PTL DEF Spec

-----------------------------------------------------------------------------
(* What each action does, row by row.                                      *)

\* The task of pass p for row l becomes x, the others stay as they are.
Seule(p, l, x) ==
  \A q \in Passes, m \in Livraisons :
    tache'[q][m] = IF q = p /\ m = l THEN x ELSE tache[q][m]

LEMMA ReglagesEffet ==
  ASSUME TypeOK, NEW w \in Points, Creer(w) \/ Basculer(w) \/ Supprimer(w)
  PROVE  /\ \A v \in Points : v # w => webhook'[v] = webhook[v]
         /\ webhook'[w] # "absent"
         /\ webhook'[w] \in {"inactif", "supprime"} => w \in coupes'
         /\ coupes \subseteq coupes'
         /\ \A l \in Livraisons : livraison'[l] = livraison[l] \/ livraison'[l].statut = "absente"
         /\ UNCHANGED <<emission, tache, pannes, recues, echecs, redites, croisees>>
<1>0. webhook \in [Points -> {"absent", "actif", "inactif", "supprime"}]
      /\ livraison \in [Livraisons -> Rangees]
  BY TypeLignes
<1>1. CASE Creer(w)
  BY <1>0, <1>1 DEF Creer, histoire
<1>2. CASE Basculer(w)
  BY <1>0, <1>2 DEF Basculer
<1>3. CASE Supprimer(w)
  BY <1>0, <1>3 DEF Supprimer
<1> QED BY <1>1, <1>2, <1>3

LEMMA EmettreEffet ==
  ASSUME TypeOK, NEW e \in Evenements,
         Declencher(e) \/ Enfiler(e) \/ EnfilerInserer(e) \/ EnfilerPerdu(e)
  PROVE  /\ \A f \in Evenements : f # e => emission'[f] = emission[f]
         /\ emission[e].pc # "fini"
         /\ emission'[e].cibles \subseteq emission[e].cibles \cup Actifs
         /\ \/ livraison' = livraison
            \/ /\ emission'[e].pc = "fini"
               /\ \A l \in Livraisons :
                    \/ livraison'[l] = livraison[l]
                    \/ /\ l[1] = e /\ l[2] \in emission[e].cibles \cup Actifs
                       /\ livraison'[l].statut = "pending" /\ livraison'[l].essais = 0
         /\ pannes' \in {pannes, pannes + 1}
         /\ UNCHANGED <<webhook, tache, reglages, histoire>>
<1>0. /\ emission \in [Evenements -> Emissions] /\ livraison \in [Livraisons -> Rangees]
      /\ emission[e].cibles \in SUBSET Points /\ Actifs \in SUBSET Points
  BY TypeLignes DEF Emissions, Actifs
<1>1. CASE Declencher(e)
  <2>1. Ajouter(e, Actifs)
    BY <1>1 DEF Declencher
  <2>2. \A l \in Livraisons : livraison'[l] = livraison[l] \/
          (l[1] = e /\ l[2] \in Actifs /\ livraison'[l].statut = "pending" /\ livraison'[l].essais = 0)
    BY <2>1, <1>0, AjouterLigne
  <2> QED BY <1>0, <1>1, <2>2 DEF Declencher, Emis
<1>2. CASE Enfiler(e)
  BY <1>0, <1>2 DEF Enfiler, Emis
<1>3. CASE EnfilerInserer(e)
  <2>1. emission' = [emission EXCEPT ![e] = Emis] /\ emission[e].pc = "inserer"
        /\ UNCHANGED <<webhook, tache, pannes, reglages, histoire>>
    BY <1>3 DEF EnfilerInserer
  <2>2. livraison' = livraison \/ Ajouter(e, emission[e].cibles)
    BY <1>3 DEF EnfilerInserer
  <2>3. CASE livraison' = livraison
    BY <1>0, <2>1, <2>3 DEF Emis
  <2>4. CASE Ajouter(e, emission[e].cibles)
    <3>1. \A l \in Livraisons : livraison'[l] = livraison[l] \/
            (l[1] = e /\ l[2] \in emission[e].cibles /\ livraison'[l].statut = "pending"
             /\ livraison'[l].essais = 0)
      BY <2>4, <1>0, AjouterLigne
    <3> QED BY <1>0, <2>1, <3>1 DEF Emis
  <2> QED BY <2>2, <2>3, <2>4
<1>4. CASE EnfilerPerdu(e)
  BY <1>0, <1>4 DEF EnfilerPerdu, Emis
<1> QED BY <1>1, <1>2, <1>3, <1>4

LEMMA RelireEffet ==
  ASSUME TypeOK, NEW p \in Passes, NEW l \in Livraisons, Relire(p, l)
  PROVE  /\ tache[p][l].pc = "relire"
         /\ \/ Seule(p, l, Libre) /\ croisees' = croisees
            \/ \E x \in Taches :
                 /\ Seule(p, l, x) /\ x.pc = "webhook" /\ x.essais = livraison[l].essais
                 /\ livraison[l].statut = "pending"
                 /\ croisees' =
                      IF \E q \in Passes \ {p} : tache[q][l].pc \notin {"libre", "relire"}
                      THEN croisees \cup {l} ELSE croisees
         /\ UNCHANGED <<webhook, emission, livraison, pannes, recues, echecs, redites, coupes>>
<1>0. /\ tache \in [Passes -> [Livraisons -> Taches]] /\ tache[p][l] \in Taches
      /\ livraison \in [Livraisons -> Rangees]
  BY TypeLignes
<1>1. tache[p][l].pc = "relire"
      /\ UNCHANGED <<webhook, emission, livraison, pannes, recues, echecs, redites, coupes>>
  BY DEF Relire
<1>2. CASE Rendre(p, l) /\ UNCHANGED croisees
  BY <1>0, <1>1, <1>2, PoserEffet DEF Rendre, Poser, Seule
<1>3. CASE /\ livraison[l].statut = "pending"
           /\ tache' = [tache EXCEPT ![p][l] =
                [@ EXCEPT !.pc = "webhook", !.essais = livraison[l].essais]]
           /\ croisees' = IF \E q \in Passes \ {p} : tache[q][l].pc \notin {"libre", "relire"}
                          THEN croisees \cup {l} ELSE croisees
  <2>1. livraison[l].essais \in 0..(MaxEssais - 1)
    BY <1>0, <1>3, EssaisRestants, WebhooksHypotheses DEF Rangees
  <2>2. PICK x \in Taches : /\ Poser(p, l, x)
                            /\ x.pc = "webhook" /\ x.essais = livraison[l].essais
    <3>1. [tache[p][l] EXCEPT !.pc = "webhook", !.essais = livraison[l].essais] \in Taches
      BY <1>0, <2>1 DEF Taches, EtapesTache
    <3>2. /\ [tache[p][l] EXCEPT !.pc = "webhook", !.essais = livraison[l].essais].pc = "webhook"
          /\ [tache[p][l] EXCEPT !.pc = "webhook", !.essais = livraison[l].essais].essais
               = livraison[l].essais
      BY <1>0 DEF Taches
    <3>3. Poser(p, l, [tache[p][l] EXCEPT !.pc = "webhook", !.essais = livraison[l].essais])
      BY <1>3 DEF Poser
    <3> QED BY <3>1, <3>2, <3>3
  <2>3. Seule(p, l, x)
    BY <1>0, <2>2, PoserEffet DEF Seule
  <2> QED BY <1>1, <1>3, <2>2, <2>3
<1> QED BY <1>2, <1>3 DEF Relire

LEMMA LireEffet ==
  ASSUME TypeOK, NEW p \in Passes, NEW l \in Livraisons, LireWebhook(p, l) \/ LectureVide(p, l)
  PROVE  /\ tache[p][l].pc = "webhook"
         /\ \E x \in Taches : /\ Seule(p, l, x) /\ x.essais = tache[p][l].essais
                              /\ \/ x.pc = "poster"
                                 \/ x.pc = "abandonner" /\ (webhook[l[2]] # "actif" \/ pannes' > 0)
         /\ pannes' \in {pannes, pannes + 1}
         /\ UNCHANGED <<webhook, emission, livraison, histoire>>
<1>0. tache \in [Passes -> [Livraisons -> Taches]] /\ pannes \in 0..MaxPannes
  BY TypeLignes
<1>1. \E e \in EtapesTache :
        /\ Aller(p, l, e)
        /\ e = "poster" \/ (e = "abandonner" /\ (webhook[l[2]] # "actif" \/ pannes' > 0))
  <2>1. CASE LireWebhook(p, l)
    <3>1. CASE webhook[l[2]] = "actif"
      <4>1. Aller(p, l, "poster")
        BY <2>1, <3>1 DEF LireWebhook, Aller
      <4> QED BY <4>1 DEF EtapesTache
    <3>2. CASE webhook[l[2]] # "actif"
      <4>1. Aller(p, l, "abandonner")
        BY <2>1, <3>2 DEF LireWebhook, Aller
      <4> QED BY <4>1, <3>2 DEF EtapesTache
    <3> QED BY <3>1, <3>2
  <2>2. CASE LectureVide(p, l)
    <3>1. Aller(p, l, "abandonner") /\ pannes' = pannes + 1
      BY <2>2 DEF LectureVide
    <3>2. pannes' > 0
      BY <3>1, <1>0, WebhooksHypotheses
    <3> QED BY <3>1, <3>2 DEF EtapesTache
  <2> QED BY <2>1, <2>2
<1>2. PICK e \in EtapesTache :
        /\ Aller(p, l, e)
        /\ e = "poster" \/ (e = "abandonner" /\ (webhook[l[2]] # "actif" \/ pannes' > 0))
  BY <1>1
<1>3. PICK x \in Taches : Poser(p, l, x) /\ x.pc = e /\ x.essais = tache[p][l].essais
  BY <1>0, <1>2, AllerPoser
<1>4. Seule(p, l, x)
  BY <1>0, <1>3, PoserEffet DEF Seule
<1>5. /\ tache[p][l].pc = "webhook" /\ pannes' \in {pannes, pannes + 1}
      /\ UNCHANGED <<webhook, emission, livraison, histoire>>
  BY DEF LireWebhook, LectureVide
<1> QED BY <1>2, <1>3, <1>4, <1>5

LEMMA PosterEffet ==
  ASSUME TypeOK, NEW p \in Passes, NEW l \in Livraisons, Poster(p, l)
  PROVE  /\ tache[p][l].pc = "poster"
         /\ \E x \in Taches :
              /\ Seule(p, l, x) /\ x.pc = "ecrire" /\ x.essais = tache[p][l].essais
              /\ recues' = IF x.code = "2xx" THEN recues \cup {l} ELSE recues
              /\ x.code = "permanent" => echecs'[l] = MaxEssais
              /\ x.code = "passager" /\ echecs[l] < MaxEssais => echecs'[l] = echecs[l] + 1
         /\ echecs'[l] >= echecs[l]
         /\ \A m \in Livraisons : m # l => echecs'[m] = echecs[m]
         /\ redites' = IF l \in recues THEN redites \cup {l} ELSE redites
         /\ UNCHANGED <<webhook, emission, livraison, pannes, croisees, coupes>>
<1>0. /\ tache \in [Passes -> [Livraisons -> Taches]] /\ tache[p][l] \in Taches
      /\ echecs \in [Livraisons -> 0..MaxEssais] /\ echecs[l] \in 0..MaxEssais
  BY TypeLignes
<1>1. PICK c \in Codes :
        /\ tache' = [tache EXCEPT ![p][l] = [@ EXCEPT !.pc = "ecrire", !.code = c]]
        /\ recues' = IF c = "2xx" THEN recues \cup {l} ELSE recues
        /\ echecs' = [echecs EXCEPT ![l] =
             CASE c = "2xx" -> @
               [] c = "permanent" -> MaxEssais
               [] OTHER -> IF @ < MaxEssais THEN @ + 1 ELSE @]
  BY DEF Poster
<1>2. PICK x \in Taches : /\ Poser(p, l, x)
                          /\ x.pc = "ecrire" /\ x.essais = tache[p][l].essais /\ x.code = c
  <2>1. [tache[p][l] EXCEPT !.pc = "ecrire", !.code = c] \in Taches
    BY <1>0 DEF Taches, EtapesTache
  <2>2. /\ [tache[p][l] EXCEPT !.pc = "ecrire", !.code = c].pc = "ecrire"
        /\ [tache[p][l] EXCEPT !.pc = "ecrire", !.code = c].essais = tache[p][l].essais
        /\ [tache[p][l] EXCEPT !.pc = "ecrire", !.code = c].code = c
    BY <1>0 DEF Taches
  <2>3. Poser(p, l, [tache[p][l] EXCEPT !.pc = "ecrire", !.code = c])
    BY <1>1 DEF Poser
  <2> QED BY <2>1, <2>2, <2>3
<1>3. Seule(p, l, x)
  BY <1>0, <1>2, PoserEffet DEF Seule
<1>4. /\ echecs'[l] = (CASE c = "2xx" -> echecs[l]
                         [] c = "permanent" -> MaxEssais
                         [] OTHER -> IF echecs[l] < MaxEssais THEN echecs[l] + 1 ELSE echecs[l])
      /\ \A m \in Livraisons : m # l => echecs'[m] = echecs[m]
  BY <1>0, <1>1
<1>5. /\ echecs'[l] >= echecs[l]
      /\ c = "permanent" => echecs'[l] = MaxEssais
      /\ c = "passager" /\ echecs[l] < MaxEssais => echecs'[l] = echecs[l] + 1
  BY <1>0, <1>4, WebhooksHypotheses DEF Codes
<1>6. /\ tache[p][l].pc = "poster"
      /\ redites' = IF l \in recues THEN redites \cup {l} ELSE redites
      /\ UNCHANGED <<webhook, emission, livraison, pannes, croisees, coupes>>
  BY DEF Poster
<1> QED BY <1>1, <1>2, <1>3, <1>4, <1>5, <1>6

LEMMA EcritureEffet ==
  ASSUME TypeOK, NEW p \in Passes, NEW l \in Livraisons,
         Abandonner(p, l) \/ Ecrire(p, l) \/ AppelPerdu(p, l)
  PROVE  /\ Seule(p, l, Libre)
         /\ \A m \in Livraisons : m # l => livraison'[m] = livraison[m]
         /\ livraison[l].statut = "absente" => livraison'[l] = livraison[l]
         /\ \/ /\ Abandonner(p, l) /\ tache[p][l].pc = "abandonner"
               /\ livraison[l].statut # "absente" => livraison'[l].statut = "abandoned"
               /\ UNCHANGED pannes
            \/ /\ Ecrire(p, l) /\ tache[p][l].pc = "ecrire"
               /\ UNCHANGED pannes
            \/ pannes' = pannes + 1 /\ UNCHANGED livraison
         /\ UNCHANGED <<webhook, emission, histoire>>
<1>0. tache \in [Passes -> [Livraisons -> Taches]] /\ livraison \in [Livraisons -> Rangees]
  BY TypeLignes
<1>1. Poser(p, l, Libre) /\ UNCHANGED <<webhook, emission, histoire>>
  BY DEF Abandonner, Ecrire, AppelPerdu, Rendre, Poser
<1>2. Seule(p, l, Libre)
  BY <1>0, <1>1, PoserEffet DEF Seule
<1>3. CASE Abandonner(p, l)
  <2> DEFINE statut == IF livraison[l].statut = "absente" THEN "absente" ELSE "abandoned"
             ligne == [livraison[l] EXCEPT !.statut = statut]
  <2>1. livraison' = [livraison EXCEPT ![l] = ligne]
    BY <1>0, <1>3 DEF Abandonner, Clore
  <2>2. livraison'[l] = ligne /\ \A m \in Livraisons : m # l => livraison'[m] = livraison[m]
    BY <1>0, <2>1
  <2>3. livraison[l] \in Rangees
    BY <1>0
  <2>4. /\ livraison[l].statut = "absente" => ligne = livraison[l]
        /\ livraison[l].statut # "absente" => ligne.statut = "abandoned"
    BY <2>3 DEF Rangees
  <2>5. tache[p][l].pc = "abandonner" /\ UNCHANGED pannes
    BY <1>3 DEF Abandonner
  <2> HIDE DEF ligne
  <2> QED BY <1>1, <1>2, <1>3, <2>2, <2>4, <2>5
<1>4. CASE Ecrire(p, l)
  BY <1>1, <1>2, <1>4, EcrireLigne DEF Ecrire
<1>5. CASE AppelPerdu(p, l)
  BY <1>1, <1>2, <1>5 DEF AppelPerdu
<1> QED BY <1>3, <1>4, <1>5

-----------------------------------------------------------------------------
(* A closed row is closed for a reason.  What a pass has read of the       *)
(* attempts never exceeds the POSTs that have failed, and only a webhook   *)
(* that has existed has rows, tasks or events waiting for it.              *)

Comptes ==
  /\ \A l \in Livraisons : livraison[l].statut = "pending" => livraison[l].essais <= echecs[l]
  /\ \A p \in Passes, l \in Livraisons :
       /\ tache[p][l].essais <= echecs[l]
       /\ tache[p][l].pc = "ecrire" =>
            /\ tache[p][l].code = "2xx" => l \in recues
            /\ tache[p][l].code = "permanent" => echecs[l] = MaxEssais
            /\ tache[p][l].code = "passager" => tache[p][l].essais + 1 <= echecs[l]

Presence ==
  /\ \A e \in Evenements : \A w \in emission[e].cibles : webhook[w] # "absent"
  /\ \A l \in Livraisons : livraison[l].statut # "absente" => webhook[l[2]] # "absent"
  /\ \A p \in Passes, l \in Livraisons :
       /\ tache[p][l].pc # "libre" => webhook[l[2]] # "absent"
       /\ tache[p][l].pc = "abandonner" => l[2] \in coupes \/ pannes > 0
  /\ \A w \in Points : webhook[w] \in {"inactif", "supprime"} => w \in coupes

InvCloture == TypeOK /\ Comptes /\ Presence /\ ClotureMeritee

LEMMA ClotureInit == Init => InvCloture
<1> SUFFICES ASSUME Init PROVE InvCloture
  OBVIOUS
<1>1. TypeOK
  BY TypeInit
<1>2. Comptes
  BY DEF Init, Comptes, Libre
<1>3. Presence
  BY DEF Init, Presence, Libre
<1>4. ClotureMeritee
  BY DEF Init, ClotureMeritee
<1> QED BY <1>1, <1>2, <1>3, <1>4 DEF InvCloture

\* The ranges the arithmetic needs.
LEMMA Bornes ==
  ASSUME TypeOK
  PROVE  /\ MaxEssais \in Nat \ {0} /\ pannes \in Nat
         /\ \A l \in Livraisons : /\ l[1] \in Evenements /\ l[2] \in Points
                                 /\ livraison[l].essais \in Nat
                                 /\ echecs[l] \in 0..MaxEssais
         /\ \A p \in Passes, l \in Livraisons :
              /\ tache[p][l].essais \in 0..(MaxEssais - 1)
              /\ tache[p][l].code \in Codes
<1>1. /\ livraison \in [Livraisons -> Rangees] /\ echecs \in [Livraisons -> 0..MaxEssais]
      /\ tache \in [Passes -> [Livraisons -> Taches]] /\ pannes \in 0..MaxPannes
  BY TypeLignes
<1>2. \A l \in Livraisons : l[1] \in Evenements /\ l[2] \in Points
  BY DEF Livraisons
<1> QED BY <1>1, <1>2, WebhooksHypotheses DEF Rangees, Taches

LEMMA ClotureReglages ==
  ASSUME InvCloture, NEW w \in Points, Creer(w) \/ Basculer(w) \/ Supprimer(w)
  PROVE  Comptes' /\ Presence' /\ ClotureMeritee'
<1>0. TypeOK /\ Comptes /\ Presence /\ ClotureMeritee
  BY DEF InvCloture
<1>1. Comptes'
  BY <1>0, ReglagesEffet, Bornes DEF Comptes
<1>2. Presence'
  <2>1. \A v \in Points : webhook[v] # "absent" => webhook'[v] # "absent"
    BY <1>0, ReglagesEffet
  <2>2. \A v \in Points : webhook'[v] \in {"inactif", "supprime"} => v \in coupes'
    BY <1>0, ReglagesEffet DEF Presence
  <2>3. /\ coupes \subseteq coupes' /\ UNCHANGED <<emission, tache, pannes>>
        /\ \A l \in Livraisons : livraison'[l] = livraison[l] \/ livraison'[l].statut = "absente"
    BY <1>0, ReglagesEffet
  <2>4. \A e \in Evenements : emission[e].cibles \subseteq Points
    BY <1>0, TypeLignes DEF Emissions
  <2> QED BY <1>0, <2>1, <2>2, <2>3, <2>4, Bornes DEF Presence
<1>3. ClotureMeritee'
  BY <1>0, ReglagesEffet, Bornes DEF ClotureMeritee
<1> QED BY <1>1, <1>2, <1>3

LEMMA ClotureEmissions ==
  ASSUME InvCloture, NEW e \in Evenements,
         Declencher(e) \/ Enfiler(e) \/ EnfilerInserer(e) \/ EnfilerPerdu(e)
  PROVE  Comptes' /\ Presence' /\ ClotureMeritee'
<1>0. TypeOK /\ Comptes /\ Presence /\ ClotureMeritee
  BY DEF InvCloture
<1>1. Comptes'
  BY <1>0, EmettreEffet, Bornes DEF Comptes, histoire
<1>2. Presence'
  <2>1. \A w \in emission[e].cibles \cup Actifs : webhook[w] # "absent"
    BY <1>0 DEF Presence, Actifs
  <2> QED BY <1>0, <2>1, EmettreEffet, Bornes DEF Presence, histoire
<1>3. ClotureMeritee'
  BY <1>0, EmettreEffet, Bornes DEF ClotureMeritee, histoire
<1> QED BY <1>1, <1>2, <1>3

LEMMA CloturePasses ==
  ASSUME InvCloture, NEW p \in Passes, PasseLister(p) \/ Interrompre(p)
  PROVE  Comptes' /\ Presence' /\ ClotureMeritee'
<1>0. TypeOK /\ Comptes /\ Presence /\ ClotureMeritee
  BY DEF InvCloture
<1>1. Libre.pc = "libre" /\ Libre.essais = 0
  BY DEF Libre
<1>2. [Libre EXCEPT !.pc = "relire"].pc = "relire" /\ [Libre EXCEPT !.pc = "relire"].essais = 0
  BY DEF Libre
<1>3. pannes > 0 => pannes' > 0
  BY <1>0, Bornes DEF PasseLister, Interrompre
<1>4. /\ UNCHANGED <<webhook, emission, livraison, recues, echecs, coupes>>
      /\ \A q \in Passes, l \in Livraisons :
           \/ tache'[q][l] = tache[q][l]
           \/ tache'[q][l].pc = "libre" /\ tache'[q][l].essais = 0
           \/ /\ tache'[q][l].pc = "relire" /\ tache'[q][l].essais = 0
              /\ livraison[l].statut = "pending"
  <2>1. \A q \in Passes, l \in Livraisons :
           \/ tache'[q][l] = tache[q][l]
           \/ tache'[q][l] = Libre
           \/ tache'[q][l] = [Libre EXCEPT !.pc = "relire"] /\ livraison[l].statut = "pending"
    BY <1>0, PasseEffet
  <2>2. UNCHANGED <<webhook, emission, livraison, histoire>>
    BY <1>0, PasseEffet
  <2> QED BY <1>1, <1>2, <2>1, <2>2 DEF histoire
<1>5. Comptes'
  BY <1>0, <1>4, Bornes DEF Comptes
<1>7. Presence'
  BY <1>0, <1>3, <1>4, Bornes DEF Presence
<1>6. ClotureMeritee'
  BY <1>0, <1>3, <1>4, Bornes DEF ClotureMeritee
<1> QED BY <1>5, <1>6, <1>7

LEMMA ClotureLectures ==
  ASSUME InvCloture, NEW p \in Passes, NEW l \in Livraisons,
         Relire(p, l) \/ LireWebhook(p, l) \/ LectureVide(p, l)
  PROVE  Comptes' /\ Presence' /\ ClotureMeritee'
<1>0. TypeOK /\ Comptes /\ Presence /\ ClotureMeritee
  BY DEF InvCloture
<1>1. PICK x : /\ Seule(p, l, x) /\ x.pc # "ecrire" /\ x.essais <= echecs[l]
               /\ x.pc # "libre" => webhook[l[2]] # "absent"
               /\ x.pc = "abandonner" => l[2] \in coupes \/ pannes' > 0
  <2>1. CASE Relire(p, l)
    BY <1>0, <2>1, RelireEffet, Bornes DEF Comptes, Presence, Libre
  <2>2. CASE LireWebhook(p, l) \/ LectureVide(p, l)
    <3>1. PICK x \in Taches :
            /\ Seule(p, l, x) /\ x.essais = tache[p][l].essais
            /\ x.pc = "poster" \/ (x.pc = "abandonner" /\ (webhook[l[2]] # "actif" \/ pannes' > 0))
      BY <1>0, <2>2, LireEffet
    <3>2. webhook[l[2]] # "absent"
      BY <1>0, <2>2, LireEffet DEF Presence
    <3>3. webhook[l[2]] # "actif" => l[2] \in coupes
      BY <1>0, <3>2, TypeLignes, Bornes DEF Presence
    <3> QED BY <1>0, <3>1, <3>2, <3>3 DEF Comptes
  <2> QED BY <2>1, <2>2
<1>2. /\ pannes' \in {pannes, pannes + 1}
      /\ UNCHANGED <<webhook, emission, livraison, recues, echecs, coupes>>
  BY <1>0, RelireEffet, LireEffet DEF histoire
<1>3. pannes > 0 => pannes' > 0
  BY <1>0, <1>2, Bornes
<1>4. Comptes'
  BY <1>0, <1>1, <1>2 DEF Comptes, Seule
<1>5. Presence'
  BY <1>0, <1>1, <1>2, <1>3 DEF Presence, Seule
<1>6. ClotureMeritee'
  BY <1>0, <1>2, <1>3 DEF ClotureMeritee
<1> QED BY <1>4, <1>5, <1>6

LEMMA CloturePoster ==
  ASSUME InvCloture, NEW p \in Passes, NEW l \in Livraisons, Poster(p, l)
  PROVE  Comptes' /\ Presence' /\ ClotureMeritee'
<1>0. TypeOK /\ Comptes /\ Presence /\ ClotureMeritee
  BY DEF InvCloture
<1>1. PICK x \in Taches :
        /\ Seule(p, l, x) /\ x.pc = "ecrire" /\ x.essais = tache[p][l].essais
        /\ recues' = IF x.code = "2xx" THEN recues \cup {l} ELSE recues
        /\ x.code = "permanent" => echecs'[l] = MaxEssais
        /\ x.code = "passager" /\ echecs[l] < MaxEssais => echecs'[l] = echecs[l] + 1
  BY <1>0, PosterEffet
<1>2. /\ tache[p][l].pc = "poster" /\ recues \subseteq recues'
      /\ UNCHANGED <<webhook, emission, livraison, pannes, coupes>>
  BY <1>0, <1>1, PosterEffet
<1>3. \A m \in Livraisons : echecs'[m] \in 0..MaxEssais /\ echecs'[m] >= echecs[m]
  <2>1. TypeOK'
    BY <1>0, TypeTaches
  <2>2. echecs' \in [Livraisons -> 0..MaxEssais]
    BY <2>1 DEF TypeOK
  <2> QED BY <1>0, <2>2, PosterEffet, Bornes
<1>4. \A m \in Livraisons : echecs[m] = MaxEssais => echecs'[m] = MaxEssais
  BY <1>0, <1>3, Bornes
<1>5. x.essais + 1 <= MaxEssais /\ x.essais <= echecs[l] /\ x.essais \in Nat
  BY <1>0, <1>1, Bornes DEF Comptes
<1>6. x.code = "passager" => x.essais + 1 <= echecs'[l]
  BY <1>0, <1>1, <1>3, <1>5, Bornes
<1>7. Comptes'
  <2>1. \A m \in Livraisons :
          livraison'[m].statut = "pending" => livraison'[m].essais <= echecs'[m]
    BY <1>0, <1>2, <1>3, Bornes DEF Comptes
  <2>2. ASSUME NEW q \in Passes, NEW m \in Livraisons
        PROVE  /\ tache'[q][m].essais <= echecs'[m]
               /\ tache'[q][m].pc = "ecrire" =>
                    /\ tache'[q][m].code = "2xx" => m \in recues'
                    /\ tache'[q][m].code = "permanent" => echecs'[m] = MaxEssais
                    /\ tache'[q][m].code = "passager" => tache'[q][m].essais + 1 <= echecs'[m]
    <3>1. CASE q = p /\ m = l
      <4>1. tache'[q][m] = x
        BY <1>1, <3>1 DEF Seule
      <4>2. x.essais <= echecs'[l]
        BY <1>0, <1>3, <1>5, Bornes
      <4> QED BY <1>1, <1>6, <3>1, <4>1, <4>2
    <3>2. CASE ~(q = p /\ m = l)
      <4>1. tache'[q][m] = tache[q][m]
        BY <1>1, <3>2 DEF Seule
      <4>2. /\ tache[q][m].essais <= echecs[m]
            /\ tache[q][m].pc = "ecrire" =>
                 /\ tache[q][m].code = "2xx" => m \in recues
                 /\ tache[q][m].code = "permanent" => echecs[m] = MaxEssais
                 /\ tache[q][m].code = "passager" => tache[q][m].essais + 1 <= echecs[m]
        BY <1>0 DEF Comptes
      <4>3. tache[q][m].essais \in Nat /\ echecs[m] \in Nat
            /\ echecs'[m] \in Nat /\ echecs'[m] >= echecs[m]
        BY <1>0, <1>3, Bornes
      <4> QED BY <1>2, <1>4, <4>1, <4>2, <4>3
    <3> QED BY <3>1, <3>2
  <2> QED BY <2>1, <2>2 DEF Comptes
<1>8. Presence'
  BY <1>0, <1>1, <1>2 DEF Presence, Seule
<1>9. ClotureMeritee'
  BY <1>0, <1>2, <1>4 DEF ClotureMeritee
<1> QED BY <1>7, <1>8, <1>9

LEMMA ClotureEcritures ==
  ASSUME InvCloture, NEW p \in Passes, NEW l \in Livraisons,
         Abandonner(p, l) \/ Ecrire(p, l) \/ AppelPerdu(p, l)
  PROVE  Comptes' /\ Presence' /\ ClotureMeritee'
<1>0. TypeOK /\ Comptes /\ Presence /\ ClotureMeritee
  BY DEF InvCloture
<1>1. /\ Seule(p, l, Libre)
      /\ \A m \in Livraisons : m # l => livraison'[m] = livraison[m]
      /\ livraison[l].statut = "absente" => livraison'[l] = livraison[l]
      /\ UNCHANGED <<webhook, emission, recues, echecs, redites, croisees, coupes>>
  BY <1>0, EcritureEffet DEF histoire
<1>2. Libre.pc = "libre" /\ Libre.essais = 0
  BY DEF Libre
<1>3. pannes > 0 => pannes' > 0
  BY <1>0, EcritureEffet, Bornes
<1>4. /\ livraison'[l].statut = "pending" => livraison'[l].essais <= echecs[l]
      /\ livraison'[l].statut = "success" => l \in recues
      /\ livraison'[l].statut = "failed" => echecs[l] = MaxEssais
      /\ livraison'[l].statut = "abandoned" => l[2] \in coupes \/ pannes' > 0
  <2>0. /\ livraison[l].statut = "pending" => livraison[l].essais <= echecs[l]
        /\ livraison[l].statut = "success" => l \in recues
        /\ livraison[l].statut = "failed" => echecs[l] = MaxEssais
        /\ livraison[l].statut = "abandoned" => l[2] \in coupes \/ pannes' > 0
    BY <1>0, <1>3 DEF Comptes, ClotureMeritee
  <2>1. CASE UNCHANGED livraison
    BY <2>0, <2>1
  <2>2. CASE livraison[l].statut = "absente"
    BY <1>1, <2>0, <2>2
  <2>3. CASE livraison[l].statut # "absente" /\ Abandonner(p, l)
    <3>1. livraison'[l].statut = "abandoned"
      <4>1. tache[p][l].pc = "abandonner" /\ pannes' = pannes
        BY <2>3 DEF Abandonner
      <4>2. pannes' # pannes + 1
        BY <1>0, <4>1, Bornes
      <4> QED BY <1>0, <2>3, <4>1, <4>2, EcritureEffet
    <3>2. tache[p][l].pc = "abandonner" /\ pannes' = pannes
      BY <2>3 DEF Abandonner
    <3> QED BY <1>0, <3>1, <3>2 DEF Presence
  <2>4. CASE livraison[l].statut # "absente" /\ Ecrire(p, l)
    <3>1. /\ livraison'[l].essais = tache[p][l].essais + 1
          /\ livraison'[l].statut =
               IF tache[p][l].code = "2xx" THEN "success"
               ELSE IF PeutRetenter(tache[p][l].code, tache[p][l].essais + 1)
                    THEN "pending" ELSE "failed"
      BY <1>0, <2>4, EcrireLigne
    <3>2. /\ tache[p][l].pc = "ecrire"
          /\ tache[p][l].code = "2xx" => l \in recues
          /\ tache[p][l].code = "permanent" => echecs[l] = MaxEssais
          /\ tache[p][l].code = "passager" => tache[p][l].essais + 1 <= echecs[l]
      BY <1>0, <2>4 DEF Comptes, Ecrire
    <3>3. /\ tache[p][l].essais \in 0..(MaxEssais - 1) /\ echecs[l] \in 0..MaxEssais
          /\ tache[p][l].code \in {"2xx", "passager", "permanent"} /\ MaxEssais \in Nat
      BY <1>0, Bornes DEF Codes
    <3> QED BY <3>1, <3>2, <3>3 DEF PeutRetenter
  <2> QED BY <1>0, <2>1, <2>2, <2>3, <2>4, EcritureEffet DEF AppelPerdu
<1>5. Comptes'
  BY <1>0, <1>1, <1>2, <1>4, Bornes DEF Comptes, Seule
<1>6. Presence'
  <2>1. livraison'[l].statut # "absente" => livraison[l].statut # "absente"
    BY <1>1
  <2> QED BY <1>0, <1>1, <1>2, <1>3, <2>1 DEF Presence, Seule
<1>7. ClotureMeritee'
  BY <1>0, <1>1, <1>3, <1>4 DEF ClotureMeritee
<1> QED BY <1>5, <1>6, <1>7

LEMMA ClotureEtape == InvCloture /\ [Next]_vars => InvCloture'
<1> SUFFICES ASSUME InvCloture, [Next]_vars PROVE InvCloture'
  OBVIOUS
<1>1. TypeOK'
  BY TypeEtape DEF InvCloture
<1>2. CASE UNCHANGED vars
  BY <1>2 DEF vars, etat, histoire, InvCloture, TypeOK, EnAttente, Comptes, Presence, ClotureMeritee
<1>3. CASE Next
  BY <1>1, <1>3, ClotureReglages, ClotureEmissions, CloturePasses, ClotureLectures,
     CloturePoster, ClotureEcritures DEF Next, Etape, InvCloture
<1> QED BY <1>2, <1>3

\* A row is closed only for a reason that has really happened.
THEOREM Clotures == Spec => []ClotureMeritee
<1>1. InvCloture => ClotureMeritee
  BY DEF InvCloture
<1> QED BY <1>1, ClotureInit, ClotureEtape, PTL DEF Spec

-----------------------------------------------------------------------------
(* A row is sent twice only by passes that overlap.  Two passes that hold  *)
(* a row have crossed; while there is no failure, a row answered 2xx is    *)
(* held, and left pending, only by the pass about to write it.             *)

Tient(p, l) == tache[p][l].pc \notin {"libre", "relire"}
Succes(p, l) == tache[p][l].pc = "ecrire" /\ tache[p][l].code = "2xx"

Croisements ==
  /\ \A p, q \in Passes, l \in Livraisons : p # q /\ Tient(p, l) /\ Tient(q, l) => l \in croisees
  /\ \A l \in Livraisons : emission[l[1]].pc # "fini" =>
       /\ livraison[l].statut = "absente" /\ l \notin recues
       /\ \A p \in Passes : tache[p][l].pc = "libre"

Tenues ==
  pannes = 0 =>
    /\ redites \subseteq croisees
    /\ \A l \in recues : l \notin croisees =>
         /\ \A p \in Passes : Tient(p, l) => Succes(p, l)
         /\ livraison[l].statut = "pending" => \E p \in Passes : Succes(p, l)

InvRedites == TypeOK /\ Croisements /\ Tenues

LEMMA ReditesInit == Init => InvRedites
<1> SUFFICES ASSUME Init PROVE InvRedites
  OBVIOUS
<1>1. TypeOK
  BY TypeInit
<1>2. \A l \in Livraisons : l[1] \in Evenements
  BY DEF Livraisons
<1>3. Croisements
  BY <1>2 DEF Init, Croisements, Libre, Tient
<1>4. Tenues
  BY DEF Init, Tenues
<1> QED BY <1>1, <1>3, <1>4 DEF InvRedites

\* A step that changes no history, and only takes rows out of the hands of
\* passes or out of the pending ones, keeps both parts.
LEMMA Cadre ==
  ASSUME Croisements, Tenues, UNCHANGED <<emission, recues, redites, croisees>>,
         recues \subseteq Livraisons, pannes \in Nat, pannes' \in {pannes, pannes + 1},
         \A q \in Passes, m \in Livraisons :
           \/ tache'[q][m] = tache[q][m]
           \/ tache'[q][m].pc = "libre" /\ (Succes(q, m) /\ pannes' = 0
                                               => livraison'[m].statut # "pending")
           \/ tache'[q][m].pc = "relire" /\ livraison[m].statut # "absente" /\ ~Succes(q, m)
           \/ tache'[q][m].pc \in {"poster", "abandonner"} /\ Tient(q, m) /\ ~Succes(q, m),
         \A m \in Livraisons :
           /\ livraison[m].statut = "absente" => livraison'[m].statut = "absente"
           /\ livraison'[m].statut = "pending" =>
                \/ livraison[m].statut = "pending"
                \/ \E q \in Passes : Tient(q, m) /\ ~Succes(q, m)
  PROVE  Croisements' /\ Tenues'
<1>1. \A q \in Passes, m \in Livraisons : Tient(q, m)' => Tient(q, m)
  BY DEF Tient
<1>2. Croisements'
  BY <1>1 DEF Croisements, Tient
<1>3. ASSUME pannes' = 0 PROVE pannes = 0
  BY <1>3
<1>4. ASSUME pannes' = 0, NEW m \in recues, m \notin croisees
      PROVE  /\ \A p \in Passes : Tient(p, m)' => Succes(p, m)'
             /\ livraison'[m].statut = "pending" => \E p \in Passes : Succes(p, m)'
  <2>1. /\ \A p \in Passes : Tient(p, m) => Succes(p, m)
        /\ livraison[m].statut = "pending" => \E p \in Passes : Succes(p, m)
    BY <1>3, <1>4 DEF Tenues
  <2>2. \A p \in Passes : Tient(p, m)' => Succes(p, m)'
    BY <1>1, <1>4, <2>1 DEF Succes, Tient
  <2>3. ASSUME livraison'[m].statut = "pending" PROVE \E p \in Passes : Succes(p, m)'
    <3>1. PICK p \in Passes : Succes(p, m)
      BY <1>4, <2>1, <2>3
    <3>2. tache'[p][m] = tache[p][m]
      BY <1>4, <2>3, <3>1
    <3> QED BY <3>1, <3>2 DEF Succes
  <2> QED BY <2>2, <2>3
<1>5. Tenues'
  BY <1>3, <1>4 DEF Tenues
<1> QED BY <1>2, <1>5

LEMMA ReditesReglages ==
  ASSUME InvRedites, NEW w \in Points, Creer(w) \/ Basculer(w) \/ Supprimer(w)
  PROVE  Croisements' /\ Tenues'
<1>1. TypeOK /\ Croisements /\ Tenues
  BY DEF InvRedites
<1>2. /\ UNCHANGED <<emission, tache, pannes, recues, redites, croisees>>
      /\ \A l \in Livraisons : livraison'[l] = livraison[l] \/ livraison'[l].statut = "absente"
  BY <1>1, ReglagesEffet
<1>3. recues \subseteq Livraisons /\ pannes \in Nat
  BY <1>1, Bornes, TypeLignes
<1> QED BY <1>1, <1>2, <1>3, Cadre

LEMMA ReditesEmissions ==
  ASSUME InvRedites, NEW e \in Evenements,
         Declencher(e) \/ Enfiler(e) \/ EnfilerInserer(e) \/ EnfilerPerdu(e)
  PROVE  Croisements' /\ Tenues'
<1>0. TypeOK /\ Croisements /\ Tenues
  BY DEF InvRedites
<1>1. /\ \A f \in Evenements : f # e => emission'[f] = emission[f]
      /\ emission[e].pc # "fini"
      /\ \/ livraison' = livraison
         \/ /\ emission'[e].pc = "fini"
            /\ \A l \in Livraisons : l[1] # e => livraison'[l] = livraison[l]
      /\ pannes' \in {pannes, pannes + 1}
      /\ UNCHANGED <<tache, recues, redites, croisees>>
  BY <1>0, EmettreEffet DEF histoire
<1>2. \A l \in Livraisons : l[1] = e => l \notin recues
  BY <1>0, <1>1 DEF Croisements
<1>3. \A l \in Livraisons : l[1] \in Evenements
  BY DEF Livraisons
<1>4. Croisements'
  BY <1>0, <1>1, <1>3 DEF Croisements, Tient
<1>5. pannes' = 0 => pannes = 0
  BY <1>0, <1>1, Bornes
<1>6. \A l \in recues : l \in Livraisons /\ livraison'[l] = livraison[l]
  BY <1>0, <1>1, <1>2, TypeLignes
<1>7. Tenues'
  BY <1>0, <1>1, <1>5, <1>6 DEF Tenues, Tient, Succes
<1> QED BY <1>4, <1>7

LEMMA ReditesPasses ==
  ASSUME InvRedites, NEW p \in Passes, PasseLister(p) \/ Interrompre(p)
  PROVE  Croisements' /\ Tenues'
<1>0. TypeOK /\ Croisements /\ Tenues
  BY DEF InvRedites
<1>1. UNCHANGED <<emission, livraison, recues, redites, croisees>>
  BY <1>0, PasseEffet DEF histoire
<1>2. /\ pannes' \in {pannes, pannes + 1}
      /\ PasseLister(p) => \A m \in Livraisons : tache[p][m].pc = "libre"
      /\ ~PasseLister(p) => pannes' = pannes + 1
  BY DEF PasseLister, Interrompre
<1>3. pannes \in Nat /\ recues \subseteq Livraisons
  BY <1>0, Bornes, TypeLignes
<1>4. /\ Libre.pc = "libre" /\ [Libre EXCEPT !.pc = "relire"].pc = "relire"
  BY DEF Libre
<1>5. ASSUME NEW q \in Passes, NEW m \in Livraisons
      PROVE  \/ tache'[q][m] = tache[q][m]
             \/ tache'[q][m].pc = "libre" /\ (Succes(q, m) /\ pannes' = 0
                                                 => livraison'[m].statut # "pending")
             \/ tache'[q][m].pc = "relire" /\ livraison[m].statut # "absente" /\ ~Succes(q, m)
  <2>1. CASE tache'[q][m] = tache[q][m]
    BY <2>1
  <2>2. CASE q = p /\ tache'[q][m] = Libre
    BY <1>2, <1>3, <1>4, <2>2 DEF Succes
  <2>3. CASE PasseLister(p) /\ q = p /\ livraison[m].statut = "pending"
             /\ tache'[q][m] = [Libre EXCEPT !.pc = "relire"]
    BY <1>2, <1>4, <2>3 DEF Succes
  <2> QED BY <1>0, <2>1, <2>2, <2>3, PasseEffet
<1> QED BY <1>0, <1>1, <1>2, <1>3, <1>5, Cadre

LEMMA ReditesLectures ==
  ASSUME InvRedites, NEW p \in Passes, NEW l \in Livraisons,
         LireWebhook(p, l) \/ LectureVide(p, l)
  PROVE  Croisements' /\ Tenues'
<1>0. TypeOK /\ Croisements /\ Tenues
  BY DEF InvRedites
<1>1. recues \subseteq Livraisons /\ pannes \in Nat
  BY <1>0, TypeLignes, Bornes
<1>2. PICK x \in Taches : Seule(p, l, x) /\ x.pc \in {"poster", "abandonner"}
  BY <1>0, LireEffet
<1>3. /\ tache[p][l].pc = "webhook" /\ pannes' \in {pannes, pannes + 1}
      /\ UNCHANGED <<emission, livraison, recues, redites, croisees>>
  BY <1>0, LireEffet DEF histoire
<1>4. \A q \in Passes, m \in Livraisons :
        \/ tache'[q][m] = tache[q][m]
        \/ tache'[q][m].pc \in {"poster", "abandonner"} /\ Tient(q, m) /\ ~Succes(q, m)
  BY <1>2, <1>3 DEF Seule, Tient, Succes
<1> QED BY <1>0, <1>1, <1>3, <1>4, Cadre

LEMMA ReditesEcritures ==
  ASSUME InvRedites, NEW p \in Passes, NEW l \in Livraisons,
         Abandonner(p, l) \/ Ecrire(p, l) \/ AppelPerdu(p, l)
  PROVE  Croisements' /\ Tenues'
<1>0. TypeOK /\ Croisements /\ Tenues
  BY DEF InvRedites
<1>1. recues \subseteq Livraisons /\ pannes \in Nat
  BY <1>0, TypeLignes, Bornes
<1>2. /\ Seule(p, l, Libre)
      /\ \A m \in Livraisons : m # l => livraison'[m] = livraison[m]
      /\ livraison[l].statut = "absente" => livraison'[l] = livraison[l]
      /\ UNCHANGED <<emission, recues, redites, croisees>>
  BY <1>0, EcritureEffet DEF histoire
<1>3. /\ pannes' \in {pannes, pannes + 1}
      /\ Succes(p, l) /\ pannes' = 0 => livraison'[l].statut # "pending"
      /\ livraison'[l].statut = "pending" =>
           livraison[l].statut = "pending" \/ (Tient(p, l) /\ ~Succes(p, l))
  <2>1. CASE Abandonner(p, l)
    <3>1. tache[p][l].pc = "abandonner" /\ pannes' = pannes
      BY <2>1 DEF Abandonner
    <3> QED BY <3>1 DEF Tient, Succes
  <2>2. CASE Ecrire(p, l)
    <3>1. tache[p][l].pc = "ecrire" /\ pannes' = pannes
      BY <2>2 DEF Ecrire
    <3>2. /\ livraison[l].statut = "absente" => livraison'[l].statut = "absente"
          /\ livraison[l].statut # "absente" /\ tache[p][l].code = "2xx"
               => livraison'[l].statut = "success"
      BY <1>0, <2>2, EcrireLigne
    <3> QED BY <3>1, <3>2 DEF Tient, Succes
  <2>3. CASE AppelPerdu(p, l)
    BY <1>1, <2>3 DEF AppelPerdu
  <2> QED BY <2>1, <2>2, <2>3
<1>4. Libre.pc = "libre"
  BY DEF Libre
<1>5. \A q \in Passes, m \in Livraisons :
        \/ tache'[q][m] = tache[q][m]
        \/ tache'[q][m].pc = "libre" /\ (Succes(q, m) /\ pannes' = 0
                                            => livraison'[m].statut # "pending")
  BY <1>2, <1>3, <1>4 DEF Seule
<1>6. \A m \in Livraisons :
        /\ livraison[m].statut = "absente" => livraison'[m].statut = "absente"
        /\ livraison'[m].statut = "pending" =>
             \/ livraison[m].statut = "pending"
             \/ \E q \in Passes : Tient(q, m) /\ ~Succes(q, m)
  BY <1>2, <1>3
<1> QED BY <1>0, <1>1, <1>2, <1>3, <1>5, <1>6, Cadre

LEMMA ReditesRelire ==
  ASSUME InvRedites, NEW p \in Passes, NEW l \in Livraisons, Relire(p, l)
  PROVE  Croisements' /\ Tenues'
<1>0. TypeOK /\ Croisements /\ Tenues
  BY DEF InvRedites
<1>1. /\ tache[p][l].pc = "relire"
      /\ UNCHANGED <<emission, livraison, pannes, recues, redites>>
  BY <1>0, RelireEffet
<1>2. recues \subseteq Livraisons /\ pannes \in Nat /\ ~Tient(p, l) /\ ~Succes(p, l)
  BY <1>0, <1>1, TypeLignes, Bornes DEF Tient, Succes
<1>3. CASE Seule(p, l, Libre) /\ croisees' = croisees
  <2>1. Libre.pc = "libre"
    BY DEF Libre
  <2>2. \A q \in Passes, m \in Livraisons :
          \/ tache'[q][m] = tache[q][m]
          \/ tache'[q][m].pc = "libre" /\ ~Succes(q, m)
    BY <1>2, <1>3, <2>1 DEF Seule
  <2> QED BY <1>0, <1>1, <1>2, <1>3, <2>2, Cadre
<1>4. CASE \E x \in Taches :
             /\ Seule(p, l, x) /\ x.pc = "webhook" /\ x.essais = livraison[l].essais
             /\ livraison[l].statut = "pending"
             /\ croisees' =
                  IF \E q \in Passes \ {p} : tache[q][l].pc \notin {"libre", "relire"}
                  THEN croisees \cup {l} ELSE croisees
  <2>1. PICK x \in Taches :
             /\ Seule(p, l, x) /\ x.pc = "webhook"
             /\ livraison[l].statut = "pending"
             /\ croisees' =
                  IF \E q \in Passes \ {p} : tache[q][l].pc \notin {"libre", "relire"}
                  THEN croisees \cup {l} ELSE croisees
    BY <1>4
  <2>2. croisees \subseteq croisees'
        /\ \A q \in Passes : q # p /\ Tient(q, l) => l \in croisees'
    BY <2>1 DEF Tient
  <2>3. \A q \in Passes, m \in Livraisons : ~(q = p /\ m = l) => tache'[q][m] = tache[q][m]
    BY <2>1 DEF Seule
  <2>4. Croisements'
    <3>1. ASSUME NEW q \in Passes, NEW r \in Passes, NEW m \in Livraisons,
                 q # r, Tient(q, m)', Tient(r, m)'
          PROVE  m \in croisees'
      BY <1>0, <2>2, <2>3, <3>1 DEF Croisements, Tient
    <3>2. emission[l[1]].pc = "fini"
      BY <1>0, <2>1 DEF Croisements
    <3> QED BY <1>0, <1>1, <2>3, <3>1, <3>2 DEF Croisements
  <2>5. ASSUME pannes = 0, NEW m \in recues, m \notin croisees'
        PROVE  /\ \A q \in Passes : Tient(q, m)' => Succes(q, m)'
               /\ livraison'[m].statut = "pending" => \E q \in Passes : Succes(q, m)'
    <3>1. /\ \A q \in Passes : Tient(q, m) => Succes(q, m)
          /\ livraison[m].statut = "pending" => \E q \in Passes : Succes(q, m)
      BY <1>0, <2>2, <2>5 DEF Tenues
    <3>2. m # l
      BY <1>2, <2>1, <2>2, <2>5, <3>1 DEF Tient, Succes
    <3>3. m \in Livraisons /\ \A q \in Passes : tache'[q][m] = tache[q][m]
      BY <1>2, <2>3, <2>5, <3>2
    <3> QED BY <1>1, <3>1, <3>3 DEF Tient, Succes
  <2>6. Tenues'
    BY <1>0, <1>1, <2>2, <2>5 DEF Tenues
  <2> QED BY <2>4, <2>6
<1> QED BY <1>0, <1>3, <1>4, RelireEffet

LEMMA ReditesPoster ==
  ASSUME InvRedites, NEW p \in Passes, NEW l \in Livraisons, Poster(p, l)
  PROVE  Croisements' /\ Tenues'
<1>0. TypeOK /\ Croisements /\ Tenues
  BY DEF InvRedites
<1>1. PICK x \in Taches :
        /\ Seule(p, l, x) /\ x.pc = "ecrire"
        /\ recues' = IF x.code = "2xx" THEN recues \cup {l} ELSE recues
  BY <1>0, PosterEffet
<1>2. /\ tache[p][l].pc = "poster"
      /\ redites' = IF l \in recues THEN redites \cup {l} ELSE redites
      /\ UNCHANGED <<emission, livraison, pannes, croisees>>
  BY <1>0, PosterEffet
<1>3. Tient(p, l) /\ ~Succes(p, l) /\ recues \subseteq Livraisons
  BY <1>0, <1>2, TypeLignes DEF Tient, Succes
<1>4. /\ tache'[p][l] = x
      /\ \A q \in Passes, m \in Livraisons : ~(q = p /\ m = l) => tache'[q][m] = tache[q][m]
  BY <1>1 DEF Seule
<1>5. Croisements'
  <2>1. \A q \in Passes, m \in Livraisons : Tient(q, m)' => Tient(q, m)
    BY <1>3, <1>4 DEF Tient
  <2>2. emission[l[1]].pc = "fini"
    BY <1>0, <1>2 DEF Croisements
  <2>3. \A m \in Livraisons : emission[m[1]].pc # "fini" =>
          m # l /\ m \notin recues' /\ \A q \in Passes : tache'[q][m] = tache[q][m]
    BY <1>0, <1>1, <1>4, <2>2 DEF Croisements
  <2> QED BY <1>0, <1>2, <2>1, <2>3 DEF Croisements
<1>6. pannes = 0 /\ l \in recues => l \in croisees
  BY <1>0, <1>3 DEF Tenues
<1>7. ASSUME pannes = 0, NEW m \in recues', m \notin croisees
      PROVE  /\ \A q \in Passes : Tient(q, m)' => Succes(q, m)'
             /\ livraison'[m].statut = "pending" => \E q \in Passes : Succes(q, m)'
  <2>1. CASE m = l
    <3>1. x.code = "2xx" /\ Succes(p, l)'
      BY <1>1, <1>4, <1>6, <1>7, <2>1 DEF Succes
    <3>2. ASSUME NEW q \in Passes, q # p, Tient(q, l)' PROVE FALSE
      <4>1. Tient(q, l)
        BY <1>4, <3>2 DEF Tient
      <4> QED BY <1>0, <1>3, <1>7, <2>1, <3>2, <4>1 DEF Croisements
    <3> QED BY <2>1, <3>1, <3>2
  <2>2. CASE m # l
    <3>1. m \in recues /\ m \in Livraisons
      BY <1>1, <1>3, <1>7, <2>2
    <3>2. \A q \in Passes : tache'[q][m] = tache[q][m]
      BY <1>4, <2>2, <3>1
    <3> QED BY <1>0, <1>2, <1>7, <3>1, <3>2 DEF Tenues, Tient, Succes
  <2> QED BY <2>1, <2>2
<1>8. Tenues'
  <2>1. pannes = 0 => redites' \subseteq croisees
    BY <1>0, <1>2, <1>6 DEF Tenues
  <2> QED BY <1>2, <1>7, <2>1 DEF Tenues
<1> QED BY <1>5, <1>8

LEMMA ReditesEtape == InvRedites /\ [Next]_vars => InvRedites'
<1> SUFFICES ASSUME InvRedites, [Next]_vars PROVE InvRedites'
  OBVIOUS
<1>1. TypeOK'
  BY TypeEtape DEF InvRedites
<1>2. CASE UNCHANGED vars
  BY <1>2 DEF vars, etat, histoire, InvRedites, TypeOK, EnAttente, Croisements, Tenues, Tient, Succes
<1>3. CASE Next
  BY <1>1, <1>3, ReditesReglages, ReditesEmissions, ReditesPasses, ReditesLectures,
     ReditesEcritures, ReditesRelire, ReditesPoster DEF Next, Etape, InvRedites
<1> QED BY <1>2, <1>3

\* With no failure, only passes that overlap send again a row answered 2xx.
THEOREM Redites == Spec => []RediteParChevauchement
<1>1. InvRedites => RediteParChevauchement
  BY DEF InvRedites, Tenues, RediteParChevauchement
<1> QED BY <1>1, ReditesInit, ReditesEtape, PTL DEF Spec

-----------------------------------------------------------------------------
(* The retries end.  While there is no failure, the attempts of a row that *)
(* no two passes have held at once are exactly its failed POSTs, save      *)
(* between a POST and the write that counts it.                            *)

EnMain == {"webhook", "poster"}

Exacts ==
  pannes = 0 => \A l \in Livraisons : l \notin croisees =>
    /\ \A p \in Passes :
         /\ tache[p][l].pc \in EnMain => tache[p][l].essais = echecs[l]
         /\ tache[p][l].pc = "ecrire" /\ tache[p][l].code = "passager"
              => tache[p][l].essais + 1 = echecs[l]
    /\ livraison[l].statut = "pending" =>
         livraison[l].essais = echecs[l] \/ \E p \in Passes : tache[p][l].pc = "ecrire"

Intacts == \A l \in Livraisons : emission[l[1]].pc # "fini" => echecs[l] = 0

InvEssais == InvRedites /\ Exacts /\ Intacts

LEMMA EssaisInit == Init => InvEssais
<1> SUFFICES ASSUME Init PROVE InvEssais
  OBVIOUS
<1>1. InvRedites
  BY ReditesInit
<1>2. Exacts
  BY DEF Init, Exacts, EnMain, Libre
<1>3. Intacts
  BY DEF Init, Intacts
<1> QED BY <1>1, <1>2, <1>3 DEF InvEssais

\* A step that counts no failed POST, and hands over no row, keeps both parts.
LEMMA CadreEssais ==
  ASSUME Exacts, Intacts, UNCHANGED echecs, croisees \subseteq croisees',
         pannes' = 0 => pannes = 0,
         \A e \in Evenements : emission'[e].pc # "fini" => emission[e].pc # "fini",
         \A l \in Livraisons : l[1] \in Evenements,
         \A q \in Passes, m \in Livraisons :
           \/ tache'[q][m] = tache[q][m]
           \/ /\ tache'[q][m].pc \notin EnMain \cup {"ecrire"}
              /\ tache[q][m].pc # "ecrire"
           \/ /\ tache'[q][m].pc = "poster" /\ tache[q][m].pc = "webhook"
              /\ tache'[q][m].essais = tache[q][m].essais
           \/ pannes' # 0,
         \A m \in Livraisons :
           \/ livraison'[m] = livraison[m]
           \/ livraison'[m].statut # "pending"
           \/ livraison'[m].essais = echecs[m]
  PROVE  Exacts' /\ Intacts'
<1>1. Intacts'
  BY DEF Intacts
<1>2. ASSUME pannes' = 0, NEW l \in Livraisons, l \notin croisees'
      PROVE  /\ \A p \in Passes :
                  /\ tache'[p][l].pc \in EnMain => tache'[p][l].essais = echecs'[l]
                  /\ tache'[p][l].pc = "ecrire" /\ tache'[p][l].code = "passager"
                       => tache'[p][l].essais + 1 = echecs'[l]
             /\ livraison'[l].statut = "pending" =>
                  livraison'[l].essais = echecs'[l] \/ \E p \in Passes : tache'[p][l].pc = "ecrire"
  <2>1. /\ \A p \in Passes :
             /\ tache[p][l].pc \in EnMain => tache[p][l].essais = echecs[l]
             /\ tache[p][l].pc = "ecrire" /\ tache[p][l].code = "passager"
                  => tache[p][l].essais + 1 = echecs[l]
        /\ livraison[l].statut = "pending" =>
             livraison[l].essais = echecs[l] \/ \E p \in Passes : tache[p][l].pc = "ecrire"
    BY <1>2 DEF Exacts
  <2>2. ASSUME NEW p \in Passes
        PROVE  /\ tache'[p][l].pc \in EnMain => tache'[p][l].essais = echecs'[l]
               /\ tache'[p][l].pc = "ecrire" /\ tache'[p][l].code = "passager"
                    => tache'[p][l].essais + 1 = echecs'[l]
    BY <1>2, <2>1 DEF EnMain
  <2>3. ASSUME NEW p \in Passes, tache[p][l].pc = "ecrire" PROVE tache'[p][l].pc = "ecrire"
    BY <1>2, <2>3 DEF EnMain
  <2> QED BY <2>1, <2>2, <2>3
<1>3. Exacts'
  BY <1>2 DEF Exacts
<1> QED BY <1>1, <1>3

LEMMA EssaisReglages ==
  ASSUME InvEssais, NEW w \in Points, Creer(w) \/ Basculer(w) \/ Supprimer(w)
  PROVE  Exacts' /\ Intacts'
<1>0. TypeOK /\ Exacts /\ Intacts
  BY DEF InvEssais, InvRedites
<1>1. /\ UNCHANGED <<emission, tache, pannes, echecs, croisees>>
      /\ \A l \in Livraisons : livraison'[l] = livraison[l] \/ livraison'[l].statut = "absente"
  BY <1>0, ReglagesEffet
<1> QED BY <1>0, <1>1, Bornes, CadreEssais

LEMMA EssaisEmissions ==
  ASSUME InvEssais, NEW e \in Evenements,
         Declencher(e) \/ Enfiler(e) \/ EnfilerInserer(e) \/ EnfilerPerdu(e)
  PROVE  Exacts' /\ Intacts'
<1>0. TypeOK /\ Exacts /\ Intacts
  BY DEF InvEssais, InvRedites
<1>1. /\ \A f \in Evenements : f # e => emission'[f] = emission[f]
      /\ emission[e].pc # "fini"
      /\ \/ livraison' = livraison
         \/ \A l \in Livraisons :
              livraison'[l] = livraison[l] \/ (l[1] = e /\ livraison'[l].essais = 0)
      /\ pannes' \in {pannes, pannes + 1}
      /\ UNCHANGED <<tache, echecs, croisees>>
  BY <1>0, EmettreEffet DEF histoire
<1>2. \A l \in Livraisons : l[1] = e => echecs[l] = 0
  BY <1>0, <1>1 DEF Intacts
<1>3. \A l \in Livraisons : livraison'[l] = livraison[l] \/ livraison'[l].essais = echecs[l]
  BY <1>1, <1>2
<1>4. pannes' = 0 => pannes = 0
  BY <1>0, <1>1, Bornes
<1>5. \A f \in Evenements : emission'[f].pc # "fini" => emission[f].pc # "fini"
  BY <1>1
<1> QED BY <1>0, <1>1, <1>3, <1>4, <1>5, Bornes, CadreEssais

LEMMA EssaisPasses ==
  ASSUME InvEssais, NEW p \in Passes, PasseLister(p) \/ Interrompre(p)
  PROVE  Exacts' /\ Intacts'
<1>0. TypeOK /\ Exacts /\ Intacts
  BY DEF InvEssais, InvRedites
<1>1. UNCHANGED <<emission, livraison, echecs, croisees>>
  BY <1>0, PasseEffet DEF histoire
<1>2. /\ PasseLister(p) => pannes' = pannes /\ \A m \in Livraisons : tache[p][m].pc = "libre"
      /\ ~PasseLister(p) => pannes' = pannes + 1
  BY DEF PasseLister, Interrompre
<1>3. pannes \in Nat
  BY <1>0, Bornes
<1>4. pannes' = 0 => pannes = 0 /\ PasseLister(p)
  BY <1>2, <1>3
<1>5. Libre.pc = "libre" /\ [Libre EXCEPT !.pc = "relire"].pc = "relire"
  BY DEF Libre
<1>6. ASSUME NEW q \in Passes, NEW m \in Livraisons
      PROVE  \/ tache'[q][m] = tache[q][m]
             \/ /\ tache'[q][m].pc \notin EnMain \cup {"ecrire"}
                /\ tache[q][m].pc # "ecrire"
             \/ pannes' # 0
  <2>1. CASE tache'[q][m] = tache[q][m] \/ pannes' # 0
    BY <2>1
  <2>2. CASE q = p /\ tache'[q][m] = Libre /\ pannes' = 0
    BY <1>2, <1>4, <1>5, <2>2 DEF EnMain
  <2>3. CASE q = p /\ tache'[q][m] = [Libre EXCEPT !.pc = "relire"] /\ pannes' = 0
    BY <1>2, <1>4, <1>5, <2>3 DEF EnMain
  <2> QED BY <1>0, <2>1, <2>2, <2>3, PasseEffet
<1>7. \A l \in Livraisons : l[1] \in Evenements
  BY DEF Livraisons
<1>8. pannes' = 0 => pannes = 0
  BY <1>4
<1> QED BY <1>0, <1>1, <1>6, <1>7, <1>8, CadreEssais

LEMMA EssaisLectures ==
  ASSUME InvEssais, NEW p \in Passes, NEW l \in Livraisons,
         LireWebhook(p, l) \/ LectureVide(p, l)
  PROVE  Exacts' /\ Intacts'
<1>0. TypeOK /\ Exacts /\ Intacts
  BY DEF InvEssais, InvRedites
<1>1. PICK x \in Taches : /\ Seule(p, l, x) /\ x.essais = tache[p][l].essais
                          /\ x.pc \in {"poster", "abandonner"}
  BY <1>0, LireEffet
<1>2. /\ tache[p][l].pc = "webhook" /\ pannes' \in {pannes, pannes + 1}
      /\ UNCHANGED <<emission, livraison, echecs, croisees>>
  BY <1>0, LireEffet DEF histoire
<1>3. pannes' = 0 => pannes = 0
  BY <1>0, <1>2, Bornes
<1>4. \A q \in Passes, m \in Livraisons :
        \/ tache'[q][m] = tache[q][m]
        \/ /\ tache'[q][m].pc \notin EnMain \cup {"ecrire"}
           /\ tache[q][m].pc # "ecrire"
        \/ /\ tache'[q][m].pc = "poster" /\ tache[q][m].pc = "webhook"
           /\ tache'[q][m].essais = tache[q][m].essais
  BY <1>1, <1>2 DEF Seule, EnMain
<1> QED BY <1>0, <1>2, <1>3, <1>4, Bornes, CadreEssais

\* The row read again: nobody holds it, or it is crossed.
LEMMA EssaisRelire ==
  ASSUME InvEssais, NEW p \in Passes, NEW l \in Livraisons, Relire(p, l)
  PROVE  Exacts' /\ Intacts'
<1>0. TypeOK /\ Exacts /\ Intacts
  BY DEF InvEssais, InvRedites
<1>1. /\ tache[p][l].pc = "relire"
      /\ UNCHANGED <<emission, livraison, pannes, echecs>>
  BY <1>0, RelireEffet
<1>2. CASE Seule(p, l, Libre) /\ croisees' = croisees
  <2>1. Libre.pc = "libre"
    BY DEF Libre
  <2>2. \A q \in Passes, m \in Livraisons :
          \/ tache'[q][m] = tache[q][m]
          \/ /\ tache'[q][m].pc \notin EnMain \cup {"ecrire"}
             /\ tache[q][m].pc # "ecrire"
    BY <1>1, <1>2, <2>1 DEF Seule, EnMain
  <2> QED BY <1>0, <1>1, <1>2, <2>2, Bornes, CadreEssais
<1>3. CASE \E x \in Taches :
             /\ Seule(p, l, x) /\ x.pc = "webhook" /\ x.essais = livraison[l].essais
             /\ livraison[l].statut = "pending"
             /\ croisees' =
                  IF \E q \in Passes \ {p} : tache[q][l].pc \notin {"libre", "relire"}
                  THEN croisees \cup {l} ELSE croisees
  <2>1. PICK x \in Taches :
             /\ Seule(p, l, x) /\ x.pc = "webhook" /\ x.essais = livraison[l].essais
             /\ livraison[l].statut = "pending"
             /\ croisees' =
                  IF \E q \in Passes \ {p} : tache[q][l].pc \notin {"libre", "relire"}
                  THEN croisees \cup {l} ELSE croisees
    BY <1>3
  <2>2. /\ tache'[p][l] = x
        /\ \A q \in Passes, m \in Livraisons : ~(q = p /\ m = l) => tache'[q][m] = tache[q][m]
    BY <2>1 DEF Seule
  <2>3. croisees \subseteq croisees'
    BY <2>1
  <2>4. l \notin croisees' => \A q \in Passes : tache[q][l].pc # "ecrire"
    BY <1>1, <2>1
  <2>5. pannes = 0 /\ l \notin croisees' => livraison[l].essais = echecs[l]
    BY <1>0, <2>1, <2>3, <2>4 DEF Exacts
  <2>6. ASSUME pannes' = 0, NEW m \in Livraisons, m \notin croisees'
        PROVE  /\ \A q \in Passes :
                    /\ tache'[q][m].pc \in EnMain => tache'[q][m].essais = echecs'[m]
                    /\ tache'[q][m].pc = "ecrire" /\ tache'[q][m].code = "passager"
                         => tache'[q][m].essais + 1 = echecs'[m]
               /\ livraison'[m].statut = "pending" =>
                    livraison'[m].essais = echecs'[m] \/ \E q \in Passes : tache'[q][m].pc = "ecrire"
    <3>1. /\ \A q \in Passes :
               /\ tache[q][m].pc \in EnMain => tache[q][m].essais = echecs[m]
               /\ tache[q][m].pc = "ecrire" /\ tache[q][m].code = "passager"
                    => tache[q][m].essais + 1 = echecs[m]
          /\ livraison[m].statut = "pending" =>
               livraison[m].essais = echecs[m] \/ \E q \in Passes : tache[q][m].pc = "ecrire"
      BY <1>0, <1>1, <2>3, <2>6 DEF Exacts
    <3>2. CASE m # l
      BY <1>1, <2>2, <3>1, <3>2
    <3>3. CASE m = l
      BY <1>1, <2>1, <2>2, <2>5, <2>6, <3>1, <3>3
    <3> QED BY <3>2, <3>3
  <2>7. Exacts'
    BY <2>6 DEF Exacts
  <2>8. Intacts'
    BY <1>0, <1>1 DEF Intacts
  <2> QED BY <2>7, <2>8
<1> QED BY <1>0, <1>2, <1>3, RelireEffet

\* A POST: no other pass holds the row, or it is crossed.
LEMMA EssaisPoster ==
  ASSUME InvEssais, NEW p \in Passes, NEW l \in Livraisons, Poster(p, l)
  PROVE  Exacts' /\ Intacts'
<1>0. TypeOK /\ Croisements /\ Exacts /\ Intacts
  BY DEF InvEssais, InvRedites
<1>1. PICK x \in Taches :
        /\ Seule(p, l, x) /\ x.pc = "ecrire" /\ x.essais = tache[p][l].essais
        /\ x.code = "passager" /\ echecs[l] < MaxEssais => echecs'[l] = echecs[l] + 1
  BY <1>0, PosterEffet
<1>2. /\ tache[p][l].pc = "poster"
      /\ \A m \in Livraisons : m # l => echecs'[m] = echecs[m]
      /\ UNCHANGED <<emission, livraison, pannes, croisees>>
  BY <1>0, PosterEffet
<1>3. /\ tache'[p][l] = x
      /\ \A q \in Passes, m \in Livraisons : ~(q = p /\ m = l) => tache'[q][m] = tache[q][m]
  BY <1>1 DEF Seule
<1>4. Tient(p, l)
  BY <1>2 DEF Tient
<1>5. Intacts'
  <2>1. emission[l[1]].pc = "fini"
    BY <1>0, <1>2 DEF Croisements
  <2> QED BY <1>0, <1>2, <2>1 DEF Intacts
<1>6. ASSUME pannes' = 0, NEW m \in Livraisons, m \notin croisees'
      PROVE  /\ \A q \in Passes :
                  /\ tache'[q][m].pc \in EnMain => tache'[q][m].essais = echecs'[m]
                  /\ tache'[q][m].pc = "ecrire" /\ tache'[q][m].code = "passager"
                       => tache'[q][m].essais + 1 = echecs'[m]
             /\ livraison'[m].statut = "pending" =>
                  livraison'[m].essais = echecs'[m] \/ \E q \in Passes : tache'[q][m].pc = "ecrire"
  <2>1. /\ \A q \in Passes :
             /\ tache[q][m].pc \in EnMain => tache[q][m].essais = echecs[m]
             /\ tache[q][m].pc = "ecrire" /\ tache[q][m].code = "passager"
                  => tache[q][m].essais + 1 = echecs[m]
        /\ livraison[m].statut = "pending" =>
             livraison[m].essais = echecs[m] \/ \E q \in Passes : tache[q][m].pc = "ecrire"
    BY <1>0, <1>2, <1>6 DEF Exacts
  <2>2. CASE m # l
    BY <1>2, <1>3, <2>1, <2>2
  <2>3. CASE m = l
    <3>1. \A q \in Passes : q # p => ~Tient(q, l)
      BY <1>0, <1>2, <1>4, <1>6, <2>3 DEF Croisements
    <3>2. \A q \in Passes : q # p => tache'[q][l].pc \in {"libre", "relire"}
      BY <1>3, <3>1 DEF Tient
    <3>3. tache[p][l].essais = echecs[l] /\ echecs[l] < MaxEssais
      <4>1. tache[p][l].essais = echecs[l]
        BY <1>2, <2>1, <2>3 DEF EnMain
      <4>2. tache[p][l].essais \in 0..(MaxEssais - 1) /\ MaxEssais \in Nat
        BY <1>0, Bornes
      <4> QED BY <4>1, <4>2
    <3>4. x.code = "passager" => x.essais + 1 = echecs'[l]
      BY <1>1, <3>3
    <3> QED BY <1>1, <1>3, <2>3, <3>2, <3>4 DEF EnMain
  <2> QED BY <2>2, <2>3
<1>7. Exacts'
  BY <1>6 DEF Exacts
<1> QED BY <1>5, <1>7

LEMMA EssaisEcritures ==
  ASSUME InvEssais, NEW p \in Passes, NEW l \in Livraisons,
         Abandonner(p, l) \/ Ecrire(p, l) \/ AppelPerdu(p, l)
  PROVE  Exacts' /\ Intacts'
<1>0. TypeOK /\ Croisements /\ Exacts /\ Intacts
  BY DEF InvEssais, InvRedites
<1>1. /\ Seule(p, l, Libre)
      /\ \A m \in Livraisons : m # l => livraison'[m] = livraison[m]
      /\ livraison[l].statut = "absente" => livraison'[l] = livraison[l]
      /\ UNCHANGED <<emission, echecs, croisees>>
  BY <1>0, EcritureEffet DEF histoire
<1>2. /\ tache'[p][l].pc = "libre"
      /\ \A q \in Passes, m \in Livraisons : ~(q = p /\ m = l) => tache'[q][m] = tache[q][m]
  BY <1>1 DEF Seule, Libre
<1>3. CASE Abandonner(p, l)
  <2>1. tache[p][l].pc = "abandonner" /\ pannes' = pannes
    BY <1>3 DEF Abandonner
  <2>2. livraison'[l].statut # "pending"
    <3>1. pannes' # pannes + 1
      BY <1>0, <2>1, Bornes
    <3> QED BY <1>0, <1>1, <1>3, <2>1, <3>1, EcritureEffet
  <2>3. \A q \in Passes, m \in Livraisons :
          \/ tache'[q][m] = tache[q][m]
          \/ /\ tache'[q][m].pc \notin EnMain \cup {"ecrire"}
             /\ tache[q][m].pc # "ecrire"
    BY <1>2, <2>1 DEF EnMain
  <2> QED BY <1>0, <1>1, <2>1, <2>2, <2>3, Bornes, CadreEssais
<1>4. CASE AppelPerdu(p, l)
  <2>1. pannes' # 0 /\ UNCHANGED livraison
    BY <1>0, <1>4, Bornes DEF AppelPerdu
  <2> QED BY <1>0, <1>1, <2>1, Bornes, CadreEssais
<1>5. CASE Ecrire(p, l)
  <2>1. tache[p][l].pc = "ecrire" /\ pannes' = pannes
    BY <1>5 DEF Ecrire
  <2>2. Intacts'
    BY <1>0, <1>1 DEF Intacts
  <2>3. ASSUME pannes' = 0, NEW m \in Livraisons, m \notin croisees'
        PROVE  /\ \A q \in Passes :
                    /\ tache'[q][m].pc \in EnMain => tache'[q][m].essais = echecs'[m]
                    /\ tache'[q][m].pc = "ecrire" /\ tache'[q][m].code = "passager"
                         => tache'[q][m].essais + 1 = echecs'[m]
               /\ livraison'[m].statut = "pending" =>
                    livraison'[m].essais = echecs'[m] \/ \E q \in Passes : tache'[q][m].pc = "ecrire"
    <3>1. /\ \A q \in Passes :
               /\ tache[q][m].pc \in EnMain => tache[q][m].essais = echecs[m]
               /\ tache[q][m].pc = "ecrire" /\ tache[q][m].code = "passager"
                    => tache[q][m].essais + 1 = echecs[m]
          /\ livraison[m].statut = "pending" =>
               livraison[m].essais = echecs[m] \/ \E q \in Passes : tache[q][m].pc = "ecrire"
      BY <1>0, <1>1, <2>1, <2>3 DEF Exacts
    <3>2. \A q \in Passes :
            /\ tache'[q][m].pc \in EnMain => tache'[q][m].essais = echecs'[m]
            /\ tache'[q][m].pc = "ecrire" /\ tache'[q][m].code = "passager"
                 => tache'[q][m].essais + 1 = echecs'[m]
      BY <1>1, <1>2, <3>1 DEF EnMain
    <3>3. CASE m # l
      BY <1>1, <1>2, <3>1, <3>2, <3>3
    <3>4. CASE m = l
      <4>1. livraison'[l].statut = "pending" =>
              tache[p][l].code = "passager" /\ livraison'[l].essais = tache[p][l].essais + 1
        BY <1>0, <1>5, EcrireLigne DEF PeutRetenter
      <4> QED BY <1>1, <2>1, <3>1, <3>2, <3>4, <4>1
    <3> QED BY <3>3, <3>4
  <2> QED BY <2>2, <2>3 DEF Exacts
<1> QED BY <1>3, <1>4, <1>5

LEMMA EssaisEtape == InvEssais /\ [Next]_vars => InvEssais'
<1> SUFFICES ASSUME InvEssais, [Next]_vars PROVE InvEssais'
  OBVIOUS
<1>1. InvRedites'
  BY ReditesEtape DEF InvEssais
<1>2. CASE UNCHANGED vars
  BY <1>1, <1>2 DEF vars, etat, histoire, InvEssais, Exacts, Intacts
<1>3. CASE Next
  BY <1>1, <1>3, EssaisReglages, EssaisEmissions, EssaisPasses, EssaisLectures,
     EssaisRelire, EssaisPoster, EssaisEcritures DEF Next, Etape, InvEssais
<1> QED BY <1>2, <1>3

\* With no failure, a row that no two passes hold at once is not sent after
\* max_attempts failed POSTs or a refusal for good.
THEOREM EssaisFinis == Spec => []EssaisBornes
<1>1. InvEssais => EssaisBornes
  <2> SUFFICES ASSUME InvEssais, pannes = 0, NEW p \in Passes, NEW l \in Livraisons,
                      tache[p][l].pc = "poster", l \notin croisees
               PROVE  echecs[l] < MaxEssais
    BY DEF EssaisBornes
  <2>1. tache[p][l].essais = echecs[l]
    BY DEF InvEssais, Exacts, EnMain
  <2> QED BY <2>1, Bornes DEF InvEssais, InvRedites
<1> QED BY <1>1, EssaisInit, EssaisEtape, PTL DEF Spec
==============================================================================
