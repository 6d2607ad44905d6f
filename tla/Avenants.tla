------------------------------- MODULE Avenants -------------------------------
(***************************************************************************)
(* Amendments to a signed lease: /api/bail/avenant, and signer and refuser *)
(* under /api/bail/avenant/[id].                                           *)
(*                                                                         *)
(* Either party proposes, both sign, either may refuse; an amendment both  *)
(* have signed becomes "actif" and its fields are copied to the annonce.   *)
(* As everywhere in the API, a handler is a run of separate Supabase calls *)
(* and two of them may serve the same amendment at once.                   *)
(*                                                                         *)
(* One annonce is modelled, its lease signed by both parties and its       *)
(* tenant unchanged: the amendments the product's form builds change the   *)
(* rent, the charges, or nothing that is copied (ProposerAvenantModal).    *)
(***************************************************************************)
EXTENDS Naturals, FiniteSets

CONSTANTS
  Ids,       \* ids that rows of bail_avenants may draw, a bound on their number
  Aucun,     \* no amendment
  Requetes,  \* the requests that may arrive
  MaxPannes  \* bound on killed functions, failed and ignored calls

ASSUME AvenantsHypotheses == MaxPannes \in Nat /\ Aucun \notin Ids

Parties == {"locataire", "bailleur"}
\* What an amendment changes; "clause" stands for all that is never copied.
Cles == {"prix", "charges", "clause"}
\* PROPAGEABLE_KEYS.
Propageables == {"prix", "charges"}

VARIABLES
  avenant,   \* rows of bail_avenants: numero (0: no such row), cle (the key of
             \* nouveau_payload), auteur, statut, signatures (parties whose
             \* signe_*_at is set)
  champs,    \* per copied column of the annonce, the id of the amendment its
             \* value comes from, Aucun for the lease
  messages,  \* per amendment, the [AVENANT_*] posted
  requete,   \* the requests being served
  pannes,    \* failures so far
  enVigueur  \* history: amendments that have been "actif"

vars == <<avenant, champs, messages, requete, pannes, enVigueur>>

Etapes == {"attente", "inserer", "annoncer", "marquer", "statut", "propager",
           "poster", "annuler", "posterRefus", "fini"}
Statuts == {"propose", "signe_locataire", "signe_proprio", "actif", "annule"}

SansLigne == [numero |-> 0, cle |-> "clause", auteur |-> "bailleur",
              statut |-> "propose", signatures |-> {}]

\* A request is made by a party about an amendment; the fields it has not read
\* yet are arbitrary.  lu is the statut its own update returned, double whether
\* that row had both signatures.
Depart == [pc |-> "attente", partie |-> "bailleur", id |-> Aucun,
           cle |-> "clause", numero |-> 0, lu |-> "propose", double |-> FALSE]

Init ==
  /\ avenant = [a \in Ids |-> SansLigne]
  /\ champs = [c \in Propageables |-> Aucun]
  /\ messages = [a \in Ids |-> {}]
  /\ requete = [r \in Requetes |-> Depart]
  /\ pannes = 0
  /\ enVigueur = {}

Existe(a) == avenant[a].numero > 0
Numeros == {avenant[a].numero : a \in {b \in Ids : Existe(b)}}
Dernier == IF Numeros = {} THEN 0
           ELSE CHOOSE n \in Numeros : \A m \in Numeros : m <= n

Aller(r, etape) == requete' = [requete EXCEPT ![r].pc = etape]

-----------------------------------------------------------------------------
(* Mutations, none of them part of the specification.                      *)

\* No UNIQUE (annonce_id, numero) in migration 044.
ProposerInsererSansContrainte(r) ==
  /\ requete[r].pc = "inserer"
  /\ \E a \in Ids :
       /\ ~Existe(a)
       /\ avenant' = [avenant EXCEPT ![a] =
            [SansLigne EXCEPT !.numero = requete[r].numero, !.cle = requete[r].cle,
                              !.auteur = requete[r].partie]]
       /\ requete' = [requete EXCEPT ![r] = [@ EXCEPT !.pc = "annoncer", !.id = a]]
  /\ UNCHANGED <<champs, messages, pannes, enVigueur>>

\* Either signature taken for both.
SignerMarquerUneSuffit(r) ==
  /\ requete[r].pc = "marquer"
  /\ LET a == requete[r].id
         signatures == avenant[a].signatures \cup {requete[r].partie}
     IN /\ avenant' = [avenant EXCEPT ![a].signatures = signatures]
        /\ requete' = [requete EXCEPT ![r] =
             [@ EXCEPT !.pc = "statut", !.lu = avenant[a].statut, !.double = TRUE]]
  /\ UNCHANGED <<champs, messages, pannes, enVigueur>>

\* The statut named after the column signe_bailleur_at, which migration 044's
\* CHECK does not know.
StatutApresSelonColonne(q) ==
  IF q.double THEN "actif"
  ELSE IF q.partie = "locataire" THEN "signe_locataire" ELSE "signe_bailleur"

\* update ... where statut = 'propose'.
SignerStatutSiPropose(r) ==
  /\ requete[r].pc = "statut"
  /\ LET q == requete[r]
         nouveau == IF q.double THEN "actif" ELSE "signe_locataire"
     IN IF avenant[q.id].statut = "propose"
        THEN /\ avenant' = [avenant EXCEPT ![q.id].statut = nouveau]
             /\ enVigueur' = IF q.double THEN enVigueur \cup {q.id} ELSE enVigueur
        ELSE UNCHANGED <<avenant, enVigueur>>
  /\ Aller(r, IF requete[r].double /\ avenant[requete[r].id].cle \in Propageables
              THEN "propager" ELSE "poster")
  /\ UNCHANGED <<champs, messages, pannes>>

\* The copy left to the request that finds the other party's statut written.
SignerStatutPropageTard(r) ==
  /\ requete[r].pc = "statut"
  /\ LET q == requete[r]
     IN /\ avenant' = [avenant EXCEPT ![q.id].statut =
                         IF q.double THEN "actif" ELSE @]
        /\ enVigueur' = IF q.double THEN enVigueur \cup {q.id} ELSE enVigueur
        /\ Aller(r, IF q.double /\ q.lu # "propose" /\ avenant[q.id].cle \in Propageables
                    THEN "propager" ELSE "poster")
  /\ UNCHANGED <<champs, messages, pannes>>

\* Fields copied without waiting for the second signature.
SignerStatutPropageTot(r) ==
  /\ requete[r].pc = "statut"
  /\ Aller(r, IF avenant[requete[r].id].cle \in Propageables
              THEN "propager" ELSE "poster")
  /\ UNCHANGED <<avenant, champs, messages, pannes, enVigueur>>

-----------------------------------------------------------------------------
(* POST /api/bail/avenant.                                                 *)

\* The next number is one more than the greatest there is.
ProposerNumero(r, partie, cle) ==
  /\ requete[r].pc = "attente"
  /\ requete' = [requete EXCEPT ![r] =
       [@ EXCEPT !.pc = "inserer", !.partie = partie, !.cle = cle,
                 !.numero = Dernier + 1]]
  /\ UNCHANGED <<avenant, champs, messages, pannes, enVigueur>>

\* A number another request has taken since trips the unique constraint: 500.
ProposerInserer(r) ==
  /\ requete[r].pc = "inserer"
  /\ \/ /\ requete[r].numero \in Numeros
        /\ Aller(r, "fini")
        /\ UNCHANGED avenant
     \/ /\ requete[r].numero \notin Numeros
        /\ \E a \in Ids :
             /\ ~Existe(a)
             /\ avenant' = [avenant EXCEPT ![a] =
                  [numero |-> requete[r].numero, cle |-> requete[r].cle,
                   auteur |-> requete[r].partie, statut |-> "propose",
                   signatures |-> {}]]
             /\ requete' = [requete EXCEPT ![r] =
                  [@ EXCEPT !.pc = "annoncer", !.id = a]]
  /\ UNCHANGED <<champs, messages, pannes, enVigueur>>

\* [AVENANT_PROPOSE] and a bell to the other party.
ProposerAnnoncer(r) ==
  /\ requete[r].pc = "annoncer"
  /\ messages' = [messages EXCEPT ![requete[r].id] = @ \cup {"propose"}]
  /\ Aller(r, "fini")
  /\ UNCHANGED <<avenant, champs, pannes, enVigueur>>

-----------------------------------------------------------------------------
(* POST /api/bail/avenant/[id]/signer.                                     *)

\* Refused (409) for an amendment settled, or already signed by the party.
SignerLire(r, partie, a) ==
  /\ requete[r].pc = "attente"
  /\ Existe(a)
  /\ avenant[a].statut \notin {"actif", "annule"}
  /\ partie \notin avenant[a].signatures
  /\ requete' = [requete EXCEPT ![r] =
       [@ EXCEPT !.pc = "marquer", !.partie = partie, !.id = a]]
  /\ UNCHANGED <<avenant, champs, messages, pannes, enVigueur>>

\* V62: the update of the timestamp returns the row as it leaves it.
SignerMarquer(r) ==
  /\ requete[r].pc = "marquer"
  /\ LET a == requete[r].id
         signatures == avenant[a].signatures \cup {requete[r].partie}
     IN /\ avenant' = [avenant EXCEPT ![a].signatures = signatures]
        /\ requete' = [requete EXCEPT ![r] =
             [@ EXCEPT !.pc = "statut", !.lu = avenant[a].statut,
                       !.double = (signatures = Parties)]]
  /\ UNCHANGED <<champs, messages, pannes, enVigueur>>

\* Without both signatures, the party's own is the only one on the row.
StatutApres(q) ==
  IF q.double THEN "actif"
  ELSE IF q.partie = "locataire" THEN "signe_locataire" ELSE "signe_proprio"

\* update ... where statut <> 'actif', when the statut is not the one returned.
SignerStatut(r) ==
  /\ requete[r].pc = "statut"
  /\ LET q == requete[r]
         nouveau == IF StatutApres(q) # q.lu /\ avenant[q.id].statut # "actif"
                    THEN StatutApres(q) ELSE avenant[q.id].statut
     IN /\ avenant' = [avenant EXCEPT ![q.id].statut = nouveau]
        /\ enVigueur' = IF nouveau = "actif" THEN enVigueur \cup {q.id} ELSE enVigueur
        /\ Aller(r, IF q.double /\ avenant[q.id].cle \in Propageables
                    THEN "propager" ELSE "poster")
  /\ UNCHANGED <<champs, messages, pannes>>

\* The delta is copied to the annonce.
SignerPropager(r) ==
  /\ requete[r].pc = "propager"
  /\ LET a == requete[r].id IN champs' = [champs EXCEPT ![avenant[a].cle] = a]
  /\ Aller(r, "poster")
  /\ UNCHANGED <<avenant, messages, pannes, enVigueur>>

\* [AVENANT_SIGNE], which says whether the amendment is now in force.
SignerPoster(r) ==
  /\ requete[r].pc = "poster"
  /\ messages' = [messages EXCEPT ![requete[r].id] =
       @ \cup {IF requete[r].double THEN "actif" ELSE "signe"}]
  /\ Aller(r, "fini")
  /\ UNCHANGED <<avenant, champs, pannes, enVigueur>>

-----------------------------------------------------------------------------
(* POST /api/bail/avenant/[id]/refuser.                                    *)

RefuserLire(r, partie, a) ==
  /\ requete[r].pc = "attente"
  /\ Existe(a)
  /\ avenant[a].statut \notin {"actif", "annule"}
  /\ requete' = [requete EXCEPT ![r] =
       [@ EXCEPT !.pc = "annuler", !.partie = partie, !.id = a]]
  /\ UNCHANGED <<avenant, champs, messages, pannes, enVigueur>>

\* This update looks at the statut no more; the author is told of a refusal
\* that is not his own.
RefuserMarquer(r) ==
  /\ requete[r].pc = "annuler"
  /\ LET a == requete[r].id
     IN /\ avenant' = [avenant EXCEPT ![a].statut = "annule"]
        /\ Aller(r, IF avenant[a].auteur # requete[r].partie
                    THEN "posterRefus" ELSE "fini")
  /\ UNCHANGED <<champs, messages, pannes, enVigueur>>

RefuserPoster(r) ==
  /\ requete[r].pc = "posterRefus"
  /\ messages' = [messages EXCEPT ![requete[r].id] = @ \cup {"refus"}]
  /\ Aller(r, "fini")
  /\ UNCHANGED <<avenant, champs, pannes, enVigueur>>

-----------------------------------------------------------------------------
\* A write whose error the handler only logs, or does not look at, is lost.
EcrituresPerdues(q) ==
  CASE q.pc = "annoncer" -> {"fini"}
    [] q.pc = "statut"   -> {IF q.double /\ avenant[q.id].cle \in Propageables
                             THEN "propager" ELSE "poster"}
    [] q.pc = "propager" -> {"poster"}
    [] q.pc = "poster"   -> {"fini"}
    [] q.pc = "annuler"  -> {IF avenant[q.id].auteur # q.partie
                             THEN "posterRefus" ELSE "fini"}
    [] q.pc = "posterRefus" -> {"fini"}
    [] OTHER -> {}

ErreurIgnoree(r) ==
  /\ pannes < MaxPannes
  /\ \E etape \in EcrituresPerdues(requete[r]) : Aller(r, etape)
  /\ pannes' = pannes + 1
  /\ UNCHANGED <<avenant, champs, messages, enVigueur>>

\* The function dies, or a checked call fails and the handler returns.
Interrompre(r) ==
  /\ pannes < MaxPannes
  /\ requete[r].pc \notin {"attente", "fini"}
  /\ Aller(r, "fini")
  /\ pannes' = pannes + 1
  /\ UNCHANGED <<avenant, champs, messages, enVigueur>>

Arrivee(r) ==
  \/ \E p \in Parties, c \in Cles : ProposerNumero(r, p, c)
  \/ \E p \in Parties, a \in Ids : SignerLire(r, p, a) \/ RefuserLire(r, p, a)

Traitement(r) ==
  \/ ProposerInserer(r) \/ ProposerAnnoncer(r)
  \/ SignerMarquer(r) \/ SignerStatut(r) \/ SignerPropager(r) \/ SignerPoster(r)
  \/ RefuserMarquer(r) \/ RefuserPoster(r)

Next == \E r \in Requetes : \/ Arrivee(r) \/ Traitement(r)
                            \/ ErreurIgnoree(r) \/ Interrompre(r)

Spec == Init /\ [][Next]_vars

-----------------------------------------------------------------------------
TypeOK ==
  /\ avenant \in [Ids -> [numero : Nat, cle : Cles, auteur : Parties,
                          statut : Statuts, signatures : SUBSET Parties]]
  /\ champs \in [Propageables -> Ids \cup {Aucun}]
  /\ messages \in [Ids -> SUBSET {"propose", "signe", "actif", "refus"}]
  /\ requete \in [Requetes -> [pc : Etapes, partie : Parties, id : Ids \cup {Aucun},
                               cle : Cles, numero : Nat, lu : Statuts, double : BOOLEAN]]
  /\ pannes \in 0..MaxPannes
  /\ enVigueur \subseteq Ids

Repos == \A r \in Requetes : requete[r].pc \in {"attente", "fini"}

\* However the proposals interleave, the amendments of the lease are numbered
\* 1, 2, 3... with no gap and no double: "Avenant N..." names one document.
NumerosConsecutifs ==
  /\ Numeros = 1..Dernier
  /\ \A a, b \in Ids : (Existe(a) /\ avenant[a].numero = avenant[b].numero) => a = b

\* However the two signatures interleave, with each other, with a second click
\* and with a refusal, an amendment both parties have signed has come into force
\* once the server is at rest, if nothing has failed.
AvenantJamaisOublie ==
  (pannes = 0 /\ Repos) =>
    \A a \in Ids : avenant[a].signatures = Parties => a \in enVigueur

\* The rent and the charges of the annonce are those of the lease or of an
\* amendment that changes them and that both parties have signed.
ChampsSignes ==
  \A c \in Propageables :
    champs[c] # Aucun => /\ avenant[champs[c]].signatures = Parties
                           /\ avenant[champs[c]].cle = c

\* With no failure and nobody at work, the column that an amendment shown as
\* "actif" changes has the value of some amendment, no longer that of the lease
\* (signer:172-187; of which one is left to the order of the requests).
ActifApplique ==
  (pannes = 0 /\ Repos) =>
    \A a \in Ids : (avenant[a].statut = "actif" /\ avenant[a].cle # "clause")
                     => champs[avenant[a].cle] # Aucun

\* Each amendment implements the two-party signature.
Accord(a) == INSTANCE DoubleSignature WITH
               signe <- avenant[a].signatures, actif <- (a \in enVigueur)
AccordSafe ==
  /\ \A a \in Ids : Accord(a)!DSInit
  /\ [][\A a \in Ids : [Accord(a)!DSNext]_<<avenant[a].signatures, a \in enVigueur>>]_vars
==============================================================================
