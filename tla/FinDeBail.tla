------------------------------- MODULE FinDeBail -------------------------------
(***************************************************************************)
(* The end of a lease and the next one on the same annonce.                *)
(*                                                                         *)
(* Notice (bail/preavis), termination (annonces/terminer-bail), the exit   *)
(* inspection, the return of the deposit (baux/restitution-depot), the     *)
(* archival that puts the property back on the market (baux/relouer), and  *)
(* the daily job that looks for deposits never returned.  The lease is not *)
(* a row of its own: its state is spread over columns of the annonce that  *)
(* the handlers read first and write blindly later.  bail/annuler is left  *)
(* out: its one write to the annonce sets a statut that the CHECK of       *)
(* migration 021 refuses.                                                  *)
(*                                                                         *)
(* One annonce is modelled, with a deposit (caution > 0); each lease has   *)
(* another tenant, so that a tenant stands for the lease.  A session has   *)
(* one request at a time, the buttons of the pages being disabled while it *)
(* runs; how a lease is signed is in BailSignature and BailInvitation.     *)
(***************************************************************************)
EXTENDS Naturals, Sequences

CONSTANTS
  Locataires,  \* the successive tenants, a bound on the leases
  Personne,    \* no e-mail
  Bailleurs,   \* the owner's sessions
  Occupants,   \* the tenant's sessions
  Taches,      \* runs of the daily job
  MaxPannes    \* bound on killed functions and failed calls

ASSUME FinDeBailHypotheses == Personne \notin Locataires /\ MaxPannes \in Nat

Parties  == {"locataire", "bailleur"}
Sessions == Bailleurs \cup Occupants
Requetes == Sessions \cup Taches

VARIABLES
  annonce,    \* statut, locataire, signe (bail_signe_*_at that are set),
              \* preavis (preavis_donne_par), termine (age of bail_termine_at),
              \* ancien (locataire_email_at_end), depot (depot_restitue_at is
              \* set), averti (notified_depot_retard_at is set)
  roles,      \* roles found in bail_signatures, which nothing ever deletes
  edls,       \* types of the inspections that are "valide"
  historique, \* rows of historique_baux: the tenant, and whether
              \* bail_termine_at is less than 24 hours old
  anciens,    \* entries of profils.anciens_logements about the annonce
  requete,    \* the requests being served
  pannes,     \* failures so far
  rendus,     \* history: tenants whose deposit was recorded as returned
  envois      \* history: late deposit mails: to whom, and whether the deposit
              \* had been returned when the job read the annonce

vars == <<annonce, roles, edls, historique, anciens, requete, pannes, rendus, envois>>
autres == <<roles, edls, pannes, rendus, envois>>

Etapes == {"attente", "relouerEdl", "relouerDeja", "relouerArchiver",
           "relouerRemettre", "relouerAnciens", "terminer", "terminerAnciens",
           "ecrireAnciens", "depot", "preavis", "preavisAnnuler", "envoyer",
           "marquer"}
Ages == {"non", "recent", "jour", "mois"}

\* What the handlers keep of what they read: the tenant, whether the archive will
\* be recent, the length of the tenant's list; and, for the job, whether it
\* is writing to a tenant already reimbursed.
SansRequete == [pc |-> "attente", locataire |-> Personne, recent |-> FALSE,
                lu |-> 0, rendu |-> FALSE]

Init ==
  /\ annonce = [statut |-> "disponible", locataire |-> Personne, signe |-> {},
                preavis |-> "non", termine |-> "non", ancien |-> Personne,
                depot |-> FALSE, averti |-> FALSE]
  /\ roles = {}
  /\ edls = {}
  /\ historique = <<>>
  /\ anciens = [l \in Locataires |-> 0]
  /\ requete = [r \in Requetes |-> SansRequete]
  /\ pannes = 0
  /\ rendus = {}
  /\ envois = {}

Aller(r, etape) == requete' = [requete EXCEPT ![r].pc = etape]
Finir(r) == requete' = [requete EXCEPT ![r] = SansRequete]
Loue == annonce.locataire # Personne
Repos == \A r \in Requetes : requete[r].pc = "attente"
Archives(l) == {i \in DOMAIN historique : historique[i].locataire = l}

\* Which party a session is.
Qui(r) == IF r \in Bailleurs THEN "proprietaire" ELSE "locataire"

\* A request that has read the annonce: the tenant, and for relouer the date.
Lire(r, etape) ==
  /\ requete[r].pc = "attente"
  /\ requete' = [requete EXCEPT ![r] =
       [SansRequete EXCEPT !.pc = etape, !.locataire = annonce.locataire,
          !.recent = etape = "relouerEdl" /\ annonce.termine \in {"non", "recent"}]]
  /\ UNCHANGED <<annonce, historique, anciens, autres>>

-----------------------------------------------------------------------------
(* Mutations, none of them part of the specification.                      *)

\* Before V68 #4: no look at the deposit.
RelouerLireSansDepot(r) == Loue /\ Lire(r, "relouerEdl")

\* An archive of any age, or none, taken for the sign that all is done.
RelouerDejaRemet(r) ==
  /\ requete[r].pc = "relouerDeja"
  /\ Aller(r, "relouerRemettre")
  /\ UNCHANGED <<annonce, historique, anciens, autres>>

\* The tenant left in place by the reset.
RelouerRemettreSansLocataire(r) ==
  /\ requete[r].pc = "relouerRemettre"
  /\ annonce' = [annonce EXCEPT !.statut = "disponible", !.signe = {},
       !.preavis = "non", !.termine = "recent", !.ancien = requete[r].locataire,
       !.depot = FALSE]
  /\ Aller(r, "relouerAnciens")
  /\ UNCHANGED <<historique, anciens, autres>>

\* The job writes to the tenant even when there is none.
RelanceLireSansDestinataire(r) ==
  /\ requete[r].pc = "attente"
  /\ annonce.termine = "mois" /\ ~annonce.depot /\ ~annonce.averti
  /\ requete' = [requete EXCEPT ![r] =
       [SansRequete EXCEPT !.pc = "envoyer", !.locataire = annonce.locataire]]
  /\ UNCHANGED <<annonce, historique, anciens, autres>>

-----------------------------------------------------------------------------
(* How a lease begins.                                                     *)

\* "Louer a ce candidat" (messages page); the bail page, which sends nothing
\* once a tenant's signature is found, whoever that tenant was; or an
\* invitation accepted, which stands for both signatures.
NouveauBail(l) ==
  /\ ~Loue /\ Archives(l) = {} /\ annonce.ancien # l
  /\ \A b \in Bailleurs : requete[b].pc = "attente"
  /\ \/ annonce' = [annonce EXCEPT !.statut = "loue", !.locataire = l]
     \/ /\ "locataire" \notin roles
        /\ annonce' = [annonce EXCEPT !.statut = "bail_envoye", !.locataire = l]
     \/ annonce' = [annonce EXCEPT !.locataire = l, !.signe = Parties]
  /\ UNCHANGED <<historique, anciens, requete, autres>>

\* bail/signer: the double signature is looked for among all the rows.
Signer(p) ==
  /\ Loue
  /\ roles' = roles \cup {p}
  /\ annonce' = [annonce EXCEPT !.signe = @ \cup {p},
                                !.statut = IF Parties \subseteq roles' THEN "loue" ELSE @]
  /\ UNCHANGED <<edls, historique, anciens, requete, pannes, rendus, envois>>

\* An inspection the tenant signs is "valide"; edl/save refuses to open the exit
\* one of an annonce without a valid entry one.
ValiderEdl(type) ==
  /\ Loue
  /\ type = "sortie" => "entree" \in edls
  /\ edls' = edls \cup {type}
  /\ UNCHANGED <<annonce, roles, historique, anciens, requete, pannes,
                 rendus, envois>>

-----------------------------------------------------------------------------
(* POST /api/bail/preavis and /api/bail/preavis/annuler.                   *)

PreavisLire(r) ==
  /\ Loue /\ annonce.signe = Parties /\ annonce.preavis = "non"
  /\ Lire(r, "preavis")

PreavisEcrire(r) ==
  /\ requete[r].pc = "preavis"
  /\ annonce' = [annonce EXCEPT !.preavis = Qui(r)]
  /\ Finir(r)
  /\ UNCHANGED <<historique, anciens, autres>>

\* Only by its author; whether the notice has run out is left open.
PreavisAnnulerLire(r) ==
  /\ Loue /\ annonce.preavis = Qui(r)
  /\ Lire(r, "preavisAnnuler")

PreavisAnnulerEcrire(r) ==
  /\ requete[r].pc = "preavisAnnuler"
  /\ annonce' = [annonce EXCEPT !.preavis = "non"]
  /\ Finir(r)
  /\ UNCHANGED <<historique, anciens, autres>>

-----------------------------------------------------------------------------
(* POST /api/annonces/terminer-bail.                                       *)

TerminerLire(r) ==
  /\ ~(annonce.statut = "loue_termine" /\ annonce.termine # "non")
  /\ Lire(r, "terminer")

TerminerEcrire(r) ==
  /\ requete[r].pc = "terminer"
  /\ annonce' = [annonce EXCEPT !.statut = "loue_termine", !.termine = "recent",
                                !.ancien = requete[r].locataire]
  /\ Aller(r, IF requete[r].locataire = Personne THEN "attente" ELSE "terminerAnciens")
  /\ UNCHANGED <<historique, anciens, autres>>

\* The tenant's list is read, and left alone when the annonce is in it.
TerminerAnciens(r) ==
  /\ requete[r].pc = "terminerAnciens"
  /\ LET n == anciens[requete[r].locataire] IN
     requete' = [requete EXCEPT ![r] =
       [@ EXCEPT !.pc = IF n = 0 THEN "ecrireAnciens" ELSE "attente", !.lu = n]]
  /\ UNCHANGED <<annonce, historique, anciens, autres>>

\* The list read, with one more entry, replaces the column.
EcrireAnciens(r) ==
  /\ requete[r].pc = "ecrireAnciens"
  /\ anciens' = [anciens EXCEPT ![requete[r].locataire] = requete[r].lu + 1]
  /\ Finir(r)
  /\ UNCHANGED <<annonce, historique, autres>>

-----------------------------------------------------------------------------
(* POST /api/baux/restitution-depot.                                       *)

DepotLire(r) ==
  /\ Loue /\ ~annonce.depot
  /\ Lire(r, "depot")

DepotEcrire(r) ==
  /\ requete[r].pc = "depot"
  /\ annonce' = [annonce EXCEPT !.depot = TRUE]
  /\ rendus' = rendus \cup {requete[r].locataire}
  /\ Finir(r)
  /\ UNCHANGED <<roles, edls, historique, anciens, pannes, envois>>

-----------------------------------------------------------------------------
(* POST /api/baux/relouer.                                                 *)

\* V68 #4: refused while the deposit has not been returned.
RelouerLire(r) ==
  /\ Loue /\ annonce.depot
  /\ Lire(r, "relouerEdl")

\* V68 #5: refused without a valid exit inspection, of this lease or another.
RelouerEdl(r) ==
  /\ requete[r].pc = "relouerEdl"
  /\ Aller(r, IF "sortie" \in edls THEN "relouerDeja" ELSE "attente")
  /\ UNCHANGED <<annonce, historique, anciens, autres>>

\* An archive of the tenant less than 24 hours old answers for this request.
RelouerDeja(r) ==
  /\ requete[r].pc = "relouerDeja"
  /\ Aller(r, IF \E i \in Archives(requete[r].locataire) : historique[i].recent
              THEN "attente" ELSE "relouerArchiver")
  /\ UNCHANGED <<annonce, historique, anciens, autres>>

\* The archive is dated bail_termine_at, or now when there is none.
RelouerArchiver(r) ==
  /\ requete[r].pc = "relouerArchiver"
  /\ historique' = Append(historique,
       [locataire |-> requete[r].locataire, recent |-> requete[r].recent])
  /\ Aller(r, "relouerRemettre")
  /\ UNCHANGED <<annonce, anciens, autres>>

\* Everything but the date of the end and the jobs' anti-spam columns.
RelouerRemettre(r) ==
  /\ requete[r].pc = "relouerRemettre"
  /\ annonce' = [annonce EXCEPT !.statut = "disponible", !.locataire = Personne,
       !.signe = {}, !.preavis = "non", !.termine = "recent",
       !.ancien = requete[r].locataire, !.depot = FALSE]
  /\ Aller(r, "relouerAnciens")
  /\ UNCHANGED <<historique, anciens, autres>>

\* The tenant's list is read; this handler does not look for the annonce in it.
RelouerAnciens(r) ==
  /\ requete[r].pc = "relouerAnciens"
  /\ requete' = [requete EXCEPT ![r] =
       [@ EXCEPT !.pc = "ecrireAnciens", !.lu = anciens[requete[r].locataire]]]
  /\ UNCHANGED <<annonce, historique, anciens, autres>>

-----------------------------------------------------------------------------
(* The depot-retard job.                                                   *)

\* An ended lease whose deposit has been due for two months, not yet notified:
\* the mail is for the annonce's tenant, or for its former one when it has none.
RelanceLire(r) ==
  /\ requete[r].pc = "attente"
  /\ annonce.termine = "mois" /\ ~annonce.depot /\ ~annonce.averti
  /\ LET dest == IF Loue THEN annonce.locataire ELSE annonce.ancien
     IN /\ dest # Personne
        /\ requete' = [requete EXCEPT ![r] = [SansRequete EXCEPT
             !.pc = "envoyer", !.locataire = dest, !.rendu = dest \in rendus]]
  /\ UNCHANGED <<annonce, historique, anciens, autres>>

RelanceEnvoyer(r) ==
  /\ requete[r].pc = "envoyer"
  /\ envois' = envois \cup {[dest |-> requete[r].locataire,
                             rendu |-> requete[r].rendu]}
  /\ Aller(r, "marquer")
  /\ UNCHANGED <<annonce, roles, edls, historique, anciens, pannes, rendus>>

RelanceMarquer(r) ==
  /\ requete[r].pc = "marquer"
  /\ annonce' = [annonce EXCEPT !.averti = TRUE]
  /\ Finir(r)
  /\ UNCHANGED <<historique, anciens, autres>>

-----------------------------------------------------------------------------
\* A day, or two months, go by; no request lasts that long.
Vieillir(age) ==
  LET vieux(d) == IF d \in {"non", "mois"} THEN d ELSE age IN
  /\ Repos
  /\ annonce' = [annonce EXCEPT !.termine = vieux(@)]
  /\ historique' = [i \in DOMAIN historique |-> [historique[i] EXCEPT !.recent = FALSE]]
  /\ UNCHANGED <<roles, edls, anciens, requete, pannes, rendus, envois>>

\* The function dies, or a call fails and the handler returns or goes no further.
Interrompre(r) ==
  /\ pannes < MaxPannes
  /\ requete[r].pc # "attente"
  /\ Finir(r)
  /\ pannes' = pannes + 1
  /\ UNCHANGED <<annonce, roles, edls, historique, anciens, rendus, envois>>

Arrivee(r) ==
  \/ /\ r \in Sessions
     /\ \/ PreavisLire(r) \/ PreavisAnnulerLire(r)
  \/ /\ r \in Bailleurs
     /\ \/ TerminerLire(r) \/ DepotLire(r) \/ RelouerLire(r)
  \/ /\ r \in Taches
     /\ RelanceLire(r)

Traitement(r) ==
  \/ PreavisEcrire(r) \/ PreavisAnnulerEcrire(r)
  \/ TerminerEcrire(r) \/ TerminerAnciens(r) \/ EcrireAnciens(r) \/ DepotEcrire(r)
  \/ RelouerEdl(r) \/ RelouerDeja(r) \/ RelouerArchiver(r) \/ RelouerRemettre(r)
  \/ RelouerAnciens(r) \/ RelanceEnvoyer(r) \/ RelanceMarquer(r)

Next ==
  \/ \E r \in Requetes : Arrivee(r) \/ Traitement(r) \/ Interrompre(r)
  \/ \E l \in Locataires : NouveauBail(l)
  \/ \E p \in Parties : Signer(p)
  \/ \E t \in {"entree", "sortie"} : ValiderEdl(t)
  \/ \E age \in {"jour", "mois"} : Vieillir(age)

Spec == Init /\ [][Next]_vars

-----------------------------------------------------------------------------
TypeOK ==
  /\ annonce \in [statut : {"disponible", "bail_envoye", "loue", "loue_termine"},
                  locataire : Locataires \cup {Personne}, signe : SUBSET Parties,
                  preavis : {"non", "locataire", "proprietaire"}, termine : Ages,
                  ancien : Locataires \cup {Personne}, depot : BOOLEAN,
                  averti : BOOLEAN]
  /\ roles \subseteq Parties
  /\ edls \subseteq {"entree", "sortie"}
  /\ historique \in Seq([locataire : Locataires, recent : BOOLEAN])
  /\ anciens \in [Locataires -> Nat]
  /\ requete \in [Requetes -> [pc : Etapes, locataire : Locataires \cup {Personne},
                               recent : BOOLEAN, lu : Nat, rendu : BOOLEAN]]
  /\ pannes \in 0..MaxPannes
  /\ rendus \subseteq Locataires
  /\ envois \subseteq [dest : Locataires, rendu : BOOLEAN]

\* The leases of the annonce follow one another as BauxSuccessifs says: V68 #4,
\* none is archived before the deposit of that very lease has been returned,
\* though depot_restitue_at is one column for all the leases and its reset may
\* die; none is cleared before it is archived, none comes back, and whatever
\* was returned was returned to the tenant in place.
Succession == INSTANCE BauxSuccessifs WITH
                occupant <- annonce.locataire,
                archives <- {historique[i].locataire : i \in DOMAIN historique}
SuccessionSafe == Succession!BSSafeSpec

\* No tenant is taken off the annonce without an archive of the lease, wherever
\* functions die and whatever the tenant and the jobs do meanwhile.
ArchiveAvantRemise ==
  [][annonce'.locataire = annonce.locataire
     \/ ~Loue \/ Archives(annonce.locataire) # {}]_vars

\* With no failure, an archived tenant is no longer the annonce's, and it
\* stands in that tenant's list of former homes.
ArchiveAboutit ==
  (pannes = 0 /\ Repos) =>
    \A i \in DOMAIN historique :
      LET l == historique[i].locataire IN annonce.locataire # l /\ anciens[l] > 0

-----------------------------------------------------------------------------
(* What comments of the code say of it, and TLC refutes.                   *)

\* depot-retard (15-19): it only takes leases whose deposit is not returned, an
\* annonce let again being captured only "si elles ont depot_restitue_at
\* toujours null".
RelanceFondee == \A e \in envois : ~e.rendu
==============================================================================
