-------------------------------- MODULE Loyers --------------------------------
(***************************************************************************)
(* Which months of an annonce have a rent: the schedule that bail/signer   *)
(* writes when the lease becomes active, the past months that              *)
(* bail/accepter fills in for an imported one, the monthly job, the        *)
(* tenant's declaration and the owner's entry (/api/loyers/save).          *)
(*                                                                         *)
(* Nothing in the database makes (annonce_id, mois) unique: all but the    *)
(* owner's entry look for a row and then insert, and take a read that has  *)
(* failed for one that found nothing.  No row is ever deleted while the    *)
(* annonce lives, not even those a schedule wrote ahead for a tenant who   *)
(* has left, so what counts is how many rows each month has; amounts,      *)
(* confirmations and receipts change a row and not the months.             *)
(***************************************************************************)
EXTENDS Naturals

CONSTANTS
  Requetes,  \* the requests of the pages
  Duree,     \* months the schedule covers (NB_MOIS, 12 in the code)
  MaxMois,   \* bound on the months observed
  MaxAvance, \* bound on how far ahead a lease begins or a rent is entered
  MaxEchecs  \* bound on killed functions and failed calls

ASSUME LoyersHypotheses ==
  /\ Duree \in Nat \ {0} /\ MaxAvance \in Nat
  /\ MaxMois \in Nat \ {0} /\ MaxEchecs \in Nat

\* Month 0 stands for those before the observation begins.
Mois == 0..MaxMois + MaxAvance + Duree - 1
Etapes == {"attente", "declarer", "fini"}

VARIABLES
  mois,        \* the current month
  bail,        \* "aucun", "signe" on the platform or "importe"
  debut,       \* first month of the lease (date_debut_bail)
  lignes,      \* per month, the number of its rows in loyers
  echeancier,  \* the rents that come with the lease: pc, months to insert
  job,         \* the monthly job is between its read and its insert
  requete,     \* the requests being served: pc, mois to declare
  echecs,      \* failures so far
  saisi,       \* history: the owner has entered a row by hand
  croise,      \* history: two of lease, job and declarations were between
               \* their read and their insert at once
  aveugle,     \* history: a failed read has been taken for an absence of rows
  avance,      \* history: there was a rent ahead of its month when the lease
               \* was let, or one has been entered or declared since
  vu           \* history: the job of this month has run to its end, or is
               \* about to, with the lease let

passe == <<saisi, croise, aveugle, avance, vu>>
varsLoyers == <<mois, bail, debut, lignes, echeancier, job, requete, echecs, passe>>

Depart == [pc |-> "attente", mois |-> 0]

\* The former tenants' rows stay, months to come included: a schedule is
\* written for Duree months and neither relouer nor terminer-bail deletes any.
InitLoyers ==
  /\ mois = 1 /\ bail = "aucun" /\ debut = 0
  /\ \E n \in 0..MaxAvance + Duree + 1 : lignes = [m \in Mois |-> IF m < n THEN 1 ELSE 0]
  /\ echeancier = [pc |-> "attente", mois |-> {}]
  /\ job = FALSE
  /\ requete = [r \in Requetes |-> Depart]
  /\ echecs = 0
  /\ saisi = FALSE /\ croise = FALSE /\ aveugle = FALSE
  /\ avance = FALSE /\ vu = FALSE

AUneLigne(m) == lignes[m] > 0
Inserer(S) == lignes' = [m \in Mois |-> IF m \in S THEN lignes[m] + 1 ELSE lignes[m]]

\* Those between their read and their insert: job, lease, declarations.
EnVol == (IF job THEN {"job"} ELSE {})
           \cup (IF echeancier.pc = "inserer" THEN {"bail"} ELSE {})
           \cup {r \in Requetes : requete[r].pc = "declarer"}
NoterCroisement == croise' = (croise \/ EnVol # {})

\* The months of the schedule, and an insert to come.
Douzaine == debut..(debut + Duree - 1)
Prevoir(S) == /\ echeancier' = [pc |-> "inserer", mois |-> S]
              /\ NoterCroisement
NePasInserer == echeancier' = [pc |-> "fini", mois |-> {}]
Declarer(r, m) ==
  /\ requete' = [requete EXCEPT ![r] = [pc |-> "declarer", mois |-> m]]
  /\ NoterCroisement
Finir(r) == requete' = [requete EXCEPT ![r].pc = "fini"]

-----------------------------------------------------------------------------
(* Mutations, none of them part of the specification.                      *)

\* Before the check on the first month of the new lease: any rent of the
\* annonce, the previous tenant's included, stopped the schedule.
EcheancierLireTout ==
  /\ echeancier.pc = "lire"
  /\ IF \E m \in Mois : AUneLigne(m) THEN NePasInserer /\ UNCHANGED croise
                                     ELSE Prevoir(Douzaine)
  /\ UNCHANGED <<mois, bail, debut, lignes, job, requete, echecs,
                 saisi, aveugle, avance, vu>>

\* getMonth() + i + 1: the schedule one month late.
EcheancierLireDecale ==
  /\ echeancier.pc = "lire"
  /\ IF \E m \in Mois : m >= debut /\ AUneLigne(m)
     THEN NePasInserer /\ UNCHANGED croise
     ELSE Prevoir({m + 1 : m \in Douzaine})
  /\ UNCHANGED <<mois, bail, debut, lignes, job, requete, echecs,
                 saisi, aveugle, avance, vu>>

\* Before V62: no look at what is already declared.
DeclarerLireSansControle(r) ==
  /\ requete[r].pc = "attente"
  /\ \E m \in 1..mois + MaxAvance : Declarer(r, m)
  /\ UNCHANGED <<mois, bail, debut, lignes, echeancier, job, echecs,
                 saisi, aveugle, avance, vu>>

-----------------------------------------------------------------------------
(* The lease, and the rents that come with it.                             *)

EnAvance == \E m \in Mois : m > mois /\ AUneLigne(m)

\* bail/signer, on the double signature; the first month is the one agreed
\* on, past or to come.
Louer ==
  /\ bail = "aucun"
  /\ bail' = "signe"
  /\ debut' \in 0..mois + MaxAvance
  /\ avance' = EnAvance
  /\ echeancier' = [pc |-> "lire", mois |-> {}]
  /\ UNCHANGED <<mois, lignes, job, requete, echecs, saisi, croise, aveugle, vu>>

EcheancierLire ==
  /\ echeancier.pc = "lire"
  /\ \/ /\ \E m \in Mois : m >= debut /\ AUneLigne(m)
        /\ NePasInserer
        /\ UNCHANGED croise
     \/ /\ \A m \in Mois : m >= debut => ~AUneLigne(m)
        /\ Prevoir(Douzaine)
  /\ UNCHANGED <<mois, bail, debut, lignes, job, requete, echecs,
                 saisi, aveugle, avance, vu>>

\* bail/accepter; for a tenant already in place and up to date (deja_installe,
\* loyers_passes_payes), the months since date_entree_reelle are filled in.
Accepter ==
  /\ bail = "aucun"
  /\ bail' = "importe"
  /\ debut' \in 0..mois + MaxAvance
  /\ avance' = EnAvance
  /\ \/ NePasInserer
     \/ \E entree \in 0..mois : echeancier' = [pc |-> "rattraper", mois |-> entree..mois]
  /\ UNCHANGED <<mois, lignes, job, requete, echecs, saisi, croise, aveugle, vu>>

RattraperLire ==
  /\ echeancier.pc = "rattraper"
  /\ LET manquants == {m \in echeancier.mois : ~AUneLigne(m)} IN
       \/ manquants = {} /\ NePasInserer /\ UNCHANGED croise
       \/ manquants # {} /\ Prevoir(manquants)
  /\ UNCHANGED <<mois, bail, debut, lignes, job, requete, echecs,
                 saisi, aveugle, avance, vu>>

\* One insert for all the rows, in both routes.
EcheancierInserer ==
  /\ echeancier.pc = "inserer"
  /\ Inserer(echeancier.mois)
  /\ NePasInserer
  /\ UNCHANGED <<mois, bail, debut, job, requete, echecs, passe>>

-----------------------------------------------------------------------------
(* GET /api/cron/loyers-mensuels-create.                                   *)

\* The job of a month is over before the next month begins.
MoisSuivant ==
  /\ mois < MaxMois
  /\ ~job
  /\ mois' = mois + 1
  /\ vu' = FALSE
  /\ UNCHANGED <<bail, debut, lignes, echeancier, job, requete, echecs,
                 saisi, croise, aveugle, avance>>

Commence == bail # "aucun" /\ debut <= mois

\* Due on the 1st; it may run again, or not at all.
JobLire ==
  /\ ~job
  /\ LET du == Commence /\ ~AUneLigne(mois) IN
       /\ job' = du
       /\ IF du THEN NoterCroisement ELSE UNCHANGED croise
  /\ vu' = (bail # "aucun")
  /\ UNCHANGED <<mois, bail, debut, lignes, echeancier, requete, echecs,
                 saisi, aveugle, avance>>

JobInserer ==
  /\ job
  /\ Inserer({mois})
  /\ job' = FALSE
  /\ UNCHANGED <<mois, bail, debut, echeancier, requete, echecs, passe>>

-----------------------------------------------------------------------------
(* POST /api/loyers/save.                                                  *)

\* mode "declare", by the tenant (attached to the annonce when the lease is
\* sent, before it is signed) or by the page of a tenant on auto-payment, for
\* the month the page shows; the route takes any month.
DeclarerLire(r) ==
  /\ requete[r].pc = "attente"
  /\ \E m \in 1..mois + MaxAvance : ~AUneLigne(m) /\ Declarer(r, m)
  /\ UNCHANGED <<mois, bail, debut, lignes, echeancier, job, echecs,
                 saisi, aveugle, avance, vu>>

DeclarerInserer(r) ==
  /\ requete[r].pc = "declarer"
  /\ Inserer({requete[r].mois})
  /\ avance' = (avance \/ requete[r].mois > mois)
  /\ Finir(r)
  /\ UNCHANGED <<mois, bail, debut, echeancier, job, echecs,
                 saisi, croise, aveugle, vu>>

\* mode "upsert" without an id, the only use of it: the owner's entry.
Saisir(r) ==
  /\ requete[r].pc = "attente"
  /\ \E m \in 1..mois + MaxAvance : Inserer({m}) /\ avance' = (avance \/ m > mois)
  /\ saisi' = TRUE
  /\ Finir(r)
  /\ UNCHANGED <<mois, bail, debut, echeancier, job, echecs, croise, aveugle, vu>>

-----------------------------------------------------------------------------
(* Failures.                                                               *)

Echouer == echecs < MaxEchecs /\ echecs' = echecs + 1

\* A function is killed or an insert fails; only the job may be tried again.
InterrompreRequete(r) ==
  /\ requete[r].pc = "declarer"
  /\ Echouer
  /\ Finir(r)
  /\ UNCHANGED <<mois, bail, debut, lignes, echeancier, job, passe>>

InterrompreEcheancier ==
  /\ echeancier.pc \in {"lire", "rattraper", "inserer"}
  /\ Echouer
  /\ NePasInserer
  /\ UNCHANGED <<mois, bail, debut, lignes, job, requete, passe>>

InterrompreJob ==
  /\ job
  /\ Echouer
  /\ job' = FALSE
  /\ vu' = FALSE
  /\ UNCHANGED <<mois, bail, debut, lignes, echeancier, requete,
                 saisi, croise, aveugle, avance>>

\* A read fails, its error is not looked at, and the rows are inserted as if
\* there were none: the declaration, the schedule or backfill, the job.
DeclarerAveugle(r) ==
  /\ requete[r].pc = "attente"
  /\ Echouer /\ aveugle' = TRUE
  /\ \E m \in 1..mois + MaxAvance : Declarer(r, m)
  /\ UNCHANGED <<mois, bail, debut, lignes, echeancier, job, saisi, avance, vu>>

EcheancierAveugle ==
  /\ Echouer /\ aveugle' = TRUE
  /\ \/ echeancier.pc = "lire" /\ Prevoir(Douzaine)
     \/ echeancier.pc = "rattraper" /\ Prevoir(echeancier.mois)
  /\ UNCHANGED <<mois, bail, debut, lignes, job, requete, saisi, avance, vu>>

JobAveugle ==
  /\ ~job /\ Commence
  /\ Echouer /\ aveugle' = TRUE
  /\ job' = TRUE
  /\ NoterCroisement
  /\ vu' = TRUE
  /\ UNCHANGED <<mois, bail, debut, lignes, echeancier, requete, saisi, avance>>

NextLoyers ==
  \/ Louer \/ EcheancierLire \/ Accepter \/ RattraperLire \/ EcheancierInserer
  \/ MoisSuivant \/ JobLire \/ JobInserer
  \/ \E r \in Requetes :
       \/ DeclarerLire(r) \/ DeclarerInserer(r) \/ Saisir(r)
       \/ InterrompreRequete(r) \/ DeclarerAveugle(r)
  \/ InterrompreEcheancier \/ InterrompreJob \/ EcheancierAveugle \/ JobAveugle

SpecLoyers == InitLoyers /\ [][NextLoyers]_varsLoyers

-----------------------------------------------------------------------------
(* Properties.                                                             *)

\* Types; no row is for a month further than the schedule or an entry reaches.
TypeLoyers ==
  /\ mois \in 1..MaxMois
  /\ bail \in {"aucun", "signe", "importe"}
  /\ debut \in 0..MaxMois + MaxAvance
  /\ lignes \in [Mois -> Nat]
  /\ echeancier \in [pc : {"attente", "lire", "rattraper", "inserer", "fini"},
                     mois : SUBSET Mois]
  /\ job \in BOOLEAN
  /\ requete \in [Requetes -> [pc : Etapes, mois : 0..MaxMois + MaxAvance]]
  /\ echecs \in 0..MaxEchecs
  /\ saisi \in BOOLEAN /\ croise \in BOOLEAN /\ aveugle \in BOOLEAN
  /\ avance \in BOOLEAN /\ vu \in BOOLEAN

\* loyers/save V62, bail/signer, bail/accepter and the job: whatever functions
\* die, a month has one rent, whoever wrote it first, as long as the owner
\* enters none, no two inserts cross and no read fails unseen.
UnLoyerParMois ==
  ~croise /\ ~saisi /\ ~aveugle => \A m \in Mois : lignes[m] <= 1

\* The current month of a lease that has begun has its rent: once the job of
\* the month has run with the lease let, whatever else fails or comes first;
\* and before that in the first month of a lease signed here, once its schedule
\* is over, with no failure and no rent ahead of its month to stop it.
MoisCouvert ==
  /\ Commence
  /\ \/ vu /\ ~job
     \/ debut = mois /\ bail = "signe" /\ echeancier.pc = "fini" /\ ~avance /\ echecs = 0
  => AUneLigne(mois)
==============================================================================
