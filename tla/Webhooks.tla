------------------------------- MODULE Webhooks -------------------------------
(***************************************************************************)
(* Webhooks of the agencies: lib/agences/webhooks.ts, the job              *)
(* /api/cron/webhook-deliveries, the triggers of migrations 089 and 090    *)
(* and the settings route /api/agences/[id]/webhooks.                      *)
(*                                                                         *)
(* An event becomes one pending row of webhook_deliveries per active       *)
(* webhook.  A pass lists the due rows and delivers them in parallel, and  *)
(* nothing keeps a pass from starting before the former one has ended: a   *)
(* call that has timed out is tried again while the server may still be    *)
(* serving it.  No fairness is assumed: that a pass is started at all is   *)
(* up to a timer the repository only knows how to generate, and that a     *)
(* task ends is up to the endpoint.                                        *)
(*                                                                         *)
(* Left out: the events a webhook has subscribed to (all of them here) and *)
(* the dates: a pass takes any of the pending rows, those that are due.    *)
(* The statistics of a webhook never change: see the README.               *)
(***************************************************************************)
EXTENDS Naturals, FiniteSets

CONSTANTS
  Points,       \* the webhooks of one agency
  Evenements,   \* the events that happen
  Passes,       \* the passes of the job that may be running at once
  MaxEssais,    \* max_attempts, 3 in migration 088
  Lot,          \* rows listed by a pass, 20 in the route
  MaxReglages,  \* bound on the changes and deletions of webhooks
  MaxPannes     \* bound on killed passes and failed writes

ASSUME WebhooksHypotheses ==
  /\ MaxEssais \in Nat \ {0}
  /\ Lot \in Nat \ {0}
  /\ MaxReglages \in Nat
  /\ MaxPannes \in Nat

\* The row made for an event and a webhook.
Livraisons == Evenements \X Points

VARIABLES
  webhook,    \* rows of agence_webhooks
  emission,   \* per event: pc, and the webhooks found active
  livraison,  \* rows of webhook_deliveries: statut, essais (attempt)
  tache,      \* per pass and row, its processDelivery: pc, essais read, code
  pannes,     \* failures so far
  reglages,   \* changes of webhooks so far
  recues,     \* history: rows the endpoint has answered 2xx
  echecs,     \* history: POSTs of a row that have failed, up to MaxEssais; a
              \* permanent error counts for all
  redites,    \* history: rows sent again after a 2xx
  croisees,   \* history: rows a pass has read while another one held them
  coupes      \* history: webhooks that have been inactive or deleted

etat == <<webhook, emission, livraison, tache, pannes, reglages>>
histoire == <<recues, echecs, redites, croisees, coupes>>
vars == <<etat, histoire>>

Statuts == {"absente", "pending", "success", "failed", "abandoned"}
Codes == {"2xx", "passager", "permanent"}
EtapesTache == {"libre", "relire", "webhook", "poster", "ecrire", "abandonner"}
Libre == [pc |-> "libre", essais |-> 0, code |-> "passager"]

Init ==
  /\ webhook = [w \in Points |-> "absent"]
  /\ emission = [e \in Evenements |-> [pc |-> "attente", cibles |-> {}]]
  /\ livraison = [l \in Livraisons |-> [statut |-> "absente", essais |-> 0]]
  /\ tache = [p \in Passes |-> [l \in Livraisons |-> Libre]]
  /\ pannes = 0 /\ reglages = 0
  /\ echecs = [l \in Livraisons |-> 0]
  /\ recues = {} /\ redites = {} /\ croisees = {}
  /\ coupes = {}

Actifs == {w \in Points : webhook[w] = "actif"}
EnAttente == {l \in Livraisons : livraison[l].statut = "pending"}
Aller(p, l, etape) == tache' = [tache EXCEPT ![p][l].pc = etape]
Rendre(p, l) == tache' = [tache EXCEPT ![p][l] = Libre]

\* An update by id: no row, no change.
Clore(l, statut) ==
  livraison' = [livraison EXCEPT ![l].statut =
                  IF @ = "absente" THEN @ ELSE statut]

-----------------------------------------------------------------------------
(* Mutations, none of them part of the specification.                      *)

\* canRetry computed from newAttempt <= max_attempts.
PeutRetenterUnDeTrop(code, essai) == code = "passager" /\ essai <= MaxEssais

\* canRetry computed from newAttempt + 1 < max_attempts.
PeutRetenterUnDeMoins(code, essai) == code = "passager" /\ essai + 1 < MaxEssais

\* No look at the status of the row read again.
RelireSansStatut(p, l) ==
  /\ tache[p][l].pc = "relire"
  /\ tache' = [tache EXCEPT ![p][l] =
       [@ EXCEPT !.pc = "webhook", !.essais = livraison[l].essais]]
  /\ croisees' = IF \E q \in Passes \ {p} : tache[q][l].pc \notin {"libre", "relire"}
                 THEN croisees \cup {l} ELSE croisees
  /\ UNCHANGED <<webhook, emission, livraison, pannes, reglages,
                 recues, echecs, redites, coupes>>

\* attempt left out of the select: (delivery.attempt || 0) + 1 is always 1.
RelireSansEssais(p, l) ==
  /\ tache[p][l].pc = "relire"
  /\ tache' = [tache EXCEPT ![p][l] =
       IF livraison[l].statut = "pending" THEN [@ EXCEPT !.pc = "webhook"] ELSE Libre]
  /\ UNCHANGED <<webhook, emission, livraison, pannes, reglages, histoire>>

-----------------------------------------------------------------------------
(* The settings: POST, PATCH and DELETE of the route.                      *)

Creer(w) ==
  /\ webhook[w] = "absent"
  /\ webhook' = [webhook EXCEPT ![w] = "actif"]
  /\ UNCHANGED <<emission, livraison, tache, pannes, reglages, histoire>>

Basculer(w) ==
  /\ webhook[w] \in {"actif", "inactif"}
  /\ reglages < MaxReglages
  /\ reglages' = reglages + 1
  /\ webhook' = [webhook EXCEPT ![w] = IF @ = "actif" THEN "inactif" ELSE "actif"]
  /\ coupes' = coupes \cup {w}
  /\ UNCHANGED <<emission, livraison, tache, pannes, recues, echecs, redites,
                 croisees>>

\* ON DELETE CASCADE takes the rows of webhook_deliveries along.
Supprimer(w) ==
  /\ webhook[w] \in {"actif", "inactif"}
  /\ reglages < MaxReglages
  /\ reglages' = reglages + 1
  /\ webhook' = [webhook EXCEPT ![w] = "supprime"]
  /\ livraison' = [l \in Livraisons |->
       IF l[2] = w THEN [statut |-> "absente", essais |-> 0] ELSE livraison[l]]
  /\ coupes' = coupes \cup {w}
  /\ UNCHANGED <<emission, tache, pannes, recues, echecs, redites, croisees>>

-----------------------------------------------------------------------------
(* The events.                                                             *)

Emis == [pc |-> "fini", cibles |-> {}]

Ajouter(e, cibles) ==
  livraison' = [l \in Livraisons |->
    IF l[1] = e /\ l[2] \in cibles THEN [statut |-> "pending", essais |-> 0]
    ELSE livraison[l]]

\* A trigger: webhook_enqueue_event runs in the transaction of the event.
Declencher(e) ==
  /\ emission[e].pc = "attente"
  /\ Ajouter(e, Actifs)
  /\ emission' = [emission EXCEPT ![e] = Emis]
  /\ UNCHANGED <<webhook, tache, pannes, reglages, histoire>>

\* enqueueWebhook, called by a route: the webhooks are read first...
Enfiler(e) ==
  /\ emission[e].pc = "attente"
  /\ emission' = [emission EXCEPT ![e] =
       IF Actifs = {} THEN Emis ELSE [pc |-> "inserer", cibles |-> Actifs]]
  /\ UNCHANGED <<webhook, livraison, tache, pannes, reglages, histoire>>

\* ... then one insert for all: a webhook deleted in between trips the foreign
\* key and no row is inserted.
EnfilerInserer(e) ==
  /\ emission[e].pc = "inserer"
  /\ emission' = [emission EXCEPT ![e] = Emis]
  /\ IF \E w \in emission[e].cibles : webhook[w] = "supprime"
     THEN UNCHANGED livraison
     ELSE Ajouter(e, emission[e].cibles)
  /\ UNCHANGED <<webhook, tache, pannes, reglages, histoire>>

-----------------------------------------------------------------------------
(* The job.                                                                *)

\* processDeliveriesBatch lists the due rows.
PasseLister(p) ==
  /\ \A l \in Livraisons : tache[p][l].pc = "libre"
  /\ \E dues \in SUBSET EnAttente :
       /\ dues # {} /\ Cardinality(dues) <= Lot
       /\ tache' = [tache EXCEPT ![p] =
            [l \in Livraisons |->
               IF l \in dues THEN [Libre EXCEPT !.pc = "relire"] ELSE Libre]]
  /\ UNCHANGED <<webhook, emission, livraison, pannes, reglages, histoire>>

Relire(p, l) ==
  /\ tache[p][l].pc = "relire"
  /\ \/ /\ livraison[l].statut # "pending"
        /\ Rendre(p, l)
        /\ UNCHANGED croisees
     \/ /\ livraison[l].statut = "pending"
        /\ tache' = [tache EXCEPT ![p][l] =
             [@ EXCEPT !.pc = "webhook", !.essais = livraison[l].essais]]
        /\ croisees' = IF \E q \in Passes \ {p} : tache[q][l].pc \notin {"libre", "relire"}
                       THEN croisees \cup {l} ELSE croisees
  /\ UNCHANGED <<webhook, emission, livraison, pannes, reglages,
                 recues, echecs, redites, coupes>>

LireWebhook(p, l) ==
  /\ tache[p][l].pc = "webhook"
  /\ Aller(p, l, IF webhook[l[2]] = "actif" THEN "poster" ELSE "abandonner")
  /\ UNCHANGED <<webhook, emission, livraison, pannes, reglages, histoire>>

Abandonner(p, l) ==
  /\ tache[p][l].pc = "abandonner"
  /\ Clore(l, "abandoned")
  /\ Rendre(p, l)
  /\ UNCHANGED <<webhook, emission, pannes, reglages, histoire>>

\* The endpoint sends its headers, or does not within 10 seconds ("passager", as
\* are the statuses 408, 429 and 5xx).  The timer is off before the body is
\* read: an endpoint that never ends its body keeps the task at "ecrire" until
\* the pass is killed (Interrompre), and the row is listed again unchanged.
Poster(p, l) ==
  /\ tache[p][l].pc = "poster"
  /\ \E code \in Codes :
       /\ tache' = [tache EXCEPT ![p][l] = [@ EXCEPT !.pc = "ecrire", !.code = code]]
       /\ recues' = IF code = "2xx" THEN recues \cup {l} ELSE recues
       /\ echecs' = [echecs EXCEPT ![l] =
            CASE code = "2xx" -> @
              [] code = "permanent" -> MaxEssais
              [] OTHER -> IF @ < MaxEssais THEN @ + 1 ELSE @]
  /\ redites' = IF l \in recues THEN redites \cup {l} ELSE redites
  /\ UNCHANGED <<webhook, emission, livraison, pannes, reglages,
                 croisees, coupes>>

PeutRetenter(code, essai) == code = "passager" /\ essai < MaxEssais

\* The update is by id alone: it takes no account of what another pass has
\* written since this one read the row.
Ecrire(p, l) ==
  /\ tache[p][l].pc = "ecrire"
  /\ LET code == tache[p][l].code
         essai == tache[p][l].essais + 1
         statut == IF code = "2xx" THEN "success"
                   ELSE IF PeutRetenter(code, essai) THEN "pending" ELSE "failed"
     IN livraison' = [livraison EXCEPT ![l] =
          IF @.statut = "absente" THEN @ ELSE [statut |-> statut, essais |-> essai]]
  /\ Rendre(p, l)
  /\ UNCHANGED <<webhook, emission, pannes, reglages, histoire>>

-----------------------------------------------------------------------------
(* Failures: a pass is killed (maxDuration, restart of the server), a call *)
(* whose error nobody reads fails.                                         *)

Interrompre(p) ==
  /\ pannes < MaxPannes
  /\ \E l \in Livraisons : tache[p][l].pc # "libre"
  /\ tache' = [tache EXCEPT ![p] = [l \in Livraisons |-> Libre]]
  /\ pannes' = pannes + 1
  /\ UNCHANGED <<webhook, emission, livraison, reglages, histoire>>

\* A read that fails is a webhook "disabled or deleted".
LectureVide(p, l) ==
  /\ pannes < MaxPannes
  /\ tache[p][l].pc = "webhook"
  /\ Aller(p, l, "abandonner")
  /\ pannes' = pannes + 1
  /\ UNCHANGED <<webhook, emission, livraison, reglages, histoire>>

AppelPerdu(p, l) ==
  /\ pannes < MaxPannes
  /\ tache[p][l].pc \in {"relire", "ecrire", "abandonner"}
  /\ Rendre(p, l)
  /\ pannes' = pannes + 1
  /\ UNCHANGED <<webhook, emission, livraison, reglages, histoire>>

EnfilerPerdu(e) ==
  /\ pannes < MaxPannes
  /\ emission[e].pc \in {"attente", "inserer"}
  /\ emission' = [emission EXCEPT ![e] = Emis]
  /\ pannes' = pannes + 1
  /\ UNCHANGED <<webhook, livraison, tache, reglages, histoire>>

-----------------------------------------------------------------------------
Etape(p, l) == \/ Relire(p, l) \/ LireWebhook(p, l) \/ Abandonner(p, l)
               \/ Poster(p, l) \/ Ecrire(p, l)

Next ==
  \/ \E w \in Points : Creer(w) \/ Basculer(w) \/ Supprimer(w)
  \/ \E e \in Evenements : Declencher(e) \/ Enfiler(e) \/ EnfilerInserer(e) \/ EnfilerPerdu(e)
  \/ \E p \in Passes : PasseLister(p) \/ Interrompre(p)
  \/ \E p \in Passes, l \in Livraisons : Etape(p, l) \/ LectureVide(p, l) \/ AppelPerdu(p, l)

Spec == Init /\ [][Next]_vars

-----------------------------------------------------------------------------
(* Properties.                                                             *)

\* Types; a row is pending only while an attempt is left.
TypeOK ==
  /\ webhook \in [Points -> {"absent", "actif", "inactif", "supprime"}]
  /\ emission \in [Evenements -> [pc : {"attente", "inserer", "fini"}, cibles : SUBSET Points]]
  /\ livraison \in [Livraisons -> [statut : Statuts, essais : 0..MaxEssais]]
  /\ \A l \in EnAttente : livraison[l].essais < MaxEssais
  /\ tache \in [Passes -> [Livraisons ->
       [pc : EtapesTache, essais : 0..(MaxEssais - 1), code : Codes]]]
  /\ pannes \in 0..MaxPannes
  /\ reglages \in 0..MaxReglages
  /\ echecs \in [Livraisons -> 0..MaxEssais]
  /\ recues \subseteq Livraisons
  /\ redites \subseteq Livraisons /\ croisees \subseteq Livraisons
  /\ coupes \subseteq Points

\* Whatever passes overlap, die or write late, a row is closed for a reason:
\* "success" when the endpoint has answered 2xx, "failed" when it has refused
\* for good or max_attempts POSTs have really failed, "abandoned" when the
\* webhook has been switched off or could not be read (processDelivery).
ClotureMeritee ==
  \A l \in Livraisons :
    /\ livraison[l].statut = "success" => l \in recues
    /\ livraison[l].statut = "failed" => echecs[l] = MaxEssais
    /\ livraison[l].statut = "abandoned" => l[2] \in coupes \/ pannes > 0

\* With no failure, a row answered 2xx is never sent again, unless a pass has
\* read it while another one was still delivering it: the second look at the
\* status in processDelivery closes the window between list and delivery.
RediteParChevauchement == pannes = 0 => redites \subseteq croisees

\* With no failure, the retries of a row end: none is sent after max_attempts
\* failed POSTs or a refusal for good, whatever passes list it meanwhile and
\* whatever becomes of its webhook, unless two of them have delivered it at once
\* (newAttempt < delivery.max_attempts, counted on the row read again).
EssaisBornes ==
  pannes = 0 => \A p \in Passes, l \in Livraisons :
    tache[p][l].pc = "poster" /\ l \notin croisees => echecs[l] < MaxEssais
==============================================================================
