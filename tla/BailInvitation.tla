---------------------------- MODULE BailInvitation ----------------------------
(***************************************************************************)
(* Invitations to a lease signed elsewhere.                                *)
(*                                                                         *)
(* The owner creates an invitation for a published annonce                 *)
(* (/api/bail/from-annonce) or together with a new one                     *)
(* (/api/bail/importer); its recipient answers with the token of the mail  *)
(* (/api/bail/accepter, /api/bail/refuser), an acceptance standing for the *)
(* double signature.  No transaction spans a handler's calls, and nothing  *)
(* keeps two answers to one token from being served at the same time.      *)
(*                                                                         *)
(* All the annonces belong to one owner.  The 14 days of an invitation are *)
(* the action Echoir: they may be over at any time.                        *)
(***************************************************************************)
EXTENDS Naturals, FiniteSets

CONSTANTS
  Locataires,  \* e-mails that may be invited
  Personne,    \* annonces.locataire_email IS NULL
  Annonces,    \* identifiers of annonces
  Publiees,    \* those already published, the others are for imports
  Tokens,      \* tokens that may be drawn, a bound on the invitations
  Requetes,    \* the requests that may arrive
  MaxPannes    \* bound on killed functions, failed and ignored calls

ASSUME InvitationHypotheses ==
  /\ Personne \notin Locataires
  /\ Publiees \subseteq Annonces
  /\ Annonces # {} /\ Locataires # {} /\ Tokens # {}
  /\ MaxPannes \in Nat

VARIABLES
  annonce,     \* annonces: source (bail_source, or what became of the id),
               \* statut, locataire, signe (both bail_signe_*_at are set),
               \* installe (import_metadata.deja_installe and what goes with it)
  invitation,  \* bail_invitations, by token; echue: expires_at is past; croisee
               \* (history): an answer to it, or its expiry, was carried out
               \* when the row was no longer pending
  messages,    \* [BAIL_CARD] and [BAIL_REFUSE] posted for each token
  dossier,     \* backfilled per annonce: rent schedules and inspections
  requete,     \* the requests being served
  pannes       \* failures so far

vars == <<annonce, invitation, messages, dossier, requete, pannes>>

Etapes == {"attente", "creerVerifier", "creerInserer", "importerAnnonce",
           "importerInserer", "importerNettoyer", "expirer", "accepterMarquer",
           "accepterLier", "loyersLire", "loyersEcrire", "edlLire",
           "edlEcrire", "carte", "refuserMarquer", "refuserPoster", "fini"}

\* The row of an annonce when it is inserted.
AnnonceVierge(source, statut, installe) ==
  [source |-> source, statut |-> statut, locataire |-> Personne,
   signe |-> FALSE, installe |-> installe]

\* A request works on an annonce, for a recipient, with a token; what it has
\* not read yet is arbitrary.
Depart == [pc |-> "attente", annonce |-> CHOOSE a \in Annonces : TRUE,
           locataire |-> CHOOSE l \in Locataires : TRUE,
           token |-> CHOOSE t \in Tokens : TRUE]

Init ==
  /\ annonce = [a \in Annonces |->
                  AnnonceVierge(IF a \in Publiees THEN "plateforme" ELSE "libre",
                                "disponible", FALSE)]
  /\ invitation = [t \in Tokens |-> [statut |-> "absente", echue |-> FALSE, croisee |-> FALSE,
                     annonce |-> Depart.annonce, locataire |-> Depart.locataire]]
  /\ messages = [t \in Tokens |-> [carte |-> 0, refus |-> 0]]
  /\ dossier = [a \in Annonces |-> [loyers |-> 0, edl |-> 0]]
  /\ requete = [r \in Requetes |-> Depart]
  /\ pannes = 0

EnAttente(a) == {t \in Tokens : invitation[t].statut = "pending"
                                /\ invitation[t].annonce = a}

Aller(r, etape) == requete' = [requete EXCEPT ![r].pc = etape]

\* The row of a new invitation; the token is one never drawn.
Inserer(r, t) ==
  /\ invitation[t].statut = "absente"
  /\ invitation' = [invitation EXCEPT ![t] =
       [statut |-> "pending", echue |-> FALSE, croisee |-> FALSE,
        annonce |-> requete[r].annonce, locataire |-> requete[r].locataire]]

-----------------------------------------------------------------------------
(* Mutations, none of them part of the specification.                      *)

\* Before migration 062: no unique index on the pending invitations.
CreerInsererSansIndex(r) ==
  /\ requete[r].pc = "creerInserer"
  /\ \E t \in Tokens : Inserer(r, t)
  /\ Aller(r, "fini")
  /\ UNCHANGED <<annonce, messages, dossier, pannes>>

\* A refusal that does not check the invitation is still pending.
RefuserMarquerSansGarde(r) ==
  /\ requete[r].pc = "refuserMarquer"
  /\ invitation' = [invitation EXCEPT ![requete[r].token].statut = "declined"]
  /\ Aller(r, "refuserPoster")
  /\ UNCHANGED <<annonce, messages, dossier, pannes>>

\* The answer under the name the route has, which migration 032's CHECK refuses.
RefuserMarquerRefused(r) ==
  /\ requete[r].pc = "refuserMarquer"
  /\ invitation' = [invitation EXCEPT ![requete[r].token].statut =
                      IF @ = "pending" THEN "refused" ELSE @]
  /\ Aller(r, "refuserPoster")
  /\ UNCHANGED <<annonce, messages, dossier, pannes>>

\* An acceptance that forgets the invitation's own row.
AccepterMarquerOublie(r) ==
  /\ requete[r].pc = "accepterMarquer"
  /\ Aller(r, "accepterLier")
  /\ UNCHANGED <<annonce, invitation, messages, dossier, pannes>>

\* Before V89.1: the annonce gets its tenant, not its signatures.
AccepterLierSansSignature(r) ==
  /\ requete[r].pc = "accepterLier"
  /\ annonce' = [annonce EXCEPT ![requete[r].annonce] =
       [@ EXCEPT !.source = "imported", !.locataire = requete[r].locataire]]
  /\ Aller(r, "loyersLire")
  /\ UNCHANGED <<invitation, messages, dossier, pannes>>

\* No cleanup of the annonce whose invitation could not be inserted.
ImporterNettoyerOublie(r) ==
  /\ requete[r].pc = "importerNettoyer"
  /\ Aller(r, "fini")
  /\ UNCHANGED <<annonce, invitation, messages, dossier, pannes>>

-----------------------------------------------------------------------------
(* POST /api/bail/from-annonce.                                            *)

\* Refused (409) once a lease is being signed or the annonce is let.
CreerLire(r, a, l) ==
  /\ requete[r].pc = "attente"
  /\ annonce[a].source \notin {"libre", "supprimee"}
  /\ ~annonce[a].signe /\ annonce[a].statut # "loue"
  /\ requete' = [requete EXCEPT ![r] =
       [@ EXCEPT !.pc = "creerVerifier", !.annonce = a, !.locataire = l]]
  /\ UNCHANGED <<annonce, invitation, messages, dossier, pannes>>

\* An invitation of the same tenant that has not expired is answered as is.
CreerVerifier(r) ==
  /\ requete[r].pc = "creerVerifier"
  /\ LET deja == {t \in EnAttente(requete[r].annonce) :
                    invitation[t].locataire = requete[r].locataire}
     IN Aller(r, IF \E t \in deja : ~invitation[t].echue
                 THEN "fini" ELSE "creerInserer")
  /\ UNCHANGED <<annonce, invitation, messages, dossier, pannes>>

\* Insert, unless another pending invitation of the annonce, expired or not
\* and whoever it is for, trips the unique index of migration 062.
CreerInserer(r) ==
  /\ requete[r].pc = "creerInserer"
  /\ IF EnAttente(requete[r].annonce) = {}
     THEN \E t \in Tokens : Inserer(r, t)
     ELSE UNCHANGED invitation
  /\ Aller(r, "fini")
  /\ UNCHANGED <<annonce, messages, dossier, pannes>>

-----------------------------------------------------------------------------
(* POST /api/bail/importer.                                                *)

\* maybeSingle() returns no row when two match: only a tenant with exactly one
\* pending invitation, not expired, is turned away.
ImporterVerifier(r, l) ==
  /\ requete[r].pc = "attente"
  /\ LET deja == {t \in Tokens : invitation[t].statut = "pending"
                                 /\ invitation[t].locataire = l}
     IN Cardinality(deja) = 1 => \A t \in deja : invitation[t].echue
  /\ requete' = [requete EXCEPT ![r] =
       [@ EXCEPT !.pc = "importerAnnonce", !.locataire = l]]
  /\ UNCHANGED <<annonce, invitation, messages, dossier, pannes>>

\* The annonce is created off the market, with or without a tenant already in.
ImporterAnnonce(r, installe) ==
  /\ requete[r].pc = "importerAnnonce"
  /\ \E a \in Annonces \ Publiees :
       /\ annonce[a].source = "libre"
       /\ annonce' = [annonce EXCEPT ![a] =
            AnnonceVierge("imported_pending", "loue", installe)]
       /\ requete' = [requete EXCEPT ![r] =
            [@ EXCEPT !.pc = "importerInserer", !.annonce = a]]
  /\ UNCHANGED <<invitation, messages, dossier, pannes>>

\* The insert succeeds, or fails and sends the handler to its cleanup.
ImporterInserer(r) ==
  /\ requete[r].pc = "importerInserer"
  /\ \/ (\E t \in Tokens : Inserer(r, t)) /\ Aller(r, "fini")
     \/ UNCHANGED invitation /\ Aller(r, "importerNettoyer")
  /\ UNCHANGED <<annonce, messages, dossier, pannes>>

\* The orphan annonce is deleted.
ImporterNettoyer(r) ==
  /\ requete[r].pc = "importerNettoyer"
  /\ annonce' = [annonce EXCEPT ![requete[r].annonce].source = "supprimee"]
  /\ Aller(r, "fini")
  /\ UNCHANGED <<invitation, messages, dossier, pannes>>

-----------------------------------------------------------------------------
(* POST /api/bail/accepter/[token] and /api/bail/refuser/[token].          *)

\* Both handlers read the invitation, refuse one that is not pending, and turn
\* to marking as expired one that is too old.  Only its recipient accepts;
\* whoever holds the token may refuse.
Repondre(r, t, suite) ==
  /\ requete[r].pc = "attente"
  /\ invitation[t].statut = "pending"
  /\ requete' = [requete EXCEPT ![r] =
       [pc |-> IF invitation[t].echue THEN "expirer" ELSE suite,
        annonce |-> invitation[t].annonce,
        locataire |-> invitation[t].locataire, token |-> t]]
  /\ UNCHANGED <<annonce, invitation, messages, dossier, pannes>>

\* This update does not check that the invitation is still pending.
Expirer(r) ==
  /\ requete[r].pc = "expirer"
  /\ LET i == invitation[requete[r].token] IN
       invitation' = [invitation EXCEPT ![requete[r].token] =
         [@ EXCEPT !.statut = "expired", !.croisee = i.croisee \/ i.statut # "pending"]]
  /\ Aller(r, "fini")
  /\ UNCHANGED <<annonce, messages, dossier, pannes>>

\* update ... where statut = 'pending': no error when it matches no row, so the
\* handler goes on whether it changed the row or not.
Marquer(r, statut) ==
  invitation' = [invitation EXCEPT ![requete[r].token] =
                   IF @.statut = "pending" THEN [@ EXCEPT !.statut = statut]
                                           ELSE [@ EXCEPT !.croisee = TRUE]]

AccepterMarquer(r) ==
  /\ requete[r].pc = "accepterMarquer"
  /\ Marquer(r, "accepted")
  /\ Aller(r, "accepterLier")
  /\ UNCHANGED <<annonce, messages, dossier, pannes>>

\* The annonce becomes the imported lease of the recipient.
AccepterLier(r) ==
  /\ requete[r].pc = "accepterLier"
  /\ annonce' = [annonce EXCEPT ![requete[r].annonce] =
       [@ EXCEPT !.source = "imported", !.locataire = requete[r].locataire,
                 !.signe = TRUE]]
  /\ Aller(r, IF annonce[requete[r].annonce].installe THEN "loyersLire" ELSE "carte")
  /\ UNCHANGED <<invitation, messages, dossier, pannes>>

\* A tenant already in: past rents, then a validated check-in inspection, each
\* unless there is one.
LoyersLire(r) ==
  /\ requete[r].pc = "loyersLire"
  /\ Aller(r, IF dossier[requete[r].annonce].loyers = 0
              THEN "loyersEcrire" ELSE "edlLire")
  /\ UNCHANGED <<annonce, invitation, messages, dossier, pannes>>

LoyersEcrire(r) ==
  /\ requete[r].pc = "loyersEcrire"
  /\ dossier' = [dossier EXCEPT ![requete[r].annonce].loyers = @ + 1]
  /\ Aller(r, "edlLire")
  /\ UNCHANGED <<annonce, invitation, messages, pannes>>

EdlLire(r) ==
  /\ requete[r].pc = "edlLire"
  /\ Aller(r, IF dossier[requete[r].annonce].edl = 0 THEN "edlEcrire" ELSE "carte")
  /\ UNCHANGED <<annonce, invitation, messages, dossier, pannes>>

EdlEcrire(r) ==
  /\ requete[r].pc = "edlEcrire"
  /\ dossier' = [dossier EXCEPT ![requete[r].annonce].edl = @ + 1]
  /\ Aller(r, "carte")
  /\ UNCHANGED <<annonce, invitation, messages, pannes>>

\* The conversation opens with the lease's [BAIL_CARD].
PosterCarte(r) ==
  /\ requete[r].pc = "carte"
  /\ messages' = [messages EXCEPT ![requete[r].token].carte = @ + 1]
  /\ Aller(r, "fini")
  /\ UNCHANGED <<annonce, invitation, dossier, pannes>>

RefuserMarquer(r) ==
  /\ requete[r].pc = "refuserMarquer"
  /\ Marquer(r, "declined")
  /\ Aller(r, "refuserPoster")
  /\ UNCHANGED <<annonce, messages, dossier, pannes>>

\* The annonce is not given back: the update names a column `loue` that the
\* table does not have, and its error is not looked at.  [BAIL_REFUSE] is
\* posted.
RefuserPoster(r) ==
  /\ requete[r].pc = "refuserPoster"
  /\ messages' = [messages EXCEPT ![requete[r].token].refus = @ + 1]
  /\ Aller(r, "fini")
  /\ UNCHANGED <<annonce, invitation, dossier, pannes>>

-----------------------------------------------------------------------------
\* An insert of the conversation or of the backfill is lost: it is logged.
EcrituresPerdues == {<<"loyersEcrire", "edlLire">>, <<"edlEcrire", "carte">>,
                     <<"carte", "fini">>, <<"refuserPoster", "fini">>}

ErreurIgnoree(r) ==
  /\ pannes < MaxPannes
  /\ \E s \in EcrituresPerdues : requete[r].pc = s[1] /\ Aller(r, s[2])
  /\ pannes' = pannes + 1
  /\ UNCHANGED <<annonce, invitation, messages, dossier>>

\* The function dies, or a checked call fails and the handler returns.
Interrompre(r) ==
  /\ pannes < MaxPannes
  /\ requete[r].pc \notin {"attente", "fini"}
  /\ Aller(r, "fini")
  /\ pannes' = pannes + 1
  /\ UNCHANGED <<annonce, invitation, messages, dossier>>

\* Fourteen days have passed since the invitation was created.
Echoir(t) ==
  /\ invitation[t].statut # "absente" /\ ~invitation[t].echue
  /\ invitation' = [invitation EXCEPT ![t].echue = TRUE]
  /\ UNCHANGED <<annonce, messages, dossier, requete, pannes>>

Traitement(r) ==
  \/ CreerVerifier(r) \/ CreerInserer(r)
  \/ (\E i \in BOOLEAN : ImporterAnnonce(r, i))
  \/ ImporterInserer(r) \/ ImporterNettoyer(r)
  \/ Expirer(r) \/ AccepterMarquer(r) \/ AccepterLier(r)
  \/ LoyersLire(r) \/ LoyersEcrire(r) \/ EdlLire(r) \/ EdlEcrire(r)
  \/ PosterCarte(r) \/ RefuserMarquer(r) \/ RefuserPoster(r)

Arrivee(r) ==
  \/ \E a \in Annonces, l \in Locataires : CreerLire(r, a, l)
  \/ \E l \in Locataires : ImporterVerifier(r, l)
  \/ \E t \in Tokens : \/ Repondre(r, t, "accepterMarquer")
                      \/ Repondre(r, t, "refuserMarquer")

Next ==
  \/ \E r \in Requetes : Arrivee(r) \/ Traitement(r)
                         \/ ErreurIgnoree(r) \/ Interrompre(r)
  \/ \E t \in Tokens : Echoir(t)

Spec == Init /\ [][Next]_vars

-----------------------------------------------------------------------------
Statuts == {"absente", "pending", "accepted", "declined", "expired"}
Sources == {"libre", "supprimee", "plateforme", "imported_pending", "imported"}

TypeOK ==
  /\ annonce \in [Annonces -> [source : Sources, statut : {"disponible", "loue"},
                               locataire : Locataires \cup {Personne},
                               signe : BOOLEAN, installe : BOOLEAN]]
  /\ invitation \in [Tokens -> [statut : Statuts, echue : BOOLEAN, croisee : BOOLEAN,
                                annonce : Annonces, locataire : Locataires]]
  /\ messages \in [Tokens -> [carte : Nat, refus : Nat]]
  /\ dossier \in [Annonces -> [loyers : Nat, edl : Nat]]
  /\ requete \in [Requetes -> [pc : Etapes, annonce : Annonces,
                               locataire : Locataires, token : Tokens]]
  /\ pannes \in 0..MaxPannes

Repos == \A r \in Requetes : requete[r].pc \in {"attente", "fini"}

\* V70.5: however from-annonce's check and insert interleave with those of
\* another request, an annonce has one pending invitation at most.
UneSeuleEnAttente ==
  \A t, u \in Tokens :
    /\ invitation[t].statut = "pending" /\ invitation[u].statut = "pending"
    /\ invitation[t].annonce = invitation[u].annonce
    => t = u

\* An answer is not turned into the other one, and a row never becomes pending
\* again, however two answers to the token interleave.  (It may still become
\* "expired": that update is not guarded.)
ReponseDefinitive ==
  [][\A t \in Tokens :
       invitation[t].statut \in {"accepted", "declined", "expired"}
         => invitation'[t].statut \in {invitation[t].statut, "expired"}]_vars

\* The invitation was accepted, and still says so unless another answer, or the
\* unguarded expiry, crossed the acceptance.
Acceptee(t) ==
  \/ invitation[t].statut = "accepted"
  \/ invitation[t].statut \in {"declined", "expired"} /\ invitation[t].croisee

\* A lease counts as signed only for a recipient who has an accepted invitation
\* to that very annonce, even when functions die half way; when the invitation
\* says that it was declined or has expired, two answers to it crossed.
BailImporteInvite ==
  \A a \in Annonces :
    annonce[a].signe =>
      \E t \in Tokens :
        /\ Acceptee(t)
        /\ invitation[t].annonce = a
        /\ invitation[t].locataire = annonce[a].locataire

\* With no failure, an accepted invitation leaves a lease that the rest of the
\* product sees as signed, and its card in the conversation.
AccepteeAboutit ==
  (pannes = 0 /\ Repos) =>
    \A t \in Tokens :
      invitation[t].statut = "accepted"
        => annonce[invitation[t].annonce].signe /\ messages[t].carte > 0

\* Unless a function dies, no annonce created for an import is left off the
\* market without the invitation that would bring it its tenant, even when the
\* insert of that invitation fails.
ImportJamaisOrphelin ==
  (pannes = 0 /\ Repos) =>
    \A a \in Annonces :
      annonce[a].source = "imported_pending" =>
        \E t \in Tokens : invitation[t].statut # "absente" /\ invitation[t].annonce = a
==============================================================================
