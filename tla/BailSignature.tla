---------------------------- MODULE BailSignature ----------------------------
(***************************************************************************)
(* Electronic signature of one lease.                                      *)
(*                                                                         *)
(* POST /api/bail/signer runs a score of Supabase calls with no            *)
(* transaction around them: each call is atomic, and between two calls any *)
(* other request may run.  A request is therefore a process with a program *)
(* counter and the snapshot of the annonce it read first.  The owner's     *)
(* bail page (confirmEnvoiBail) is a second kind of process that writes    *)
(* the same annonce row and posts a new [BAIL_CARD].                       *)
(*                                                                         *)
(* One annonce is modelled, over the life of one lease (the next one is in *)
(* FinDeBail); its rent is positive and the owner entered no rent row by   *)
(* hand.  The errors the handler ignores (writes and reads whose error is  *)
(* never looked at) and the death of the                                   *)
(* serverless function are explicit, within the budget MaxPannes.          *)
(***************************************************************************)
EXTENDS Naturals, FiniteSets

CONSTANTS
  Locataires,    \* e-mails of the candidates
  Garants,       \* e-mails of people who are no party
  Bailleur,      \* e-mail of the owner (annonces.proprietaire_email)
  Personne,      \* annonces.locataire_email IS NULL
  Requetes,      \* the POST /api/bail/signer requests that may arrive
  StatutsCandidature, \* statut_candidature the candidacies may start with
  MaxCartes,     \* bound on the [BAIL_CARD] messages posted
  MaxPannes      \* bound on killed functions and ignored errors

ASSUME PersonnesDistinctes ==
  /\ Bailleur \notin Locataires
  /\ Personne \notin Locataires \cup Garants \cup {Bailleur}

ASSUME Bornes ==
  /\ MaxCartes \in Nat
  /\ MaxPannes \in Nat
  /\ StatutsCandidature \subseteq {"NULL", "en_attente", "validee", "refusee"}

Parties == {"locataire", "bailleur"}
Roles   == Parties \cup {"garant"}
Emails  == Locataires \cup Garants \cup {Bailleur}
Destinataires == Locataires \cup {Personne}
CandidatureStatuts == {"NULL", "en_attente", "validee", "refusee"}

VARIABLES
  annonce,      \* the annonces row: statut ("loue" is the code's "loué"),
                \* locataire, sigLoc, sigBail (bail_signe_*_at is set)
  signatures,   \* rows of bail_signatures
  carte,        \* number of [BAIL_CARD] posted; the latest is the lease text
  candidature,  \* statut_candidature of each candidate's first message
  lotsLoyers,   \* how many times the 12 rent rows were inserted
  msgs,         \* counts of [EDL_A_PLANIFIER] and [BAIL_FINAL_PDF] rows
  finalisations,\* calls of finalizeBail (two e-mails with the PDF each)
  orphelins,    \* rate bucket of candidats-orphelins, and who was told
  prevenus,     \* roles whose signature the other party was told of
  requete,      \* the signing requests
  page,         \* the owner's bail page
  pannes,       \* failures so far
  loueParSignature \* history: some request wrote statut = "loue"

lignes == <<signatures, candidature, lotsLoyers, msgs, finalisations,
            orphelins, prevenus, loueParSignature>>
vars == <<annonce, carte, requete, page, pannes, lignes>>

Etapes == {"attente", "carte", "upsert", "patch", "relire", "louer",
           "loyersLire", "loyersEcrire", "edlLire", "valider", "edlEcrire",
           "finaliser", "finalLire", "finalEcrire", "orphelins", "prevenir",
           "fini"}

SansRequete == [pc |-> "attente", role |-> "garant", email |-> Bailleur,
                locataire |-> Personne, carte |-> 0]
SansPage == [pc |-> "fermee", locataire |-> Personne,
             statut |-> "disponible", bloquee |-> FALSE, importe |-> FALSE]

Init ==
  /\ annonce = [statut |-> "disponible", locataire |-> Personne,
                sigLoc |-> FALSE, sigBail |-> FALSE]
  /\ signatures = {}
  /\ carte = 0
  /\ candidature \in [Locataires -> StatutsCandidature]
  /\ lotsLoyers = 0
  /\ msgs = [edl |-> 0, final |-> 0]
  /\ finalisations = 0
  /\ orphelins = [limite |-> FALSE, avertis |-> {}]
  /\ prevenus = {}
  /\ requete = [r \in Requetes |-> SansRequete]
  /\ page = SansPage
  /\ pannes = 0
  /\ loueParSignature = FALSE

\* The roles found by `select signataire_role where annonce_id`.
RolesSignes == {s.role : s \in signatures}

Aller(r, etape) == requete' = [requete EXCEPT ![r].pc = etape]

-----------------------------------------------------------------------------
(* Mutations of the handlers, each a bug this code had or could have; none *)
(* is part of the specification.                                           *)

\* Before V67: the tenant's signature alone let the property.
SignerRelireLocataireSeul(r) ==
  /\ requete[r].pc = "relire"
  /\ Aller(r, IF "locataire" \in RolesSignes THEN "louer" ELSE "prevenir")
  /\ UNCHANGED <<annonce, carte, page, pannes, lignes>>

\* The double signature looked for on the owner's request only.
SignerRelireBailleurSeul(r) ==
  /\ requete[r].pc = "relire"
  /\ Aller(r, IF requete[r].role = "bailleur" /\ "locataire" \in RolesSignes
              THEN "louer" ELSE "prevenir")
  /\ UNCHANGED <<annonce, carte, page, pannes, lignes>>

\* onConflict on annonce_id alone, ignoring duplicates.
SignerUpsertUneLigne(r) ==
  /\ requete[r].pc = "upsert"
  /\ LET q == requete[r] IN
     signatures' = IF signatures # {} THEN signatures
                   ELSE {[email |-> q.email, role |-> q.role, carte |-> q.carte]}
  /\ Aller(r, "patch")
  /\ UNCHANGED <<annonce, carte, candidature, lotsLoyers, msgs, finalisations,
                 orphelins, prevenus, page, pannes, loueParSignature>>

\* The rent rows left for later.
SignerLouerSansLoyers(r) ==
  /\ requete[r].pc = "louer"
  /\ annonce' = [annonce EXCEPT !.statut = "loue"]
  /\ loueParSignature' = TRUE
  /\ Aller(r, "edlLire")
  /\ UNCHANGED <<signatures, carte, candidature, lotsLoyers, msgs,
                 finalisations, orphelins, prevenus, page, pannes>>

\* An early return when the inspection message is already there.
SignerEdlLireRetour(r) ==
  /\ requete[r].pc = "edlLire"
  /\ Aller(r, IF msgs.edl = 0 /\ requete[r].locataire # Personne
              THEN "valider" ELSE "fini")
  /\ UNCHANGED <<annonce, carte, page, pannes, lignes>>

\* The caller not taken off the list of the candidates to tell.
AvertirOrphelinsTous(appelant, retenu) ==
  orphelins' =
    [limite  |-> TRUE,
     avertis |-> IF orphelins.limite THEN orphelins.avertis
                 ELSE orphelins.avertis \cup (Emails \ {retenu})]

-----------------------------------------------------------------------------
(* POST /api/bail/signer, one action per Supabase call.                    *)

\* Read the annonce and check that the signatory is the party it claims to
\* be; anybody may sign as a guarantor, the parties included.
SignerLire(r, role, email) ==
  /\ requete[r].pc = "attente"
  /\ role = "locataire" => email = annonce.locataire
  /\ role = "bailleur" => email = Bailleur
  /\ requete' = [requete EXCEPT ![r] =
       [pc |-> "carte", role |-> role, email |-> email,
        locataire |-> annonce.locataire, carte |-> 0]]
  /\ UNCHANGED <<annonce, carte, page, pannes, lignes>>

\* Read the latest [BAIL_CARD]: the payload snapshot the signature will carry.
SignerCarte(r) ==
  /\ requete[r].pc = "carte"
  /\ requete' = [requete EXCEPT ![r] = [@ EXCEPT !.pc = "upsert", !.carte = carte]]
  /\ UNCHANGED <<annonce, carte, page, pannes, lignes>>

\* Upsert on the unique key (annonce, email, role).
SignerUpsert(r) ==
  /\ requete[r].pc = "upsert"
  /\ LET q == requete[r] IN
     signatures' =
       {s \in signatures : ~(s.email = q.email /\ s.role = q.role)}
         \cup {[email |-> q.email, role |-> q.role, carte |-> q.carte]}
  /\ Aller(r, "patch")
  /\ UNCHANGED <<annonce, carte, candidature, lotsLoyers, msgs, finalisations,
                 orphelins, prevenus, page, pannes, loueParSignature>>

\* Write the signatory's timestamp on the annonce (nothing for a guarantor).
SignerPatch(r) ==
  /\ requete[r].pc = "patch"
  /\ annonce' = CASE requete[r].role = "locataire" -> [annonce EXCEPT !.sigLoc = TRUE]
                  [] requete[r].role = "bailleur"  -> [annonce EXCEPT !.sigBail = TRUE]
                  [] OTHER -> annonce
  /\ Aller(r, "relire")
  /\ UNCHANGED <<carte, page, pannes, lignes>>

\* Read every signature of the annonce and add one's own role.
SignerRelire(r) ==
  /\ requete[r].pc = "relire"
  /\ Aller(r, IF Parties \subseteq RolesSignes \cup {requete[r].role}
              THEN "louer" ELSE "prevenir")
  /\ UNCHANGED <<annonce, carte, page, pannes, lignes>>

\* Both parties have signed: the property leaves the market.
SignerLouer(r) ==
  /\ requete[r].pc = "louer"
  /\ annonce' = [annonce EXCEPT !.statut = "loue"]
  /\ loueParSignature' = TRUE
  /\ Aller(r, "loyersLire")
  /\ UNCHANGED <<signatures, carte, candidature, lotsLoyers, msgs,
                 finalisations, orphelins, prevenus, page, pannes>>

\* Is there already a rent row in the new lease's period?
SignerLoyersLire(r) ==
  /\ requete[r].pc = "loyersLire"
  /\ Aller(r, IF lotsLoyers = 0 THEN "loyersEcrire" ELSE "edlLire")
  /\ UNCHANGED <<annonce, carte, page, pannes, lignes>>

SignerLoyersEcrire(r) ==
  /\ requete[r].pc = "loyersEcrire"
  /\ lotsLoyers' = lotsLoyers + 1
  /\ Aller(r, "edlLire")
  /\ UNCHANGED <<annonce, signatures, carte, candidature, msgs, finalisations,
                 orphelins, prevenus, page, pannes, loueParSignature>>

\* Has the double signature already been announced?
SignerEdlLire(r) ==
  /\ requete[r].pc = "edlLire"
  /\ Aller(r, IF msgs.edl = 0 /\ requete[r].locataire # Personne
              THEN "valider" ELSE "prevenir")
  /\ UNCHANGED <<annonce, carte, page, pannes, lignes>>

\* Validate the tenant's candidacy.  `.neq("statut_candidature", "validee")`
\* is NULL, hence not true, on a row whose status is NULL.
SignerValider(r) ==
  /\ requete[r].pc = "valider"
  /\ LET l == requete[r].locataire IN
     candidature' = [candidature EXCEPT ![l] = IF @ = "NULL" THEN @ ELSE "validee"]
  /\ Aller(r, "edlEcrire")
  /\ UNCHANGED <<annonce, signatures, carte, lotsLoyers, msgs, finalisations,
                 orphelins, prevenus, page, pannes, loueParSignature>>

SignerEdlEcrire(r) ==
  /\ requete[r].pc = "edlEcrire"
  /\ msgs' = [msgs EXCEPT !.edl = @ + 1]
  /\ Aller(r, "finaliser")
  /\ UNCHANGED <<annonce, signatures, carte, candidature, lotsLoyers,
                 finalisations, orphelins, prevenus, page, pannes,
                 loueParSignature>>

\* finalizeBail builds the PDF from the latest card and all the signatures
\* and sends both e-mails.
SignerFinaliser(r) ==
  /\ requete[r].pc = "finaliser"
  /\ finalisations' = finalisations + 1
  /\ Aller(r, "finalLire")
  /\ UNCHANGED <<annonce, signatures, carte, candidature, lotsLoyers, msgs,
                 orphelins, prevenus, page, pannes, loueParSignature>>

\* Only then does it look for a [BAIL_FINAL_PDF] already posted.
SignerFinalLire(r) ==
  /\ requete[r].pc = "finalLire"
  /\ Aller(r, IF msgs.final = 0 THEN "finalEcrire" ELSE "orphelins")
  /\ UNCHANGED <<annonce, carte, page, pannes, lignes>>

SignerFinalEcrire(r) ==
  /\ requete[r].pc = "finalEcrire"
  /\ msgs' = [msgs EXCEPT !.final = @ + 1]
  /\ Aller(r, "orphelins")
  /\ UNCHANGED <<annonce, signatures, carte, candidature, lotsLoyers,
                 finalisations, orphelins, prevenus, page, pannes,
                 loueParSignature>>

\* candidats-orphelins, called with the signatory's own cookie: one call per
\* hour and per annonce is let through, and only the owner passes the
\* ownership check that comes after the rate limit.
AvertirOrphelins(appelant, retenu) ==
  orphelins' =
    [limite  |-> TRUE,
     avertis |-> IF ~orphelins.limite /\ appelant = Bailleur
                 THEN orphelins.avertis \cup (Locataires \ {retenu})
                 ELSE orphelins.avertis]

SignerOrphelins(r) ==
  /\ requete[r].pc = "orphelins"
  /\ AvertirOrphelins(requete[r].email, requete[r].locataire)
  /\ Aller(r, "prevenir")
  /\ UNCHANGED <<annonce, signatures, carte, candidature, lotsLoyers, msgs,
                 finalisations, prevenus, page, pannes, loueParSignature>>

\* [BAIL_SIGNE] message, bell and e-mail to the other party, if there is one.
SignerPrevenir(r) ==
  /\ requete[r].pc = "prevenir"
  /\ LET q == requete[r]
         autre == CASE q.role = "locataire" -> Bailleur
                    [] q.role = "bailleur"  -> q.locataire
                    [] OTHER -> Personne
     IN prevenus' = IF autre \notin {Personne, q.email}
                    THEN prevenus \cup {q.role} ELSE prevenus
  /\ Aller(r, "fini")
  /\ UNCHANGED <<annonce, signatures, carte, candidature, lotsLoyers, msgs,
                 finalisations, orphelins, page, pannes, loueParSignature>>

\* An error the handler never looks at: a write is lost and the request goes
\* on, or a read returns no data and is taken for "no row".
EcrituresPerdues ==
  {<<"patch", "relire">>, <<"louer", "loyersLire">>,
   <<"loyersEcrire", "edlLire">>, <<"valider", "edlEcrire">>,
   <<"edlEcrire", "finaliser">>, <<"finaliser", "orphelins">>,
   <<"finalLire", "orphelins">>, <<"finalEcrire", "orphelins">>,
   <<"orphelins", "prevenir">>, <<"prevenir", "fini">>}
LecturesVides ==
  {<<"relire", "prevenir">>, <<"loyersLire", "loyersEcrire">>,
   <<"edlLire", "valider">>, <<"finalLire", "finalEcrire">>}

ErreurIgnoree(r) ==
  /\ pannes < MaxPannes
  /\ \E s \in EcrituresPerdues \cup LecturesVides :
       /\ requete[r].pc = s[1]
       /\ s[2] = "valider" => requete[r].locataire # Personne
       /\ Aller(r, s[2])
  /\ pannes' = pannes + 1
  /\ UNCHANGED <<annonce, carte, page, lignes>>

\* The function dies, or a checked call fails and the handler returns 4xx/5xx.
Interrompre(r) ==
  /\ pannes < MaxPannes
  /\ requete[r].pc \notin {"attente", "fini"}
  /\ Aller(r, "fini")
  /\ pannes' = pannes + 1
  /\ UNCHANGED <<annonce, carte, page, lignes>>

Signature(r) ==
  \/ SignerCarte(r)       \/ SignerUpsert(r)    \/ SignerPatch(r)
  \/ SignerRelire(r)      \/ SignerLouer(r)     \/ SignerLoyersLire(r)
  \/ SignerLoyersEcrire(r) \/ SignerEdlLire(r)  \/ SignerValider(r)
  \/ SignerEdlEcrire(r)   \/ SignerFinaliser(r) \/ SignerFinalLire(r)
  \/ SignerFinalEcrire(r)
  \/ SignerOrphelins(r)   \/ SignerPrevenir(r)

-----------------------------------------------------------------------------
(* The owner's browser: the bail page and "Louer a ce candidat".           *)

\* loadBien: the page works on this copy of the row until it is closed.  The
\* page opened with ?locataire=t fills an empty locataire_email.
PageCharger(t) ==
  /\ page.pc = "fermee"
  /\ LET preselection == annonce.locataire = Personne /\ t # Personne IN
     page' = [pc |-> IF preselection THEN "preselection" ELSE "prete",
              locataire |-> IF preselection THEN t ELSE annonce.locataire,
              statut |-> annonce.statut,
              bloquee |-> "locataire" \in RolesSignes,
              importe |-> FALSE]
  /\ UNCHANGED <<annonce, carte, requete, pannes, lignes>>

PagePreselection ==
  /\ page.pc = "preselection"
  /\ annonce' = [annonce EXCEPT !.locataire = page.locataire]
  /\ page' = [page EXCEPT !.pc = "prete"]
  /\ UNCHANGED <<carte, requete, pannes, lignes>>

\* confirmEnvoiBail fetches the signatures just before it sends; when the fetch
\* itself fails it sends all the same.
PageVerifier ==
  /\ page.pc = "prete"
  /\ page.locataire # Personne
  /\ ~page.bloquee
  /\ carte < MaxCartes
  /\ \/ /\ page' = IF "locataire" \in RolesSignes THEN SansPage
                   ELSE [page EXCEPT !.pc = "annonce"]
        /\ UNCHANGED pannes
     \/ /\ pannes < MaxPannes
        /\ page' = [page EXCEPT !.pc = "annonce"]
        /\ pannes' = pannes + 1
  /\ UNCHANGED <<annonce, carte, requete, lignes>>

\* onUploaded: a PDF made elsewhere is sent with no fresh look at the
\* signatures and no word to the other candidates.
PageImporter ==
  /\ page.pc = "prete"
  /\ page.locataire # Personne
  /\ ~page.bloquee
  /\ carte < MaxCartes
  /\ page' = [page EXCEPT !.pc = "annonce", !.importe = TRUE]
  /\ UNCHANGED <<annonce, carte, requete, pannes, lignes>>

PageAnnonce ==
  /\ page.pc = "annonce"
  /\ annonce' = [annonce EXCEPT
       !.locataire = page.locataire,
       !.statut = IF page.statut = "loue" THEN @ ELSE "bail_envoye"]
  /\ page' = [page EXCEPT !.pc = "poster"]
  /\ UNCHANGED <<carte, requete, pannes, lignes>>

PagePoster ==
  /\ page.pc = "poster"
  /\ carte' = carte + 1
  /\ page' = IF page.importe THEN SansPage ELSE [page EXCEPT !.pc = "orphelins"]
  /\ UNCHANGED <<annonce, requete, pannes, lignes>>

PageOrphelins ==
  /\ page.pc = "orphelins"
  /\ AvertirOrphelins(Bailleur, page.locataire)
  /\ page' = SansPage
  /\ UNCHANGED <<annonce, signatures, carte, candidature, lotsLoyers, msgs,
                 finalisations, prevenus, requete, pannes, loueParSignature>>

\* The owner leaves the page half way.
PageFermer ==
  /\ page.pc # "fermee"
  /\ page' = SansPage
  /\ UNCHANGED <<annonce, carte, requete, pannes, lignes>>

\* accepterLocation: offered for a validated candidate, before any bail.
AccepterLocation(t) ==
  /\ page.pc = "fermee"
  /\ candidature[t] = "validee"
  /\ annonce.statut # "loue" \/ annonce.locataire # t
  /\ annonce' = [annonce EXCEPT !.statut = "loue", !.locataire = t]
  /\ page' = [SansPage EXCEPT !.pc = "orphelins", !.locataire = t]
  /\ UNCHANGED <<carte, requete, pannes, lignes>>

\* The hour of the candidats-orphelins bucket has passed.
FenetreOrphelins ==
  /\ orphelins.limite
  /\ orphelins' = [orphelins EXCEPT !.limite = FALSE]
  /\ UNCHANGED <<annonce, signatures, carte, candidature, lotsLoyers, msgs,
                 finalisations, prevenus, requete, page, pannes,
                 loueParSignature>>

PageBail ==
  \/ \E t \in Destinataires : PageCharger(t)
  \/ PagePreselection \/ PageVerifier \/ PageImporter \/ PageAnnonce
  \/ PagePoster \/ PageOrphelins \/ PageFermer

Next ==
  \/ \E r \in Requetes : \/ Signature(r)
                         \/ ErreurIgnoree(r) \/ Interrompre(r)
                         \/ \E role \in Roles, email \in Emails :
                              SignerLire(r, role, email)
  \/ PageBail
  \/ \E t \in Locataires : AccepterLocation(t)
  \/ FenetreOrphelins

Spec == Init /\ [][Next]_vars

\* A request once received is carried to its end by the server; nothing obliges
\* the users to sign or the owner to send.
FairSpec == Spec /\ \A r \in Requetes : WF_vars(Signature(r))

-----------------------------------------------------------------------------
TypeOK ==
  /\ annonce \in [statut : {"disponible", "bail_envoye", "loue"},
                  locataire : Destinataires,
                  sigLoc : BOOLEAN, sigBail : BOOLEAN]
  /\ signatures \subseteq [email : Emails, role : Roles, carte : Nat]
  /\ carte \in Nat
  /\ candidature \in [Locataires -> CandidatureStatuts]
  /\ lotsLoyers \in Nat
  /\ msgs \in [edl : Nat, final : Nat]
  /\ finalisations \in Nat
  /\ orphelins \in [limite : BOOLEAN, avertis : SUBSET Locataires]
  /\ prevenus \subseteq Roles
  /\ requete \in [Requetes -> [pc : Etapes, role : Roles, email : Emails,
                              locataire : Destinataires, carte : Nat]]
  /\ page \in [pc : {"fermee", "preselection", "prete", "annonce", "poster",
                     "orphelins"},
               locataire : Destinataires,
               statut : {"disponible", "bail_envoye", "loue"},
               bloquee : BOOLEAN, importe : BOOLEAN]
  /\ pannes \in 0..MaxPannes
  /\ loueParSignature \in BOOLEAN

\* No request of /api/bail/signer is being processed.
Repos == \A r \in Requetes : requete[r].pc \in {"attente", "fini"}

\* V67: the signature path turns the annonce into "loue" only when both the
\* tenant and the owner have a signature row, however the requests interleave.
BasculeADeuxSignatures == loueParSignature => Parties \subseteq RolesSignes

\* The converse, the one a test hardly reaches: when both parties sign at the
\* same time, at least one of the two requests sees both rows.  With nothing
\* failing, a lease both parties signed never stays short of "loue" once the
\* server is at rest.
AucunBailOublie ==
  (pannes = 0 /\ Repos /\ Parties \subseteq RolesSignes) => loueParSignature

\* The timestamps the rest of the product trusts (annonces.bail_signe_*_at) are
\* always backed by a row of bail_signatures, even if a request dies half way.
HorodatageAppuye ==
  /\ annonce.sigLoc  => "locataire" \in RolesSignes
  /\ annonce.sigBail => "bailleur" \in RolesSignes

\* Nobody is invited to the check-in inspection of a lease whose annonce was
\* not let or whose rent schedule was not written.
InvitationApresEcheancier ==
  (pannes = 0 /\ msgs.edl > 0) => (loueParSignature /\ lotsLoyers > 0)

\* The other party is eventually told of a signature of the tenant.
BailleurPrevenu ==
  ("locataire" \in RolesSignes) ~> ("locataire" \in prevenus)

\* The signature of a lease implements the two-party signature.
Accord == INSTANCE DoubleSignature WITH
            signe <- RolesSignes \cap Parties, actif <- loueParSignature
AccordSafe == Accord!DSSafeSpec
AccordSpec == Accord!DSSpec

-----------------------------------------------------------------------------
(* What comments of the code say of it, and TLC refutes.                   *)

\* The rent schedule is "Idempotent" (signer:264), the messages are checked for
\* "doublons en cas de double-clic" (signer:315) and finalizeBail is "Appelé une
\* seule fois" (finalize.ts:6): each effect of the double signature occurs once.
EffetsUniques == lotsLoyers <= 1 /\ msgs.edl <= 1 /\ finalisations <= 1
==============================================================================
