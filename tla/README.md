# A TLA+ verification of NestMatch

NestMatch (also called KeyMatch in its code) is a French peer-to-peer rental platform: `src/nestmatch/`, a Next.js 15
application whose API routes (`app/api`) talk to Supabase (PostgreSQL behind a REST interface) with the service role.
Everything that matters legally - who rented what from whom, signed when, with which deposit - is made of rows that
serverless functions read and write in separate calls, **without a transaction** and, most of the time, without a condition
on the write. Two functions may serve two people, or two clicks of one person, at the same moment; a function may be killed
between two calls; and the error of many calls is never looked at. The models of this directory are about that.

Names of variables, actions and values follow the code, which is in French (`annonce` = listing, `bail` = lease, `bailleur` /
`proprietaire` = owner, `locataire` = tenant, `avenant` = amendment, `preavis` = notice, `EDL` = inspection, `depot` =
deposit).

## 1. Inventory

| Component | State | Operations | What is hard | Model |
|---|---|---|---|---|
| Lease signature (`api/bail/signer`, `lib/bail/finalize`) | `annonces.statut`, `locataire_email`, `bail_signe_*_at`; `bail_signatures`; `loyers`; `[EDL_A_PLANIFIER]`, `[BAIL_FINAL_PDF]` messages; `statut_candidature` | sign as tenant, owner or guarantor; on the double signature let, write 12 rents, invite to the inspection, mail the PDF, tell the others | both parties at once, a failure between two of some 15 calls, the owner's page writing the same row from an old copy | `BailSignature` |
| Notice to the other candidates (`api/notifications/candidats-orphelins`) | hourly bucket per annonce | tell every candidate not retained | called with the signatory's cookie, rate limit before authorisation | in `BailSignature` |
| Invitations and imports (`api/bail/from-annonce`, `importer`, `accepter`, `refuser`) | `bail_invitations`, `annonces`, backfilled rents and inspection | invite, import, accept, refuse, expire | two answers to one token, two creations, half-done imports | `BailInvitation` |
| Amendments (`api/bail/avenant`, `[id]/signer`, `[id]/refuser`) | `bail_avenants`, propagated columns of the annonce | propose, sign, propagate, refuse | number computed from a read, status computed from a row and written later, unguarded refusal | `Avenants` |
| Notice to quit (`api/bail/preavis`, `preavis/annuler`) | `annonces.preavis_*` | give, cancel | both parties, late writes | `FinDeBail` |
| End of lease (`api/annonces/terminer-bail`, `api/baux/relouer`, `restitution-depot`) | the same `annonces` row for every lease, `historique_baux`, `profils.anciens_logements` | terminate, return the deposit, archive and reset | columns that survive from a lease to the next, a crash between archive and reset | `FinDeBail` |
| Late deposit job (`cron/depot-retard`) | `notified_depot_retard_at` | mail the tenant | reads columns the relocation has just rewritten | `FinDeBail` |
| Inspections (`api/edl/*` and the pages that call them) | `etats_des_lieux`, `edl_signatures` | save, send, sign, contest, countersign, open the exit one | the owner's update against the tenant's signature, a status anyone may write | `EtatDesLieux`, except the deadline job; their use at the end of a lease in `FinDeBail` |
| Amicable termination (`api/bail/annuler`) | messages, `annonces` | propose, execute | the execution is refused by the database (finding) | no |
| Rents and receipts (`api/loyers`, `api/quittances`, `cron/loyers-*`) | `loyers` | write a schedule, create the month, declare, enter; confirm, issue, remind | five writers, no unique constraint, read errors ignored | which months have a rent: `Loyers`; the rest not |
| Candidacies (`api/messages/candidature`, `api/candidatures/*`, gate of `api/visites/proposer`) | `statut_candidature` on messages, `visites` | apply, validate, refuse, undo, propose a visit | decisions written on the oldest message, gate read on the latest, validation by the lease | `Candidatures` |
| Visits (pages messages, proprietaire, visites, mes-candidatures) | `visites` | propose, confirm, cancel, counter-propose, mark as done, withdraw | the browser writes by id what it decided on an old copy | `Visites`; three routes no page calls are left out |
| Webhooks of the agencies (`lib/agences/webhooks`, `cron/webhook-deliveries`, triggers 089-090) | `agence_webhooks`, `webhook_deliveries` | enqueue, deliver, retry, close, change a webhook | passes that overlap, counts written from a copy, timeouts | `Webhooks` |
| Lease integrity (`lib/bailHash`, `verify-integrity`) | `payload_snapshot`, hash | hash, compare | which text each party signed | planned |
| Jobs (`lib/cron/withCronLogging`, other `cron/*`), rate limiter (`lib/rateLimit`), reminders | cursors, counters, cooldowns | run, retry | overlap, counters in memory and in the database | planned |
| Reviews, IRL, annonces, agencies and their API keys | own tables | | publication, computation, cascades | no |
| Accounts, storage, PDFs, e-mail, scraping, QA tools, user interface, vendored code | | | pure I/O, layout, or third-party | no |

The components meet on the `annonces` row, which nobody owns: signature, invitation, amendments and end of lease all write
it. They send each other messages only in the sense of rows of `messages` that later handlers look for (`[EDL_A_PLANIFIER]`
is both a message to people and the code's mark that the double signature has been processed). `PROJECT.json` lists the
components and, under `hazards`, each place where the code is exposed, at its line.

## 2. Modules

| Module | Models | Lines up with the code as |
|---|---|---|
| `DoubleSignature` | the promise: every party signs, then the act takes effect, once | abstract specification of `BailSignature` and `Avenants` |
| `BauxSuccessifs` | the promise: one tenant at a time, who leaves in order - deposit returned, lease archived, annonce free - and does not come back | abstract specification of `FinDeBail` |
| `BailSignature` | the signature of one lease | a request is a process, `requete[r].pc` names the next Supabase call, the other fields what it keeps of what it read; one action per call, in the handler's order |
| `BailInvitation` | invitations and imports, several annonces of an owner | the same; `Echoir` is the passing of `expires_at` |
| `Avenants` | the amendments to one lease | the same |
| `FinDeBail` | the end of a lease and the next lease on the same annonce | the same; `Vieillir` lets a day or two months pass |
| `EtatDesLieux` | the inspection of entry of one let, and the opening of the exit one | a request is a call of a route, with any argument the route takes, whether a page offers it or not: it says what to write, then keeps what the route's own read has found |
| `Loyers` | the months of an annonce that have a rent | the schedule of `bail/signer` (or the past months `bail/accepter` fills in), the job, and each declaration are processes that look, then insert; the owner's entry only inserts; `MoisSuivant` is a month that begins |
| `Candidatures` | one candidacy, its decisions, and the gate of the visits | one action per call; a message is dated before it is inserted, so that two may land in the other order |
| `Visites` | the visits of one candidate | a process is a page with its copy of the rows (`copie`); `Charger` reloads it, every other action writes one row by id |
| `Webhooks` | the deliveries to one agency's webhooks | a pass of the job handles its rows in parallel, `tache[p][l].pc` is the progress of `processDelivery` for one row |
| `MC*` | instances for TLC: constants and symmetry, nothing else | |
| `*Proofs` | theorems and their proofs | one module per component, except `VisitesLoyersProofs`, in two parts, which is why `Loyers` names its own `SpecLoyers`, `TypeLoyers`, `echecs` ... |

Conventions shared by the modules. Everything a handler does between two calls belongs to the action of the call.
`ErreurIgnoree` is a call that fails without the handler looking at it - the request goes on as if it had been made, or, for
a read, as if there were no row; `Interrompre` is the death of the function or a checked failure that returns 4xx/5xx. In
`Loyers` the reads whose errors are ignored have actions of their own, `DeclarerAveugle`, `EcheancierAveugle` and
`JobAveugle`; in `Visites`, `EcriturePerdue` is an update whose error the page does not look at. All draw on the budget
`MaxPannes` (`MaxEchecs` in `Loyers`). `Repos` says that no request is in progress. Payloads, texts, amounts and dates are
abstracted to what the handlers compare. The `Sans...`, `...Oublie`, `...SiPropose` definitions of the mutation section of a
module are plausible bugs (a dropped guard, an unrepaired race); they belong to no specification and show that each property
can be broken. A history variable (said so in its comment) records what no row keeps.

## 3. Runs

Passing runs.

| Run | Instance | Shows |
|---|---|---|
| `BailSignature` | 2 requests with any role, 1 candidate, 1 e-mail of nobody's, 1 lease text, 1 failure (1.8 M states) | the annonce is let by signature only when both rows exist (`BasculeADeuxSignatures`) and, without failure, always when they do (`AucunBailOublie`): at least one of two simultaneous requests sees both rows; timestamps are backed by rows even after a failure; the inspection invitation never precedes the let annonce and its rents; the handler implements `DoubleSignature` |
| `BailSignatureVivacite` | the same, no failure, `FairSpec` (141 k states) | both signatures lead to the act (`AccordSpec`), and the owner is told of the tenant's signature |
| `BailInvitation` | 2 annonces (one published), 2 tenants, 2 tokens, 4 requests, 1 failure (159 k states, symmetry) | at most one pending invitation per annonce thanks to the partial index; an acceptance never becomes a refusal nor the reverse (the unguarded expiry may still overwrite either); the recipient of an imported lease has an accepted invitation to it, or one that says otherwise only because two answers crossed; without failure an accepted invitation has its lease and its conversation, and no import leaves an annonce without an invitation |
| `Avenants` | 2 amendments, 4 requests of either party, 1 failure (1.3 M states, symmetry) | numbers are 1..n; what reaches the annonce was signed by both; without failure an amendment signed by both has been put in force, and the column an active one changes is no longer the lease's; each amendment implements `DoubleSignature` |
| `FinDeBail` | 2 successive tenants, one session each for owner and tenant, one job, 1 failure (1.4 M states) | the leases follow one another as `BauxSuccessifs` says (`SuccessionSafe`): no lease is archived before *its* deposit is recorded as returned, though the column is shared by all leases, no deposit is recorded for another tenant than the one in place, no lease comes back; no tenant is cleared before an archive exists; without failure an archived tenant is off the annonce and has it in the list of former homes |
| `Candidatures` | 5 requests, 1 failure (259 k states, symmetry) | no visit is proposed by a candidate nobody has validated; before the lease, when no two requests cross, the gate applies the last decision told, whichever message holds it |
| `Visites` | 2 visits, 1 page of the tenant, 2 of the owner, 1 lost write (57 k states, symmetry) | nobody settles a visit alone, however stale the pages; a withdrawal leaves nothing open but what a stale page confirms or what is proposed since |
| `EtatDesLieux` | 1 save of the owner, 4 other requests, 1 failure (420 k states, symmetry) | a signed inspection keeps its text and never becomes a draft again, unless a save had passed its check before the signature; an exit inspection stands on an entry one that was signed, here or on paper, unless the entry one of a former let was found or the owner had said "valide" (or "sortie") of the unsigned row, both of which the route accepts |
| `Loyers` | 2 requests, a schedule of 2 months over 3 months, leases that begin up to a month ahead or in any month past, rents of a former tenant up to any month, 1 failure (1.1 M states, symmetry) | one rent per month when no inserts cross, no read fails unseen and the owner enters none by hand; the current month of a lease has its rent once the job has run, whatever else has failed or crossed, and from the end of the schedule on in the first month of a lease signed here, when nothing failed and no rent lay ahead |
| `Webhooks` | 1 webhook, 2 events, 2 overlapping passes, 2 attempts, batches of 2, 1 change of settings, 1 failure (1.4 M states, symmetry) | a delivery is closed for a reason, however late the writes; with no failure, it is sent again after a 2xx, or beyond its attempts, only by passes that held it at once |

Runs that refute what a comment of the code says (details and line numbers in `PROJECT.json`, `findings`).

| Run | Statement refuted |
|---|---|
| `BailSignatureEffets` | the effects of the double signature occur once ("Idempotent", "doublons en cas de double-clic", "Appelé une seule fois") |
| `FinDeBailRelance` | a let-again annonce is taken by the late deposit job only if its deposit was not returned |

The other findings of `PROJECT.json` name the sequence of calls that shows each of them, or the constraint of a migration
that is enough to see it; they have no run of their own.

**Bounds and why they are enough.** The races of this code are between two requests on one row; two requests per lease, and
four where a full life takes more of them (propose, sign twice, refuse; create, accept, refuse, import), contain all of them.
One failure is enough to stop each handler, or to lose each call, at each point; properties that promise an outcome are
restricted to `pannes = 0`, the others hold with the failure. Where the code leaves a window open between a check and a
write, a history variable (`croise`, `croisees`) notes that two actors went through it, and the property says what holds
otherwise. Two annonces and two tokens are what distinguishes the partial index from none, two amendments what the numbering
needs, two tenants what separates a lease from the next. One tenant is enough in `BailSignature`'s passing run because its
properties are about roles. Five requests let a candidacy be opened twice, decided, undone and used, and an inspection be
signed, saved late, countersigned, disputed and followed by the exit one; one save of the owner is enough, since the row may
already hold anything an earlier one could have written. Two pages of the owner are what makes one of them stale while the
other acts; a lost write leaves the page believing in it. In `Webhooks` two attempts are enough for one to be lost to a late
write and another to remain, and a batch of two makes a pass deliver both rows in parallel while the other pass overlaps it
on either. In `Loyers` three months and a schedule of two leave a month that only the job can create, month 0 stands for all
those before, and `MaxAvance = 1` lets a lease begin, and a rent be declared, in a month to come; a former tenant's rows may
stop before, in or after the new schedule. Symmetry is declared on requests, ids and pages of a party only, in runs without
liveness properties.

**Deadlock** is checked in `Visites`, where a page can always be reloaded. Elsewhere it is not: the sets of requests, tokens,
tenants and events are finite, and a system that has served them all may stop.

**Fairness.** `FairSpec` of `BailSignature` asks that a request once begun is carried on by the server (`WF` of its next
call), which is what the runtime does unless it kills the function, and that run has no failure. Nobody is obliged to sign,
send or open a page. No other module assumes any. In `Webhooks` nothing is promised in the end, because the code guarantees
neither that a pass is started (the repository has a line in `cron-routes.tsv` and a generator of timers, but commits no
unit) nor that a delivery ends: `clearTimeout` comes before the body of the answer is read, so an endpoint that never ends
its body holds the task until the pass is killed, the attempt uncounted (findings). What is stated instead is safety,
`EssaisBornes`: the retries that do happen are not more than `max_attempts`.

**Assumptions of `FinDeBail`.** Each lease has another tenant; the annonce has a deposit; a session of the owner or of the
tenant makes one request at a time (the pages disable their buttons while one is running), and the owner does not start a new
lease during a request of theirs. With two owner sessions a late restitution lands on the next lease and `SuccessionSafe` is
false: listed as a hazard. Requests do not last a day, so time passes only between them. The job's mail preference, which
only suppresses the mail, and the choice between one and two months are left out.

**Assumptions of the other modules.** `Visites`: no page calls the routes `refuser`, `annuler` and `no-show`, whose statuses
the database refuses; a form left open is a page not reloaded. `Candidatures`: candidates of an annonce share nothing but the
annonce. `EtatDesLieux`: the tenant is the one the row names; the deadline of a contestation is set by no page, so its job
never selects a row. `Avenants`: an amendment changes the rent, the charges or a clause, one of them at a time, which is what
the only caller (`buildPayload` of `ProposerAvenantModal`) can send of the keys `signer` propagates. `Webhooks`: every
webhook subscribes to every event; the date of the next attempt is left out, a pass may take any pending row; the statistics
never change, as the function that should change them is in no migration. `Loyers`: the rent and charges of the annonce are
positive, since no schedule and no month is written otherwise; an import comes through `importer`, whose annonce is let (the
job ignores the others); the annonce is not deleted, nor let a second time; the job of a month is over before the next month
begins; confirmations and receipts change a row and add no month. In `BailSignature`, any account may sign as guarantor, the
parties included: `Garants` are the e-mails of people who are no party.

## 4. Proofs

The eight `*Proofs` modules prove, for any number of people, requests, pages, passes, rows and failures and under the
modules' named assumptions, type correctness and:

- *Lease signature* (`DeuxSignatures`, `Horodatages`, `PasDOubli`, `InvitationApres`, `Raffinement`). That a lease both
  parties signed is never forgotten cannot be seen from the rows: `RequetesAppuyees` says that a request past its upsert has
  its row and one about to let the annonce has seen both, `UneRequeteVeille` that as long as nothing has failed, if both rows
  exist then either the annonce has been let by signature or some request is still between its upsert and `SignerLouer`,
  `EtapesFranchies` what a request past `SignerLouer` has done. The refinement maps `signe` to the roles found in
  `bail_signatures` and `actif` to "some request has written loué".
- *Invitations* (`EnAttenteUnique`, `BailInvite`, `ReponsesDefinitives`, `Acceptations`, `Imports`). `ReponsesFondees` and
  `ImportsReserves` tie each request to the invitation or the annonce it works for, and say that the invitation of one past
  its acceptance is accepted, or was overwritten by an answer that crossed it (`croisee`); `MarcheSepare` keeps published
  annonces apart from imported ones. What has been begun is finished because some request is still at it:
  `AcceptationsSuivies`, `ImportsSuivis`.
- *Amendments* (`Numerotation`, `ChampsCouverts`, `AvenantsAboutissent`, `AvenantsAppliques`, `AvenantsRaffinent`). Numbers
  are `1..n` because of the unique constraint, in spite of the stale read (`NumerosReserves`); a request that remembers two
  signatures is right about them for ever, since none is ever removed (`RequetesFondees`); while nothing has failed, an
  amendment with both signatures is active or has a request about to make it so (`UneRequeteActive`), and one in force is
  copied or has a request about to copy it (`EnVigueurApplique`).
- *End of lease* (`ArchiveAvant`, `RestitutionAvant`, `Archivees`, `Successifs`). `Fonde`: a request of the owner past its
  read works for the tenant still on the annonce, unless the tenant has been taken off, and one about to take it off has
  written its archive. `Rendu`, for a single owner session (`SessionUnique`, stated as a hypothesis of the theorem): a
  deposit column that is set speaks of the current tenant. Steps are first sorted (`Classement`) into those that touch none
  of this and the few that decide. `ArchivesSuivies`: while nothing has failed, the request that archived a tenant is still
  on its way to what relouer has left to do. The refinement of `BauxSuccessifs` maps `occupant` to the tenant of the annonce
  and `archives` to the tenants of `historique_baux`; besides `Fonde` and `Rendu` it needs `EnPlace` (every request of the
  single owner session works for the tenant still in place) and `RendusConnus` (who got a deposit back is in place or
  archived, so that the next tenant is a new one). Each decisive step is then one abstract step or none (`PasDecisif`,
  `PasBail`).
- *Visits* (`RendezVous`, `Retraits`). `Accordes` adds to the first what the pages hold: a visit that any of them, however
  old, shows as confirmed has been agreed to by the party that did not propose it. The second is inductive as it stands.
- *Rents* (`UnLoyer`, `MoisCouverts`). `SansDoublon`: as long as no two of the lease, the job and the declarations have been
  between read and insert at once and no read has failed unseen, at most one of them is (`Seul`) and what it read still holds
  (`Attendu`), so that its insert doubles no month. `Combles`: a job that has run with the lease let has left the month its
  rent or is about to, and no step takes a rent away. `Prevus` says which months are about to be inserted, `Entamee` that
  with no failure and no rent ahead a schedule that stops on a rent found stops on one of its first month. The length of the
  schedule and how far ahead leases begin are any numbers.
- *Inspections* (`SignatureConservee`, `SortiesFondees`). `RequetesFondees` says what a request past its check knows of the
  row, `Fondements` that a valid row, and each request past a valid row or past the signature, has what `SortieFondee` asks
  for (`Atteste`), which no step takes away (`AttesteStable`).
- *Candidacies* (`PorteGardee`, `PorteEtVerdict`). `Dates` orders the messages by the dates given, `Autorisations` ties every
  validated row to an agreement; while no two requests have crossed there is one message and at most one request at work on
  it (`UnSeul`), which leaves the message with the decision it is about to post (`Suivi`, `Verdict`).
- *Webhooks* (`Clotures`, `Redites`, `EssaisFinis`). `Comptes` bounds the attempts a pass has read, or a pending row holds,
  by the POSTs that really failed, `Presence` keeps the reason of an abandonment; `Croisements`: two passes past their second
  look at a row have crossed; `Tenues`: a row answered 2xx that no passes have crossed on is pending only while the pass that
  got the answer is about to write it; `Exacts`: with no failure, the attempts of such a row are exactly its failed POSTs,
  save between a POST and the write that counts it.

Each proof has the usual shape: `Init => IInv`, one step per action or kind of action for `IInv /\ [Next]_vars => IInv'`,
`IInv => Property`.

Every safety property of the passing runs is the statement of a theorem. Only model-checked: the liveness properties
(`AccordSpec`, `BailleurPrevenu`), whose fairness needs ENABLED and is out of the prover's reach. `RestitutionAvant` is the
one theorem on a safety statement no run checks by itself: it is part of `SuccessionSafe`. No module uses a RECURSIVE
operator.

## 5. Plan

Done: lease signature, invitations, amendments, end of lease; then candidacies, visits, inspections, the months of the rents
and the webhooks. What is left, in this order:

1. `Loyers`: confirmations, receipts and the reminder of late rents, whose rows carry no tenant of their own.
2. `Integrite`: which card each signature hashed, against the page that posts a new one.
3. `RateLimit` and `Cron`: the counters and the job wrapper, with the reminders and the post-lease job that depend on them.
4. Pure functions: rent indexation, legal delay of a notice, status of a candidacy, against reference definitions.
5. A composition of signature, end of lease and invitation on one annonce, `BauxSuccessifs` extended with what comes before
   the lease is in force (sent, signed), and its refinement; in it, several sessions of the owner.

Not modelled and why: pure I/O and layout (PDFs, e-mails, storage, images), generated or third-party code, read-only
aggregation, authentication (the requests of the models are already authorised, except where the order of the check matters),
the user interface except the functions of the pages named in the modules' headers, which write the rows themselves. Most of
the repository's lines are of these kinds (pages, templates, tables of strings); the models cover the handlers whose steps
interleave or fail. Amicable termination and three visit routes are left out because the database refuses the statuses they
write.
