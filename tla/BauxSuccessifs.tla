---------------------------- MODULE BauxSuccessifs ----------------------------
(***************************************************************************)
(* What the owner is promised of the leases of one annonce, whatever       *)
(* requests carry it out: one tenant at a time, and a tenant leaves in     *)
(* order, the deposit returned, then the lease archived, then the annonce  *)
(* free; a lease that is over does not come back.  FinDeBail implements    *)
(* it with columns of the annonce, none of which says which lease it is    *)
(* about, and a table of archives.                                         *)
(***************************************************************************)
CONSTANTS Locataires,  \* the tenants, one per lease
          Personne     \* no tenant

VARIABLES occupant,  \* the tenant of the current lease
          rendus,    \* the tenants who got their deposit back
          archives   \* the tenants whose lease is archived

bsVars == <<occupant, rendus, archives>>

BSInit == occupant = Personne /\ rendus = {} /\ archives = {}

Occuper(l) ==
  /\ occupant = Personne
  /\ l \notin rendus \cup archives
  /\ occupant' = l
  /\ UNCHANGED <<rendus, archives>>

Rendre ==
  /\ occupant # Personne
  /\ rendus' = rendus \cup {occupant}
  /\ UNCHANGED <<occupant, archives>>

Archiver ==
  /\ occupant \in rendus
  /\ archives' = archives \cup {occupant}
  /\ UNCHANGED <<occupant, rendus>>

Liberer ==
  /\ occupant \in archives
  /\ occupant' = Personne
  /\ UNCHANGED <<rendus, archives>>

BSNext == Rendre \/ Archiver \/ Liberer \/ \E l \in Locataires : Occuper(l)

BSSafeSpec == BSInit /\ [][BSNext]_bsVars
==============================================================================
