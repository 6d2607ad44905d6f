SPECIFICATION Spec
CONSTANTS
  l1 = l1
  g1 = g1
  r1 = r1
  r2 = r2
  Locataires <- UnLocataire
  Garants <- UnGarant
  Bailleur = Bailleur
  Personne = Personne
  Requetes <- DeuxRequetes
  StatutsCandidature <- EnAttenteOuValidee
  MaxCartes = 1
  MaxPannes = 1
INVARIANTS
  TypeOK
  BasculeADeuxSignatures
  AucunBailOublie
  HorodatageAppuye
  InvitationApresEcheancier
PROPERTIES
  AccordSafe
CHECK_DEADLOCK FALSE
