SPECIFICATION Spec
CONSTANTS
  l1 = l1
  l2 = l2
  b1 = b1
  o1 = o1
  c1 = c1
  Locataires <- DeuxLocataires
  Personne = Personne
  Bailleurs <- UnBailleur
  Occupants <- UnOccupant
  Taches <- UneTache
  MaxPannes = 1
INVARIANTS
  TypeOK
  ArchiveAboutit
PROPERTIES
  ArchiveAvantRemise
  SuccessionSafe
CHECK_DEADLOCK FALSE
