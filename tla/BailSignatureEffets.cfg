SPECIFICATION Spec
CONSTANTS
  l1 = l1
  g1 = g1
  r1 = r1
  r2 = r2
  Locataires <- UnLocataire
  Garants <- SansGarant
  Bailleur = Bailleur
  Personne = Personne
  Requetes <- DeuxRequetes
  StatutsCandidature <- EnAttente
  MaxCartes = 1
  MaxPannes = 0
INVARIANTS
  EffetsUniques
CHECK_DEADLOCK FALSE
