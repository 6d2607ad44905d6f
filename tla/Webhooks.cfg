SPECIFICATION Spec
CONSTANTS
  w1 = w1
  e2 = e2
  e1 = e1
  p1 = p1
  p2 = p2
  Points <- UnPoint
  Evenements <- DeuxEvenements
  Passes <- DeuxPasses
  MaxEssais = 2
  Lot = 2
  MaxReglages = 1
  MaxPannes = 1
SYMMETRY Symetrie
INVARIANTS
  TypeOK
  ClotureMeritee
  RediteParChevauchement
  EssaisBornes
CHECK_DEADLOCK FALSE
