SPECIFICATION Spec
CONSTANTS
  i1 = i1
  i2 = i2
  r1 = r1
  r2 = r2
  r3 = r3
  r4 = r4
  Ids <- DeuxIds
  Requetes <- QuatreRequetes
  Aucun = Aucun
  MaxPannes = 1
SYMMETRY Symetrie
INVARIANTS
  TypeOK
  NumerosConsecutifs
  AvenantJamaisOublie
  ChampsSignes
  ActifApplique
PROPERTIES
  AccordSafe
CHECK_DEADLOCK FALSE
