SPECIFICATION Spec
CONSTANTS
  r1 = r1
  r2 = r2
  r3 = r3
  r4 = r4
  r5 = r5
  Requetes <- CinqRequetes
  MaxPannes = 1
SYMMETRY Symetrie
INVARIANTS
  TypeOK
  VisitesAutorisees
  PorteSuitVerdict
CHECK_DEADLOCK FALSE
