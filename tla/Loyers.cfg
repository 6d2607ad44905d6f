SPECIFICATION SpecLoyers
CONSTANTS
  r1 = r1
  r2 = r2
  Requetes <- DeuxRequetes
  Duree = 2
  MaxAvance = 1
  MaxMois = 3
  MaxEchecs = 1
SYMMETRY Symetrie
INVARIANTS
  TypeLoyers
  UnLoyerParMois
  
CHECK_DEADLOCK FALSE
