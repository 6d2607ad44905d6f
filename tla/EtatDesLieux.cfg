SPECIFICATION Spec
CONSTANTS
  s1 = s1
  r1 = r1
  r2 = r2
  r3 = r3
  r4 = r4
  Sauvegardes <- UneSauvegarde
  Demandes <- QuatreDemandes
  MaxPannes = 1
SYMMETRY Symetrie
INVARIANTS
  TypeOK
  SignatureTient
  SortieFondee
CHECK_DEADLOCK FALSE
