SPECIFICATION Spec
CONSTANTS
  v1 = v1
  v2 = v2
  pl = pl
  pb1 = pb1
  pb2 = pb2
  Ids <- DeuxIds
  PagesLocataire <- UnePage
  PagesBailleur <- DeuxPages
  MaxPannes = 1
SYMMETRY Symetrie
INVARIANTS
  TypeOK
  RendezVousADeux
  RetraitComplet
