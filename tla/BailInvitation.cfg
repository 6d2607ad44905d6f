SPECIFICATION Spec
CONSTANTS
  l1 = l1
  l2 = l2
  a1 = a1
  a2 = a2
  t1 = t1
  t2 = t2
  r1 = r1
  r2 = r2
  r3 = r3
  r4 = r4
  Locataires <- DeuxLocataires
  Personne = Personne
  Annonces <- DeuxAnnonces
  Publiees <- UnePubliee
  Tokens <- DeuxTokens
  Requetes <- QuatreRequetes
  MaxPannes = 1
SYMMETRY Symetrie
INVARIANTS
  TypeOK
  UneSeuleEnAttente
  BailImporteInvite
  AccepteeAboutit
  ImportJamaisOrphelin
PROPERTIES
  ReponseDefinitive
CHECK_DEADLOCK FALSE
