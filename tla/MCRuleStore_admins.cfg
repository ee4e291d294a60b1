SPECIFICATION Spec
CONSTANTS
  w1 = w1
  w2 = w2
  t1 = t1
  catalog = catalog
  Workers = {w1, w2}
  Releases = 3
  Base <- Growing
  Texts = {t1}
  CatalogText = catalog
  MaxRules = 4
SYMMETRY Symmetry
INVARIANTS
  BaseRulesYield
  PositionsFollowNumbers
PROPERTY
  EditsSurvive
