SPECIFICATION TagSpec
CONSTANTS
  a = a
  b = b
  tA = tA
  tB = tB
  tC = tC
  tP = tP
  Scope = Scope
  Texts = {tA, tB, tC, tP}
  Names <- MCNames
  Short = {tA, tC}
  None = None
  Elements = {a, b}
  Documents <- SmallDocuments
  Scores <- SomeScores
  MaxUnit = 3
  MaxPrimary = 4
CHECK_DEADLOCK FALSE
INVARIANTS
  GapsAreFilled
  StatusTellsGaps
  EvidenceIsItsSections
