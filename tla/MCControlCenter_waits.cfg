SPECIFICATION ScreenSpec
CONSTANTS
  c1 = c1
  c2 = c2
  r1 = r1
  r2 = r2
  s1 = s1
  NoCase = NoCase
  Cases = {c1, c2}
  Rules = {r1, r2}
  Slots = {s1}
  Validated = {c1}
  MaxFailures = 1
SYMMETRY Symmetry
INVARIANTS
  OneCaseAtRest
  SavesOwnResults
  ReportHasDecisions
