SPECIFICATION Spec
CONSTANTS
  NumRules = 5
  Settings <- ThreeSettings
  Raw = {"PASS", "N/A", "CONDITIONAL", "MISSED"}
  Strays = {1, 4}
CHECK_DEADLOCK FALSE
INVARIANTS
  VerdictIsTheAnswer
  PassIsEarned
  ReviewsClearWhatFailed
PROPERTIES
  EveryElementEnds
