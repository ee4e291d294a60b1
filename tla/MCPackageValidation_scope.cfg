SPECIFICATION PackageSpec
CONSTANTS
  RulesOf <- OneEach
  StartLevels = {1, 2}
  Taggable = {3, 4, 18}
  Choices <- ByHand
  Reviewable <- ReviewKeys
  MaxEdits = 1
INVARIANTS
  StatusIsEarned
  ReviewsCannotFillGaps
  OverallCoversTable
  FindingsReachTheReport
  HealthTellsGaps
  MatrixAgrees
