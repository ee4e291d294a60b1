SPECIFICATION Spec
CONSTANTS
  w1 = w1
  w2 = w2
  w3 = w3
  i1 = i1
  Workers = {w1, w2, w3}
  Instances = {i1}
  HostOf <- OneHost
  Backend = "postgres"
  DurableDisk = FALSE
  MaxCase = 3
  MaxYear = 2
SYMMETRY WorkerSymmetry
INVARIANTS
  InsertNeverCollides
  ClaimFailsOnlyToARival
  PpapNumbersGapless
  PpapSharedOnlyByOverlap
