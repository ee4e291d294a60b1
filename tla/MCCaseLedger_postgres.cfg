SPECIFICATION FairSpec
CONSTANTS
  w1 = w1
  w2 = w2
  r1 = r1
  Workers = {w1, w2}
  Rules = {r1}
  PatchTo = {"approved"}
  Verdicts = {"PASS", "FLAG"}
  Backend = "postgres"
  MaxFiles = 2
  MaxEvents = 3
INVARIANTS
  LateEventNeverCollides
  CollisionIsWithAReview
  TrailAccounts
PROPERTIES
  EveryOperationEnds
  AppendOnly
