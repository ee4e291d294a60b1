SPECIFICATION FairSpec
CONSTANTS
  w1 = w1
  w2 = w2
  w3 = w3
  Workers = {w1, w2, w3}
  Limit = 2
  Window = 4
  RetryAfter = 2
INVARIANTS
  WindowKept
  NoNeedlessSleep
PROPERTY
  SomeoneGetsThrough
