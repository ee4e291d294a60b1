SPECIFICATION Spec
CONSTANTS
  w1 = w1
  w2 = w2
  h1 = h1
  h2 = h2
  d1 = d1
  d2 = d2
  Workers = {w1, w2}
  Hosts = {h1, h2}
  Docs = {d1, d2}
  Uploads <- AllUploads
  S3Enabled = TRUE
  MaxRequests = 3
  MaxRestarts = 1
CHECK_DEADLOCK FALSE
CONSTRAINT Bounded
SYMMETRY Symmetry
INVARIANTS
  FileNumbersAgree
  RowsOwnTheirFiles
  StoredPathsAreReal
  EvidenceIsComplete
  StatusHasReport
