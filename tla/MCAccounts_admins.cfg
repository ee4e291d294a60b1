SPECIFICATION Spec
CONSTANTS
  root = root
  u1 = u1
  u2 = u2
  w1 = w1
  w2 = w2
  Users = {root, u1, u2}
  Seeded = root
  Workers = {w1, w2}
SYMMETRY Symmetry
PROPERTIES
  LastAdminNeedsOverlap
