SPECIFICATION Spec
CONSTANTS
  e1 = e1
  e2 = e2
  pc1 = pc1
  pc2 = pc2
  p1 = p1
  w1 = w1
  w2 = w2
  NoPC = NoPC
  NoEngineer = NoEngineer
  Temp = Temp
  Engineers = {e1, e2}
  PCs = {pc1, pc2}
  Passwords = {p1}
  Workers = {w1, w2}
  RequireDevice = TRUE
SYMMETRY Symmetry
INVARIANTS
  SignedInWhereApproved
  PasswordsAgree
PROPERTIES
  CustomerDeviceNeverRebinds
