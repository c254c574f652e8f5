SPECIFICATION Spec
CONSTANTS
  c1 = c1
  c2 = c2
  p1 = p1
  Clients = {c1, c2}
  Paths = {p1}
  LegacyPaths = {p1}
  Chosen <- MCChosen
  MaxId = 2
  HashWriteFails = TRUE
  SilentLoss = TRUE
SYMMETRY ClientSymmetry
INVARIANTS
  TypeOK
  FilesOpen
  DecryptFaithful
