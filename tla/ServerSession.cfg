SPECIFICATION Spec
CONSTANTS
  Users = {u1}
  Passwords = {p1, p2}
  Unusable = Unusable
  NoAccount = NoAccount
  Sessions = {s1, s2}
  Clients = {c1}
  ConfigBinding = FALSE
INVARIANTS
  TypeOK
  ServedWasAllowed
  StoreIsDurable
PROPERTIES
  RightsOnlyByAdmin
  PasswordChangedByHolder
SYMMETRY Symmetry
