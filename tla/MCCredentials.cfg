SPECIFICATION Spec
CONSTANTS
  p1 = p1
  p2 = p2
  a = a
  b = b
  k = k
  NoName = NoName
  Procs = {p1, p2}
  TargetNames = {a, b}
  IdentNames = {k}
  SecretKinds = {"password", "private_key"}
  MaxRows = 3
  MaxOps = 6
SYMMETRY Symmetry
CHECK_DEADLOCK FALSE
INVARIANTS
  TypeOK
  UsesOwnSecret
  SettledIsUsable
PROPERTIES
  CleanupDeletesOwn
