SPECIFICATION Spec
CONSTANTS
  a1 = a1
  a2 = a2
  n1 = n1
  n2 = n2
  f1 = f1
  f2 = f2
  None = None
  Actors = {a1, a2}
  Names = {n1, n2}
  Fingerprints = {f1, f2}
  MaxId = 2
SYMMETRY Symmetry
INVARIANTS
  UsableAdminExists
