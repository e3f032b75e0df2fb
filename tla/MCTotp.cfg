SPECIFICATION Spec
CONSTANTS
  a1 = a1
  l1 = l1
  l2 = l2
  Admins = {a1}
  Logins = {l1, l2}
  MaxTime = 2
  MaxSecrets = 2
SYMMETRY Symmetry
INVARIANTS
  TypeOK
  CounterOncePerEnrolment
  NotLockedOut
PROPERTIES
  ReuseNeedsNewRow
