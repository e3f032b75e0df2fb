SPECIFICATION Spec
CONSTANTS
  u1 = u1
  u2 = u2
  s1 = s1
  s2 = s2
  n1 = n1
  n2 = n2
  n3 = n3
  f1 = f1
  f2 = f2
  NoSubject = NoSubject
  NoName = NoName
  NoUser = NoUser
  Users = {u1, u2}
  Subjects = {s1, s2}
  Usernames = {n1, n2, n3}
  Flows = {f1, f2}
  MaxRenames = 2
SYMMETRY Symmetry
INVARIANTS
  TypeOK
PROPERTIES
  BoundOnFirstLogin
  BoundByOwnFlow
