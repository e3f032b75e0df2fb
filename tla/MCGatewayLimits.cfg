SPECIFICATION Spec
CONSTANTS
  c1 = c1
  c2 = c2
  c3 = c3
  NoUser = NoUser
  NoTarget = NoTarget
  NoGrant = NoGrant
  Channels = {c1, c2, c3}
  Users = {1, 2, 3}
  Targets = {1}
  AgentRows = {}
  Groups = {}
  Kinds = {"menu", "forward"}
  GrantSets <- MCGrantSets
  MaxSessions = 2
  MaxSessionsPerUser = 1
  MaxChanges = 0
SYMMETRY Symmetry
INVARIANTS
  TypeOK
  CountersExact
PROPERTIES
  LimitsEnforced
