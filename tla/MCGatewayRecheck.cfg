SPECIFICATION Spec
CONSTANTS
  c1 = c1
  g1 = g1
  NoUser = NoUser
  NoTarget = NoTarget
  NoGrant = NoGrant
  Channels = {c1}
  Users = {1}
  Targets = {1, 2}
  AgentRows <- MCAgentRows
  Groups = {g1}
  Kinds = {"menu", "shell", "sftp", "scp", "forward"}
  GrantSets <- MCGrantSets
  MaxSessions = 1
  MaxSessionsPerUser = 1
  MaxChanges = 1
PROPERTIES
  RecheckSeesTheAccount
