SPECIFICATION SpecProjects
CONSTANTS
  k1 = k1  k2 = k2  v1 = v1  v2 = v2  a1 = a1  a2 = a2
  owner = owner  member = member  main = main  side = side
  NoKey = NoKey
  None = None
  Keys = {k1}
  Validators = {v1}
  Admins = {a1}
  User = {owner, member}
  Owner = owner
  Editors = {member}
  Project = {main, side}
  Default = main
  Op = {"createKey", "revokeKey", "createProject", "deleteProject", "addMember", "setRole",
        "removeMember", "removeUser", "deleteAccount"}
  MaxProjects = 2
  TTL = 1
  Delay = 1
  Lifetimes = {1}
  MaxAPIKeys = 1
  MaxTime = 3
  MaxOps = 3
  MaxAsks = 3
  MaxFaults = 1
CHECK_DEADLOCK FALSE
PROPERTIES  KeyUseBounded ArchivedEmpty
