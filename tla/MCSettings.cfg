SPECIFICATION SpecSettings
CONSTANTS
  s1 = s1  s2 = s2  s3 = s3  q1 = q1  a1 = a1  a2 = a2
  c1 = c1  c2 = c2  k1 = k1  k2 = k2  b1 = b1  g1 = g1  g2 = g2  n1 = n1  n2 = n2  p1 = p1  h1 = h1
  NoSlot = NoSlot  NoConfig = NoConfig  NoName = NoName
  Slot = {s1, s2, s3}
  Reader = {q1}
  Admin = {a1, a2}
  Asked = {TRUE}
  MaxLimits = 1
  CopyTTL = 1
  ReadDelay = 1
  MaxTime = 3
  MaxRequests = 3
  MaxFailures = 1
  Config = {c1, c2}
  KeyId = {k1, k2}
  ConfigAdmin = {b1}
  MaxTasks = 7
  MaxMisses = 1
  Group = {g1, g2}
  GroupName = {n1, n2}
  TenantOf <- MCTenantOf
  Pod = {p1}
  GroupAdmin = {h1}
  ServedBy <- MCServedBy
  MaxJobs = 6
  MaxMishaps = 1
SYMMETRY Symmetry
INVARIANTS LimitsFresh LimitsWithinPlan ConfigsConsistent GroupsFollow
CHECK_DEADLOCK FALSE
