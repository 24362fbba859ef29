SPECIFICATION Spec
CONSTANTS
  k1 = k1  k2 = k2  k3 = k3  p1 = p1  p2 = p2  g1 = g1  g2 = g2  a1 = a1  a2 = a2
  NoKey = NoKey
  Keys = {k1, k2}
  Pods = {p1, p2}
  Getters = {g2}
  Admins = {a1}
  PodOf <- MCPodOf
  IdleTTL = 2
  HardTTL = 2
  Delay = 1
  MaxProviderKeys = 2
  MaxTime = 4
  MaxOps = 2
  MaxFaults = 1
SYMMETRY Symmetry
INVARIANTS ActiveIsLive StaleUseBounded
CHECK_DEADLOCK FALSE
