SPECIFICATION Spec
CONSTANTS
  h1 = h1
  h2 = h2
  s1 = s1
  s2 = s2
  Handler = {h1}
  Sub = {s1, s2}
  Plan = {0, 1, 2, 3}
  Priced = {1, 2}
  Ops = {"checkout", "downgrade", "cancel", "change", "status", "portal", "payment", "period"}
  Ordered = TRUE
  MaxTurns = 5
  MaxFaults = 0
  NoPlan = NoPlan
  NoSub = NoSub
SYMMETRY SubSymmetry
INVARIANT Converged
INVARIANT KeepsPlanWhilePending
PROPERTY OnlyEndedIsCleared
CHECK_DEADLOCK FALSE
