SPECIFICATION LiveSpec
CONSTANTS
  h1 = h1
  h2 = h2
  s1 = s1
  s2 = s2
  Handler = {h1, h2}
  Sub = {s1}
  Plan = {0, 1, 2}
  Priced = {1, 2}
  Ops = {"checkout", "verify", "downgrade", "cancel", "change", "status", "portal", "payment", "period"}
  Ordered = FALSE
  MaxTurns = 2
  MaxFaults = 2
  NoPlan = NoPlan
  NoSub = NoSub
INVARIANTS DroppedOnlyByFailure AppliedOnce PlanWasPaidFor
PROPERTY EventuallyAcked
CHECK_DEADLOCK FALSE
