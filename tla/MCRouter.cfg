SPECIFICATION LiveRouter
CONSTANTS
  c1 = c1  c2 = c2  d1 = d1  d2 = d2
  None = None
  Client = {c1, c2}
  Streaming = {c2}
  Deployment = {d1, d2}
  Group <- Group2
  Registered = {d1, d2}
  Priority <- PriorityOf
  Cost <- CostOf
  Weights <- Weights12
  Strategies = {"fallback", "round-robin", "lowest-latency", "cost-optimized"}
  Outcomes = {"ok", "busy", "transform", "refused"}
  MaxRetries = 3
  CounterMod = 3
  LastTick = 1
  MaxStreak = 3
INVARIANTS CooldownEarned RoundsCounted WeightedShare
PROPERTY EventuallyReplied
CHECK_DEADLOCK FALSE
