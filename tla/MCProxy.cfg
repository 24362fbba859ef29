SPECIFICATION FairBudget
CONSTANTS
  r1 = r1
  r2 = r2
  k1 = k1
  k2 = k2
  pa = pa
  pb = pb
  Account = Account
  AnyProvider = AnyProvider
  Request = {r1, r2}
  Responses = {r2}
  Key = {k1, k2}
  Provider = {pa, pb}
  CostOf <- Costs
  ReserveOf <- Reserves
  KeyOf <- Keys
  ProviderOf <- Providers
  Limits <- BudgetLimits
  Pods = 2
  MaxPeriod = 1
  FaultKind = {"limits", "redis", "duplicate", "upstream", "client", "crash"}
  MaxFaults = 2
INVARIANTS ReservationsConserved
PROPERTIES RefusedOnlyWhenCommitted DroppedOnlyOverBudget EventuallyReleased
CHECK_DEADLOCK FALSE
