SPECIFICATION FairSpec
CONSTANTS
  e1 = e1  e2 = e2  w1 = w1  w2 = w2  r1 = r1
  account = account  key = key
  NoLimit = NoLimit  None = None
  Event = {e1, e2}
  BilledEvent = {e1}
  UnpricedEvent = {e2}
  Cost <- Costs
  Worker = {w1, w2}
  Reporter = {r1}
  Counter = {account, key}
  AccountCounter = {account}
  Limit <- Limit2And1
  ReadCount = 2
  MaxCopies <- Copies30
  FaultKind = {"resolve", "check", "insert", "incr", "ack", "crash", "evict"}
  MaxFaults = 1
INVARIANTS CounterWithinLimit CounterCoversLedger LeftOnlyOverBudget
PROPERTIES ImplementsLedger EventuallyHandled
CHECK_DEADLOCK FALSE
