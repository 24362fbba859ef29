SPECIFICATION FairSpec
CONSTANTS
  p1 = p1  p2 = p2  h1 = h1  k1 = k1  c1 = c1  c2 = c2
  blocked = blocked
  NoChannel = NoChannel
  Pod = {p1, p2}
  Handler = {h1}
  Event = {blocked}
  Kind = {k1}
  EventOf <- OneEvent
  Channel = {c1, c2}
  Existing = {c1}
  MaxChannels = 2
  TTL = 1
  ReadCount = 2
  MaxTime = 2
  MaxAlerts = 2
  MaxRequests = 1
  FaultKind = {"group", "dedup", "retried", "load", "send", "crash", "statement"}
  MaxFaults = 1
INVARIANT Debounced
PROPERTY EventuallyAlerted
CHECK_DEADLOCK FALSE
