SPECIFICATION Spec
CONSTANTS
  r1 = r1
  r2 = r2
  r3 = r3
  rpm = rpm
  otpm = otpm
  Request = {r1, r2, r3}
  Entry = {rpm, otpm}
  RPM = {rpm}
  OTPM = {otpm}
  Value <- Values
  Amount <- Amounts
  Actual <- Outputs
  WindowTicks = 2
  MaxTick = 3
  FaultKind = {"config", "redis"}
  MaxFaults = 1
INVARIANTS RequestsWithinLimit CounterExact CountersBounded
CHECK_DEADLOCK FALSE
