SPECIFICATION FairReports
CONSTANTS
  r1 = r1  r2 = r2  r3 = r3  h1 = h1  h2 = h2  p1 = p1  p2 = p2  csv = csv  pdf = pdf
  None = None
  Reports = {r1, r2}
  Handlers = {h1}
  Pods = {p1, p2}
  Formats = {csv}
  MaxPending = 2
  MaxSecond = 1
  MaxFailures = 1
INVARIANT CompletedHasFile
PROPERTIES CompletedStays EventuallyDone
CHECK_DEADLOCK FALSE
