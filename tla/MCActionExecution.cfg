SPECIFICATION Spec
CONSTANTS
  i1 = i1
  i2 = i2
  x1 = x1
  h1 = h1
  h2 = h2
  Id = {i1, i2}
  Executor = {x1}
  Provider = {p1, p2}
  Key = {k1}
  Payload = {d1}
  ResultRef = {r1}
  ErrorCode = {"E"}
  ReportStatus = {"succeeded", "failed"}
  Handler = {h1, h2}
  Timeout = 1
  Limit = 1
  MaxTime = 2
  p1 = p1
  p2 = p2
  k1 = k1
  d1 = d1
  r1 = r1
SYMMETRY Symmetry
INVARIANTS TypeOK KeyNamesOneExecution ReconcilerMarkStands AuditFollowsLedger
PROPERTIES SweepSparesSettled ImplementsContract
