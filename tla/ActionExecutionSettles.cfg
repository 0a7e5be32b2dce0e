SPECIFICATION FairSpec
CONSTANTS
  i1 = i1
  x1 = x1
  h1 = h1
  Id = {i1}
  Executor = {x1}
  Provider = {p1}
  Key = {k1}
  Payload = {d1}
  ResultRef = {r1}
  ErrorCode = {"E"}
  ReportStatus = {"succeeded", "failed"}
  Handler = {h1}
  Timeout = 1
  Limit = 1
  MaxTime = 2
  p1 = p1
  k1 = k1
  d1 = d1
  r1 = r1
PROPERTY EveryExecutionSettles
