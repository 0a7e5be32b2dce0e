SPECIFICATION Spec
CONSTANTS
  g1 = g1
  p1 = p1
  p2 = p2
  o1 = o1
  k1 = k1
  d1 = d1
  e1 = e1
  e2 = e2
  h1 = h1
  h2 = h2
  Id = {g1}
  Plugin = {p1, p2}
  Op = {o1}
  Key = {k1}
  Payload = {d1}
  Event = {e1, e2}
  ReportStatus = {"succeeded", "failed"}
  BindStatus = {"active", "disabled"}
  Ttl = {1}
  Nested = FALSE
  Reentrant = FALSE
  MaxDepth = 1
  Handler = {h1, h2}
  Limit = 1
  MaxEpoch = 2
  MaxTime = 1
PROPERTY ReceiptStands
