SPECIFICATION Spec
CONSTANTS
  g1 = g1
  p1 = p1
  p2 = p2
  o1 = o1
  k1 = k1
  d1 = d1
  h1 = h1
  Id = {g1}
  Plugin = {p1, p2}
  Op = {o1}
  Key = {k1}
  Payload = {d1}
  Event = {}
  ReportStatus = {}
  BindStatus = {"active", "disabled"}
  Ttl = {1}
  Nested = FALSE
  Reentrant = FALSE
  MaxDepth = 1
  Handler = {h1}
  Limit = 1
  MaxEpoch = 2
  MaxTime = 1
INVARIANT FailsClosed
