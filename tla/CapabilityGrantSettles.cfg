SPECIFICATION FairSpec
CONSTANTS
  g1 = g1
  g2 = g2
  g3 = g3
  p1 = p1
  o1 = o1
  k1 = k1
  k2 = k2
  k3 = k3
  d1 = d1
  h1 = h1
  Id = {g1, g2, g3}
  Plugin = {p1}
  Op = {o1}
  Key = {k1, k2, k3}
  Payload = {d1}
  Event = {}
  ReportStatus = {}
  BindStatus = {"active"}
  Ttl = {1}
  Nested = TRUE
  Reentrant = TRUE
  MaxDepth = 2
  Handler = {h1}
  Limit = 2
  MaxEpoch = 1
  MaxTime = 1
INVARIANT LineageBounded
PROPERTY OverdueGrantsSettle
