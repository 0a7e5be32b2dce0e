SPECIFICATION Spec
CONSTANTS
  s1 = s1
  s2 = s2
  p1 = p1
  p2 = p2
  a1 = a1
  r1 = r1
  Slot = {s1, s2}
  Provider = {p1, p2}
  Admin = {a1}
  Resolver = {r1}
  Moves = TRUE
  MaxEpoch = 3
INVARIANT UnboundSlotIsBindable
