SPECIFICATION Spec
CONSTANTS
  s1 = s1
  p1 = p1
  p2 = p2
  a1 = a1
  a2 = a2
  r1 = r1
  Slot = {s1}
  Provider = {p1, p2}
  Admin = {a1, a2}
  Resolver = {r1}
  Moves = FALSE
  MaxEpoch = 3
SYMMETRY Symmetry
INVARIANTS TypeOK CacheFollowsBindings StaleIsDetectableIfSerial
