SPECIFICATION Spec
CONSTANTS
  Streams = {s, t}
  Promised = {p, q}
  MaxBody = 1
  MaxPushes = 2
  Window = 1
  MaxFrame = 1
  MaxGrowth = 1
  s = s
  t = t
  p = p
  q = q
SYMMETRY Symmetry
INVARIANTS TypeOK RequestWhole OpenForAReason
PROPERTY NothingAfterEnd
