SPECIFICATION FairSpec
CONSTANTS
  Streams = {s}
  Promised = {p}
  MaxBody = 4
  MaxPushes = 2
  Window = 3
  MaxFrame = 2
  MaxGrowth = 2
  s = s
  p = p
INVARIANTS EndedIsWhole BufferedMeansCut
PROPERTY WriteEnds
