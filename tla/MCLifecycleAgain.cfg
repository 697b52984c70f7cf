SPECIFICATION Spec
CONSTANTS
  NServers = 1
  Apps = {a, b}
  NComponents = 2
  Requests = {q}
  MaxRuns = 2
  a = a
  b = b
  q = q
INVARIANT StartedBeforeHandling
