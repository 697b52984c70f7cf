SPECIFICATION FairSpec
CONSTANTS
  NServers = 2
  Apps = {a, b}
  NComponents = 2
  Requests = {q}
  MaxRuns = 2
  a = a
  b = b
  q = q
INVARIANTS
  TypeOK
  ServeReady
  GracefulStop
  SocketsClosed
PROPERTIES
  KeepsService
  FailureStopsRun
  StopEndsRun
