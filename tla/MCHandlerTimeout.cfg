SPECIFICATION FairSpec
CONSTANTS
  Requests = {r1, r2}
  MaxWorkers = 1
  r1 = r1
  r2 = r2
INVARIANTS
  TypeOK
  AnsweredIsOver
  StoppedPoolIsIdle
PROPERTIES
  LateResultIgnored
  PooledAnswered
