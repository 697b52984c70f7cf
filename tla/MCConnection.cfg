SPECIFICATION FairSpec
CONSTANTS
  MaxRequests = 3
  MaxPushes = 2
CONSTRAINT Small
INVARIANTS
  TypeOK
  ListHoldsPending
  OneAnswer
  CloseWaits
  HalfStopped
PROPERTIES
  KeepsPromise
  EveryRequestDecided
  GoAwayHonoured
