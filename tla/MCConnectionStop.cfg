SPECIFICATION Spec
CONSTANTS
  MaxRequests = 3
  MaxPushes = 1
PROPERTIES
  StopAllRequests
