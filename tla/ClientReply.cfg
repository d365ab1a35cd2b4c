\* A client the server has accepted shows BLOCKED.
SPECIFICATION Spec
CONSTANTS
  MaxQueue = 2
  MaxExponent = 3
  MaxPushes = 1
INVARIANT BarredWasRefused
CHECK_DEADLOCK FALSE
