\* Every message order of a handshake with two pushes, three failures, a stop.
SPECIFICATION FairSpec
CONSTANTS
  MaxQueue = 2
  MaxExponent = 3
  MaxPushes = 2
INVARIANTS TypeOK LoopsOfOneConnection ConnectedWasAccepted StoppedIsClean
PROPERTIES HandshakeEnds FailedAttemptsRetried StopEnds StalePictureLeaves
CHECK_DEADLOCK FALSE
