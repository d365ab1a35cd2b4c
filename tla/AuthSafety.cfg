\* Two devices, two sockets, a queue of two: eviction, reconnection, races.
SPECIFICATION Spec
CONSTANTS
  Device = {d1, d2}
  Conn = {c1, c2}
  Challenge = {h1, h2, h3}
  NoDevice = NoDevice
  NoChallenge = NoChallenge
  NoRequest = NoRequest
  NoSession = NoSession
  MaxPending = 2
  MaxOrder = 3
  MaxBlocking = 1
  DiskFaults = FALSE
SYMMETRY Symmetry
INVARIANTS TypeOK QueueCovers SingleUseTied ChallengesUsedOnce
PROPERTIES ImplementsAdmission
