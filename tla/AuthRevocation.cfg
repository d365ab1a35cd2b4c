\* An old socket revokes a newer session.
SPECIFICATION Spec
CONSTANTS
  Device = {d1, d2}
  Conn = {c1, c2}
  Challenge = {h1, h2, h3}
  NoDevice = NoDevice
  NoChallenge = NoChallenge
  NoRequest = NoRequest
  NoSession = NoSession
  MaxPending = 1
  MaxOrder = 2
  MaxBlocking = 1
  DiskFaults = FALSE
SYMMETRY Symmetry
PROPERTY RevocationIsOwn
