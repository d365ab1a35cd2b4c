\* Any registry write may fail; fair collector and idle timeout; no symmetry, which is unsound for liveness.
SPECIFICATION FairSpec
CONSTANTS
  Device = {d1}
  Conn = {c1, c2}
  Challenge = {h1, h2, h3}
  NoDevice = NoDevice
  NoChallenge = NoChallenge
  NoRequest = NoRequest
  NoSession = NoSession
  MaxPending = 1
  MaxOrder = 2
  MaxBlocking = 1
  DiskFaults = TRUE
INVARIANTS SessionsGranted
PROPERTIES BlockHolds SingleUseEnds ExpiredRequestsLeave
