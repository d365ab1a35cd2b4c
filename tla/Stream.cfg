\* Two clients for one place, errors that evict; fair cleanup; no symmetry, which is unsound for liveness.
SPECIFICATION FairSpec
CONSTANTS
  Client = {d1, d2}
  Key = {k1, k2, k3}
  Addr = {a1, a2}
  NoClient = NoClient
  NoKey = NoKey
  NoAddr = NoAddr
  NoSession = NoSession
  NoEntry = NoEntry
  MaxClients = 1
  MaxErrors = 2
  MaxSeq = 0
  Faults = TRUE
INVARIANTS TypeOK PinnedAddress
PROPERTIES SingleUseEndsWithPlace SessionlessLeave
