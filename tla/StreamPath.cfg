\* A client readmitted under its old session discards what it is sent.
SPECIFICATION PathSpec
CONSTANTS
  Client = {d1, d2}
  Key = {k1, k2, k3}
  Addr = {a1}
  NoClient = NoClient
  NoKey = NoKey
  NoAddr = NoAddr
  NoSession = NoSession
  NoEntry = NoEntry
  MaxClients = 2
  MaxErrors = 1
  MaxSeq = 1
  Faults = FALSE
PROPERTY NewFramesAreTaken
