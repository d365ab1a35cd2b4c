\* A still screen is never shown after a stop and start.
SPECIFICATION FairSpec
CONSTANTS
  Call = {r1}
  Region = {left, right}
  Content = {p}
  NoPicture = NoPicture
  Failed = Failed
  MaxErrors = 2
  Faults = FALSE
PROPERTY FrameComes
