\* Two requests in flight over two regions and two screen contents, with faults.
SPECIFICATION FairSpec
CONSTANTS
  Call = {r1, r2}
  Region = {left, right}
  Content = {p, q}
  NoPicture = NoPicture
  Failed = Failed
  MaxErrors = 2
  Faults = TRUE
INVARIANTS TypeOK FramesOfRegion RunningIsEnabled
PROPERTIES NothingAfterStop RequestsReturn
