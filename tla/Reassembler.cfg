\* Four frames of one or two fragments; room for two incomplete ones.
SPECIFICATION Spec
CONSTANTS
  MaxFrames = 2
  MaxFragments = 3
  MaxBytes = 3
  MaxCount = 2
  MaxSent = 4
  MaxLives = 1
  MaxKeys = 1
INVARIANTS TypeOK BuffersAhead
PROPERTIES ImplementsChannel
