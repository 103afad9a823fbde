SPECIFICATION Spec
CONSTANTS
  Projected = TRUE
  MaxInFlightFrames = 2
  BufferCapacity = 1
  MaxSeq = 2
  MaxEphemerals = 2
  MaxSurprises = 1
INVARIANTS
  NothingSkipped
  FrameAccounting
  HonestClientKept
  NothingLeftBehind
CHECK_DEADLOCK FALSE
