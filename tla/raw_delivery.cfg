SPECIFICATION FairSpec
CONSTANTS
  Projected = FALSE
  MaxInFlightFrames = 1
  BufferCapacity = 1
  MaxSeq = 2
  MaxEphemerals = 2
  MaxSurprises = 1
PROPERTIES
  CatchesUp
  PublicationsReturn
CHECK_DEADLOCK FALSE
