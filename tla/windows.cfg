SPECIFICATION SocketsSpec
CONSTANTS
  MaxRecords = 2
  MaxSize = 4
  InitialCount = 1
  MaxInFlightFrames = 2
  FrameSize = 3
  MaxPendingRequests = 4
  InitialLog <- OneTurn
  MaxCommits = 2
  MaxEvents = 2
INVARIANTS
  HoldsACompleteCut
  LiveIsOfTheCut
  NothingOwed
  HonestSocketKept
CHECK_DEADLOCK FALSE
