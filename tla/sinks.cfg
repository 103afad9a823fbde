SPECIFICATION SinksSpec
CONSTANTS
  None = None
  teller = teller
  Sinks = {teller}
  Wants <- MCWants
  Projected = {teller}
  Hearing = {teller}
  Staging = {teller}
  BatchSize = 2
  EphemeralCapacity = 1
  MaxSaves = 1
  Readers = {}
  Commands = {}
  Submissions = {}
  Batches <- MCBatches
  Reducers = {"app"}
  ReplayCapacity = 1
  PageRows = 1
  MaxLog = 1
  MaxSnapshots = 1
  MaxEphemerals = 2
  MaxCrashes = 1
  MaxVersion = 2
INVARIANTS
  AtLeastOnce
  SinkStateExact
PROPERTIES
  LaneExact
  CaughtUp
CHECK_DEADLOCK FALSE
