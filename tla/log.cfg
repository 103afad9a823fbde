SPECIFICATION MCSpec
CONSTANTS
  None = None
  k1 = k1
  c1 = c1
  m1 = m1
  Readers = {r1}
  Commands <- MCCommands
  Submissions <- MCSubmissions
  Batches <- MCBatches
  Reducers = {"app"}
  ReplayCapacity = 2
  PageRows = 2
  MaxLog = 2
  MaxSnapshots = 1
  MaxEphemerals = 2
  MaxCrashes = 2
  MaxVersion = 1
INVARIANTS
  FoldIsLog
  EventsOrdered
  LogReadable
  HydrationIsReplay
PROPERTY
  StreamImplemented
CHECK_DEADLOCK FALSE
