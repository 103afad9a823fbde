SPECIFICATION FairSpec
CONSTANTS
  Ingress <- QueueOperations
  MaxIngress = 3
  MaxSurprises = 1
  MaxCmd = 6
  MaxRun = 5
  MaxTurn = 5
  Deferred = TRUE
INVARIANTS
  TypeOK
  OneOwnedRun
  ReservationRetried
PROPERTY
  EverythingSettles
CHECK_DEADLOCK FALSE
