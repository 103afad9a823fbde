SPECIFICATION FairSpec
CONSTANTS
  Ingress <- EveryOperation
  MaxIngress = 2
  MaxSurprises = 1
  MaxCmd = 5
  MaxRun = 5
  MaxTurn = 5
  Deferred = FALSE
PROPERTY
  EverythingSettles
CHECK_DEADLOCK FALSE
