SPECIFICATION Spec
CONSTANTS
  Ingress <- ControlOperations
  MaxIngress = 3
  MaxSurprises = 1
  MaxCmd = 6
  MaxRun = 5
  MaxTurn = 5
  Deferred = FALSE
INVARIANTS
  OneOwnedRun
  LoopAlive
PROPERTIES
  SettledIsFinal
  PausedNeedsResume
CHECK_DEADLOCK FALSE
