SPECIFICATION TurnSpec
CONSTANTS
  p1 = p1
  p2 = p2
  Parts <- MCParts
  Reinvoked <- MCReinvoked
  MaxToolCallsPerRun = 2
  MaxToolRejectionCorrections = 1
  MaxToolCallAttempts = 2
  MaxTurns = 2
  MaxCrashes = 2
  MaxFaults = 1
INVARIANTS
  ToolLimitsKept
  StartedAreClosed
PROPERTY
  TurnImplemented
CHECK_DEADLOCK FALSE
