SPECIFICATION CompactionSpec
CONSTANTS
  Presets <- MCPresets
  MaxSubmits = 2
  MaxTurns = 2
  MaxCompactions = 2
  MaxControls = 1
  MaxCrashes = 1
INVARIANTS
  NothingForgotten
  PromptsPaired
PROPERTIES
  PrefixesKept
CHECK_DEADLOCK FALSE
