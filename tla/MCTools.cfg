SPECIFICATION ToolsSpec
CONSTANTS
  Timestamps = {1, 2, 3, 4, 5}
  Queries = {0, 1, 2, 3, 4, 5, 6}
  MAX_OBSERVATIONS = 5
  Pids = {1, 2, 3}
  MaxBirths = 2
  MaxAttempts = 2
  MaxSignals = 1
  MaxOutages = 1
  RetryBudget = 2
  MaxMeddles = 3
INVARIANTS
  SearchCorrect
  OnlyOwnProcessesStruck
  SamplesAreAsRegistered
  ClosureIsTrue
PROPERTIES
  LauncherEnds
CHECK_DEADLOCK FALSE
