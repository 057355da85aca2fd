CONSTANTS
  Pids = {1, 2, 3}
  MaxBirths = 2
  MaxAttempts = 2
  MaxSignals = 1
SPECIFICATION LauncherSpec
INVARIANTS DirectoryOutlivesProcesses
CHECK_DEADLOCK FALSE
