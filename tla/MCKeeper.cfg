SPECIFICATION MCLiveSpec
CONSTANTS
  Lifecycle <- Redraw
  CONFIRMATIONS = 2
  MaxAttempts = 7
  MaxRound = 2
  FaultSteps = 1
  ExternalSteps = 1
  DueSteps = 1
  AllSteps = 2
CHECK_DEADLOCK FALSE
INVARIANTS
  BroadcastIsJournalled
  ReconciledIsFinal
PROPERTIES
  KeeperAdvances
