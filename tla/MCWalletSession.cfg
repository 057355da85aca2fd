SPECIFICATION LiveSpec
CONSTANTS
  MaxEpoch = 2
  MaxCalls = 2
  MaxEvents = 1
  MaxChanges = 1
CHECK_DEADLOCK FALSE
INVARIANTS
  AuthorizedIsActive
  EndedStaysEnded
  HealthIsOwn
PROPERTIES
  ConnectingEnds
