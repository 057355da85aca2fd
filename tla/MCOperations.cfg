CONSTANTS
  Procs = {1, 2}
  Forbidden <- MCForbidden
  Selectors <- MCSelectors
  Trees = {1, 2}
  Balances = {48}
  MaxPolls = 2
  MaxDisturbances = 1
  MaxGateNonce = 4
  OFFICIAL_VAULT_COUNT = 2
  MaxNonce = 11
  MaxRuns = 2
  MaxTests = 1
  MaxChanges = 1
SPECIFICATION OperationsSpec
INVARIANTS
  BroadcastFromCleanCommit
  GateEvidenceIsTrue
  LiveIsAuthorized
  PublishedIsOneSuite
  ReleaseIsSound
CHECK_DEADLOCK FALSE
