SPECIFICATION MCSpec
CONSTANTS
  MAX_POOL_BASE_UNITS = 6
  LIQUIDITY_BUFFER_BPS = 5000
  BPS = 10000
  MINIMUM_STRATEGY_EPOCH_AGE = 1
  STRATEGY_PROOF_DEADLINE = 1
  COMET_ROUNDING_TOLERANCE = 1
  Amounts = {1, 3}
  MAX_EPOCHS = 3
  MAX_MANAGED = 8
  SaverSteps = 3
  PauseSteps = 2
  MarketSteps = 2
CHECK_DEADLOCK FALSE
INVARIANTS
  PrincipalConserved
  BurnRecoverable
PROPERTIES
  OnlySurplusIsPrize
