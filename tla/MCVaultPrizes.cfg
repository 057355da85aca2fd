SPECIFICATION MCSpec
CONSTANTS
  s1 = s1
  s2 = s2
  k = k
  Accounts = {s1, s2, k}
  Savers = {s1, s2}
  Progressors = {k}
  Rounds = {1, 2, 3}
  BOND_AMOUNT = 5
  REWARD_PER_PARTICIPANT_PASS = 2
  MAX_FORCED = 0
  MAX_POOL_BASE_UNITS = 3
  ROUND_DURATION = 2
  FIRST_ROUND_OPENS_AT = 1
  RANDOM_DOMAIN = 6
  MAX_AGGREGATE_TWAB = 6
  MAX_CHUNK = 2
  Amounts = {2}
  DecryptionFaults = FALSE
  MAX_TIME = 4
  MAX_ATTEMPTS = 1
  MAX_YIELD = 1
  BalanceSteps = 1
  RegistrationSteps = 2
  PrizeSteps = 1
  WinningsSteps = 1
  PreferenceSteps = 1
  PayoutSteps = 0
SYMMETRY Symmetry
CHECK_DEADLOCK FALSE
INVARIANTS
  PrincipalAccounted
  PrizesAccounted
  VaultSolvent
PROPERTIES
  HistoryFrozen
  WinningsOnlyFromAllocation
