SPECIFICATION MCLiveSpec
CONSTANTS
  s1 = s1
  s2 = s2
  k = k
  Accounts = {s1, s2, k}
  Savers = {s1, s2}
  Progressors = {k}
  Rounds = {1, 2, 3}
  BOND_AMOUNT = 5
  REWARD_PER_PARTICIPANT_PASS = 2
  MAX_FORCED = 1
  MAX_POOL_BASE_UNITS = 2
  ROUND_DURATION = 1
  FIRST_ROUND_OPENS_AT = 1
  RANDOM_DOMAIN = 3
  MAX_AGGREGATE_TWAB = 3
  MAX_CHUNK = 2
  Amounts = {2}
  DecryptionFaults = TRUE
  MAX_TIME = 3
  MAX_ATTEMPTS = 2
  MAX_YIELD = 0
  BalanceSteps = 1
  RegistrationSteps = 2
  PrizeSteps = 0
  WinningsSteps = 0
  PreferenceSteps = 0
  PayoutSteps = 2
CHECK_DEADLOCK FALSE
INVARIANTS
  EveryWeiAccounted
  RoundsResolveExactly
PROPERTIES
  EscrowRefined
  RoundsSettle
