SPECIFICATION MCSpec
CONSTANTS
  s1 = s1
  s2 = s2
  k = k
  Accounts = {s1, s2, k}
  Savers = {s1, s2}
  Progressors = {k}
  Rounds = {1, 2, 3}
  BOND_AMOUNT = 5
  REWARD_PER_PARTICIPANT_PASS = 2
  MAX_FORCED = 0
  MAX_POOL_BASE_UNITS = 2
  ROUND_DURATION = 2
  FIRST_ROUND_OPENS_AT = 1
  RANDOM_DOMAIN = 4
  MAX_AGGREGATE_TWAB = 4
  MAX_CHUNK = 2
  Amounts = {1}
  DecryptionFaults = FALSE
  MAX_TIME = 4
  MAX_ATTEMPTS = 2
  MAX_YIELD = 0
  BalanceSteps = 3
  RegistrationSteps = 2
  PrizeSteps = 0
  WinningsSteps = 0
  PreferenceSteps = 0
  PayoutSteps = 0
SYMMETRY Symmetry
CHECK_DEADLOCK FALSE
INVARIANTS
  WeightsReconcile
  SelectionReconciles
  TicketUnbiased
