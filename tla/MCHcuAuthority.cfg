CONSTANTS
  Cases <- MCCases
  Chains <- MCChains
  PinnedBlockCap = 40
  Callers <- MCCallers
  Canonical <- MCCanonical
  PriceTypes = {"Uint8", "Uint64"}
  Buckets = {"n1"}
  MaxSafe = 50
  BlockScoped <- MCBlockScoped
  Pinned <- MCPinned
  Ceilings <- MCCeilings
  Closure <- MCClosure
  Installed <- MCInstalled
  MaxOther = 2
SPECIFICATION Spec
INVARIANTS
  PassMeansVerified
  HonestRunPasses
  AcceptedIsDerived
CHECK_DEADLOCK FALSE
