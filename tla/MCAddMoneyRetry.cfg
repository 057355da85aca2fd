SPECIFICATION MCSpec
CONSTANTS
  Kinds = {"add-money"}
  Amounts = {1}
  BOND_AMOUNT = 1
  Draws = 2
  RECORDS = 20
  StartLedger <- MCLedger
  MaxOps = 1
  MaxTx = 4
  MaxSearches = 1
  MaxFaults = 1
  MaxSubmits = 2
CHECK_DEADLOCK FALSE
INVARIANTS
  NoDuplicateWhilePending
