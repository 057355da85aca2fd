SPECIFICATION MCLiveSpec
CONSTANTS
  Kinds = {"add-money", "withdraw-savings", "withdraw-winnings", "prize-enable", "prize-disable", "entry-top-up", "entry-withdraw", "claim-refund", "claim-reward"}
  Amounts = {1}
  BOND_AMOUNT = 1
  Draws = 2
  RECORDS = 20
  StartLedger <- MCLedger
  MaxOps = 2
  MaxTx = 4
  MaxSearches = 1
  MaxFaults = 2
  MaxSubmits = 2
CHECK_DEADLOCK FALSE
INVARIANTS
  RecordsAreTrue
  StepsInOrder
PROPERTIES
  PendingIsResolved
