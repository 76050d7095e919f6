SPECIFICATION SpendSafety
CONSTANTS
  InitCoins <- TwoCoins
  Amounts = {3, 4, 12}
  FeeBase = 1
  FeePerInput = 1
  MaxSends = 2
  Serial = FALSE
  MayGrow = TRUE
  MaxSendFaults = 1
  MaxSendCrashes = 1
CHECK_DEADLOCK FALSE
INVARIANTS MarksAreTrue CoinsExist NeverUnderstated
