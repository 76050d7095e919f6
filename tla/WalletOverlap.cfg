SPECIFICATION WalletSafety
CONSTANTS
  Chain <- TwoPayments
  InitHeight = 0
  InitAddrs = {11}
  NewAddrs = {}
  Foreign = 0
  Nonstandard = 99
  Node = "btcd"
  Publishers = {1}
  Spaced = FALSE
  Lossy = FALSE
  MaxFaults = 0
  MaxCrashes = 1
  InitCoins <- NoCoins
  Amounts = {3}
  FeeBase = 1
  FeePerInput = 1
  MaxSends = 1
  Serial = FALSE
  MayGrow = TRUE
  MaxSendFaults = 1
  MaxSendCrashes = 0
CHECK_DEADLOCK FALSE
INVARIANTS AppendsAreKept BalanceIsWhole
