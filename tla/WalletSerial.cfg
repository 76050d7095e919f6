SPECIFICATION WalletSpec
CONSTANTS
  Chain <- ThreePayments
  InitHeight = 0
  InitAddrs = {11}
  NewAddrs = {12}
  Foreign = 0
  Nonstandard = 99
  Node = "core"
  Publishers = {1}
  Spaced = TRUE
  Lossy = FALSE
  MaxFaults = 1
  MaxCrashes = 0
  InitCoins <- NoCoins
  Amounts = {4, 12}
  FeeBase = 1
  FeePerInput = 1
  MaxSends = 2
  Serial = TRUE
  MayGrow = FALSE
  MaxSendFaults = 0
  MaxSendCrashes = 0
CHECK_DEADLOCK FALSE
INVARIANTS WalletTypeOK WalletExact
PROPERTIES SendsEnd
