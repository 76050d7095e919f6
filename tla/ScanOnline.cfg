SPECIFICATION ScanSpec
CONSTANTS
  Chain <- OddBlocks
  InitHeight = 0
  InitAddrs = {11}
  NewAddrs = {12}
  Foreign = 0
  Nonstandard = 99
  Node = "btcd"
  Publishers = {1}
  Spaced = FALSE
  Lossy = TRUE
  MaxFaults = 1
  MaxCrashes = 1
CHECK_DEADLOCK FALSE
INVARIANTS AppendedIsSaved OnlyOwnCoins NeverOverstated CaughtUpOrNotified
PROPERTY ScansEnd
