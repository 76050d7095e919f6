SPECIFICATION ScanSafety
CONSTANTS
  Chain <- ShortBlocks
  InitHeight = 1
  InitAddrs = {11}
  NewAddrs = {}
  Foreign = 0
  Nonstandard = 99
  Node = "core"
  Publishers = {1}
  Spaced = FALSE
  Lossy = FALSE
  MaxFaults = 0
  MaxCrashes = 0
CHECK_DEADLOCK FALSE
INVARIANT NoBlockMissed
