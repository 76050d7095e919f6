SPECIFICATION ScanSpec
CONSTANTS
  Chain <- TwoBlocks
  InitHeight = 2
  InitAddrs = {11}
  NewAddrs = {12}
  Foreign = 0
  Nonstandard = 99
  Node = "core"
  Publishers = {1}
  Spaced = TRUE
  Lossy = FALSE
  MaxFaults = 2
  MaxCrashes = 2
CHECK_DEADLOCK FALSE
INVARIANTS ScanTypeOK ScannedIsRecorded NeverUnderCredited
PROPERTIES KeepsPromise CatchesUp
