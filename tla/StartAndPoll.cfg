SPECIFICATION PollSpec
CONSTANTS
  Depth = 2
  InitHeight = 3
  Nodes = {"btcd", "core"}
  Entries = 2
  MaxHeight = 4
  MaxStarts = 3
  MaxFaults = 1
CHECK_DEADLOCK FALSE
INVARIANTS PollTypeOK SeedWasShown AheadByNoticesOnly OnlyNoticesSkip
PROPERTIES CatchUpEnds PollAdvances PollerStops
