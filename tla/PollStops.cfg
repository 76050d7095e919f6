SPECIFICATION PollSpec
CONSTANTS
  Depth = 2
  InitHeight = 3
  Nodes = {"core"}
  Entries = 1
  MaxHeight = 4
  MaxStarts = 2
  MaxFaults = 0
CHECK_DEADLOCK FALSE
PROPERTY NewBlocksArePolled
