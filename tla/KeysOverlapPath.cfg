SPECIFICATION KeySafety
CONSTANTS
  c1 = c1
  c2 = c2
  Clients <- TwoClients
  Tracked = TRUE
  MaxIssued = 2
  MaxKeyFaults = 0
  MaxRestarts = 0
CHECK_DEADLOCK FALSE
INVARIANT KeyAtItsPath
SYMMETRY Symmetry
