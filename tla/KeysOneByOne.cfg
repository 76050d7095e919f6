SPECIFICATION KeySafety
CONSTANTS
  c1 = c1
  c2 = c2
  Clients <- OneClient
  Tracked = TRUE
  MaxIssued = 3
  MaxKeyFaults = 2
  MaxRestarts = 2
CHECK_DEADLOCK FALSE
INVARIANTS KeyTypeOK FreshAddresses IssuedRecoverable KeysInOrder
PROPERTY KeepsOrder
