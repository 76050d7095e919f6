SPECIFICATION LockSpec
CONSTANTS
  c1 = c1
  c2 = c2
  s1 = s1
  Calls <- TwoCalls
  Sends <- OneSend
  Durations <- FewDurations
  MaxUnlocks = 3
  MaxStarts = 1
INVARIANTS LockTypeOK RelockScheduled
PROPERTY LocksAgain
