SPECIFICATION SelectSpec
CONSTANTS
  Values = {0, 1, 3}
  MaxCoins = 4
  Amounts = {1, 3, 4}
INVARIANTS SelectTypeOK IntnIsSafe ResultIsRight
PROPERTY SelectEnds
