CONSTANTS
  x = x
  y = y
  Names <- MCNames
  MaxDepth = 2
  torn = torn
  other = other
  MaxExisting = 5
  MaxSelected = 2
  MaxAdditions = 1
SPECIFICATION MoveSpec
SYMMETRY MCSymmetry
INVARIANTS  MovedIsGone
CHECK_DEADLOCK FALSE
