SPECIFICATION Spec
CONSTANTS
  x = x
  y = y
  torn = torn
  other = other
  Names <- MCNames
  MaxDepth = 3
  MaxSources = 2
  MaxWrites = 1
SYMMETRY MCSymmetry
INVARIANTS
  NothingLost
  StaysInPlace
CHECK_DEADLOCK FALSE
