SPECIFICATION Spec
CONSTANTS
  Rows = {1, 2, 3, 4, 5, 6}
  Values <- MCValues
  ArraySize = 2
  Underflow = 1
  Areas = {{1, 2}, {1, 2, 3, 4, 5}}
  Bounds = {0, 3, 4}
INVARIANTS
  TreeSound
  IndexExact
  QueryExact
CHECK_DEADLOCK FALSE
