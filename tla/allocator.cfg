SPECIFICATION Spec
CONSTANTS
  Base = 3
  SegSize = 44
  Min = 2
  Exact = 4
  VarBuckets = 4
  MaxSubareas = 2
  Subarea = 12
  FixLen = 12
  Requests = {1, 5}
INVARIANTS
  SegmentSound
  Accounted
PROPERTIES
  ImplementsHeap
CHECK_DEADLOCK FALSE
