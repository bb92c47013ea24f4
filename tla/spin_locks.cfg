SPECIFICATION FairSpec
CONSTANTS
  Procs = {p1, p2, p3}
  Builds <- AllBuilds
INVARIANTS
  ReadersYield
PROPERTIES
  ImplementsRWLock
  Preference
