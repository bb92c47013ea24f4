SPECIFICATION FairSpec
CONSTANTS
  ForkCounts = {0, 2, 3}
  RunCounts <- GuideLengths
  Modes = {TRUE, FALSE}
  Failures <- SomeFailures
  Homes = {"init", "subreaper", "pid1"}
INVARIANTS SuccessIsProof FailureIsExhaustive NoRunTwice KillsOnlyItsOwn NobodyLeftBehind NoOrphanSearches
PROPERTIES NoProofLost EveryoneEnds
CHECK_DEADLOCK FALSE
