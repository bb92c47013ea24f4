SPECIFICATION FairSpec
CONSTANTS
  Clauses = {c1, c2}
  Kinds <- FourBlocks
  Weights <- ThreeWeights
  MaxPrior = 1
  Ratios = {1}
  Strategies = {0, 1}
  MaxLits = 2
  ParaPartials = FALSE
INVARIANTS NothingLost ExhaustedIsEmpty FairShare AgeShare
PROPERTIES ImplementsSelection NoStarvation
CHECK_DEADLOCK FALSE
