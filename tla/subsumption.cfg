SPECIFICATION Spec
CONSTANTS
  Variables <- MCVariables
  Code <- MCCode
  Hashes = 4
  SizeMask = 5
  DepthMask = 2
  PreflenMask = 2
  StrayMatch = FALSE
  Inputs <- MCInputs
  Byte = 7
  Answer = "ans"
  OneAnswer = TRUE
  BackSubsume = TRUE
  Second <- MCSecond
  Instances <- MCInstances
  MaxPicks = 2
  Leftover <- MCLeftover
INVARIANTS UnifyExact
PROPERTIES SubsumptionExact
CHECK_DEADLOCK FALSE
