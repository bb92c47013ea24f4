SPECIFICATION FairSpec
CONSTANTS
  Atoms = {1, 2, 3}
  Ans = {10, 11}
  InputSets <- Problems
  RequiredNumbers = {1, 2}
  Arglens = {0, 1}
INVARIANTS AnswersFollow AnswersComplete UnitsInPlay
PROPERTIES EventuallyEnds
CHECK_DEADLOCK FALSE
