SPECIFICATION Spec
CONSTANTS
  c1 = c1 c2 = c2 a1 = a1 a2 = a2
  Cases <- MCCases
  Arms <- MCArms
  MaxReps = 1
  Workers = 2
  MaxSessions = 2
INVARIANTS TypeOK DecisionIsComparable
PROPERTIES NothingDropped RerunKeepsScores SessionEnds
CHECK_DEADLOCK FALSE
