\* Three runs a side, the median, and every two resamples.
SPECIFICATION Spec
CONSTANTS
  Sides <- MCSides
  Options <- MCOptions
  Statistic = "median"
  Resamples = 2
INVARIANTS
  HoldsBelowFloor
  BudgetHolds
  FullEvidence
  SeparatedIsCalled
CHECK_DEADLOCK FALSE
