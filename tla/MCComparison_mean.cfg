\* The mean, with runs at the floor on a side whose mean is above it.
SPECIFICATION Spec
CONSTANTS
  Sides <- FewSides
  Options <- OneOption
  Statistic = "mean"
  Resamples = 2
INVARIANTS
  CalledChangesHold
CHECK_DEADLOCK FALSE
