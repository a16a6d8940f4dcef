SPECIFICATION Spec
CONSTANTS
  Cases <- MCCases
  Measurements <- MCMeasurements
  Modes = {"run", "compare"}
  MayInterrupt = TRUE
INVARIANTS
  PassIsAssessed
  FailureHasGround
  OutputsAgree
  MeanIsComplete
CHECK_DEADLOCK FALSE
