SPECIFICATION Spec
CONSTANTS
  Suites <- MCSuites
  SuiteDir <- MCSuiteDir
  Top <- MCTop
  Sides <- MCSides
INVARIANTS
  AcceptedRuns
  RejectedLeave
  SettingsFit
  MostSpecificWins
CHECK_DEADLOCK FALSE
