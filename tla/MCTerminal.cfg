SPECIFICATION TerminalSpec
CONSTANTS
  Keys <- MCKeys
  InCap = 2
  OutCap = 2
  MaxWrites = 3
  Modes = {"line", "raw"}
  WriterFails = TRUE
INVARIANTS
  OutputComplete
PROPERTIES
  KeysReadSingly
  CloseReturns
CHECK_DEADLOCK FALSE
