SPECIFICATION Spec
CONSTANTS
  out = out
  sum = sum
  Compare = TRUE
  NumSuites = 2
  NumBenchmarks = 1
  Dests = {out, sum}
  Actions = TRUE
  FailOnInconclusive = TRUE
  Panics = TRUE
INVARIANTS
  LeftoversAccounted
  SuccessIsEarned
  CauseIsGravest
CHECK_DEADLOCK FALSE
