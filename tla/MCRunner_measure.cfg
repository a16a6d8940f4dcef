SPECIFICATION Spec
CONSTANTS
  c1 = c1
  c2 = c2
  Commands = {c1, c2}
  Benchmarks <- MCBenchmarks
  Unsupported = {"cpu"}
  TerminalSupported = FALSE
  Elapsed = {0, 1, 2}
INVARIANT SamplesAligned
INVARIANT TornDown
INVARIANT CompleteUnlessFailed
PROPERTY Terminates
PROPERTY FirstFailureKept
