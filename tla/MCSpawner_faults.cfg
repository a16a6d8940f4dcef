SPECIFICATION Spec
CONSTANTS
  s1 = s1
  s2 = s2
  s3 = s3
  a = a
  b = b
  Spawners = {s1, s2, s3}
  MaxCommands = 2
  Envs = {a, b}
  NoEnv = NoEnv
  NoSpawner = NoSpawner
  Faults = {"start", "io", "send", "poll"}
SYMMETRY Symmetry
INVARIANTS
  CommandsKeptApart
PROPERTY Implements
CHECK_DEADLOCK FALSE
