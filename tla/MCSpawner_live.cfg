SPECIFICATION Spec
CONSTANTS
  s1 = s1
  s2 = s2
  s3 = s3
  a = a
  b = b
  Spawners = {s1}
  MaxCommands = 2
  Envs = {a}
  NoEnv = NoEnv
  NoSpawner = NoSpawner
  Faults = {"crash"}
PROPERTIES
  CallsReturn
  StartedOnce
  NothingOutlivesHimorime
CHECK_DEADLOCK FALSE
