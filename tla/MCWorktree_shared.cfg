SPECIFICATION Spec
CONSTANTS
  h1 = h1
  h2 = h2
  u = u
  v = v
  Himorimes = {h1, h2}
  Users = {u}
  NewUsers = {v}
  Lookalikes = {}
  MaxName = 2
  NoEntry = NoEntry
  Faults = {"git", "mkdir", "rm"}
SYMMETRY Symmetry
INVARIANTS
  LeavesNoWorktree
  OrphansCleared
PROPERTY LastingEntriesUntouched
CHECK_DEADLOCK FALSE
