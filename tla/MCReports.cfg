SPECIFICATION ReportsSpec
CONSTANTS
  Description <- MCDescription
  Names <- MCNames
  Resolve <- MCResolve
  Files <- MCFiles
  Requests <- MCRequests
  Saved = "saved"
  NoFile = 0
  MaxRuns = 2
INVARIANTS
  DocumentsWhole
  ReportsHeld
  SavedKept
  SectionsStable
CHECK_DEADLOCK FALSE
